-------------------- MODULE AuthoringConstructionProofs --------------------
(***************************************************************************)
(* Proofs about the construction coordinator, for all requests, schemas,   *)
(* codecs and clocks: what is constructed is whole, rests on the basis,    *)
(* ends in the set and keeps what was supplied; the report of a request    *)
(* does not depend on the order of its intents; identities come again only *)
(* after a whole round of the minter's counter.  That the codec returns    *)
(* what it accepts is a hypothesis of two theorems (CodecHolds).           *)
(***************************************************************************)
EXTENDS AuthoringConstruction, FiniteSetTheorems, WellFoundedInduction, TLAPS

-----------------------------------------------------------------------------
(***************************************************************************)
(* Layers of fields.                                                       *)
(***************************************************************************)
LEMMA Layers ==
    ASSUME NEW f, NEW g
    PROVE  /\ DOMAIN (f ++ g) = DOMAIN f \cup DOMAIN g
           /\ \A n \in DOMAIN f : (f ++ g)[n] = f[n]
           /\ \A n \in DOMAIN g \ DOMAIN f : (f ++ g)[n] = g[n]
  BY DEF ++

(***************************************************************************)
(* The intents of a request.                                               *)
(***************************************************************************)
LEMMA IntentsAt ==
    ASSUME NEW r \in Requests
    PROVE  /\ IntentsOf(r) \in Seq(ItemsOf(r.fragments) \cup ItemsOf(r.relationships))
           /\ r.fragments \in Seq(ItemsOf(r.fragments))
           /\ r.relationships \in Seq(ItemsOf(r.relationships))
           /\ Len(IntentsOf(r)) = Len(r.fragments) + Len(r.relationships)
           /\ \A k \in DOMAIN IntentsOf(r) :
                 IntentsOf(r)[k] = IF IsRelationship(r, k)
                                   THEN r.relationships[k - Len(r.fragments)]
                                   ELSE r.fragments[k]
  <1>1. /\ r.fragments \in Seq(ItemsOf(r.fragments))
        /\ r.relationships \in Seq(ItemsOf(r.relationships))
    BY RequestsAssumption DEF RequestsAssumption, IsList
  <1> DEFINE F == ItemsOf(r.fragments)
             R == ItemsOf(r.relationships)
  <1> HIDE DEF F, R
  <1>2. r.fragments \in Seq(F \cup R) /\ r.relationships \in Seq(F \cup R)
    BY <1>1 DEF F, R
  <1> DEFINE a == r.fragments
             b == r.relationships
  <1>3. a \in Seq(F \cup R) /\ b \in Seq(F \cup R)
    BY <1>2
  <1> HIDE DEF a, b
  <1>4. /\ a \o b \in Seq(F \cup R)
        /\ Len(a \o b) = Len(a) + Len(b)
        /\ \A k \in DOMAIN (a \o b) :
              (a \o b)[k] = IF k > Len(a) THEN b[k - Len(a)] ELSE a[k]
    BY <1>3
  <1> QED
    BY <1>1, <1>4 DEF IntentsOf, IsRelationship, a, b, F, R

LEMMA IntentSpans ==
    ASSUME NEW r \in Requests
    PROVE  /\ Len(r.fragments) \in Nat /\ Len(r.relationships) \in Nat
           /\ DOMAIN r.fragments = 1 .. Len(r.fragments)
           /\ DOMAIN r.relationships = 1 .. Len(r.relationships)
           /\ DOMAIN IntentsOf(r) = 1 .. Len(r.fragments) + Len(r.relationships)
  <1>1. /\ r.fragments \in Seq(ItemsOf(r.fragments))
        /\ r.relationships \in Seq(ItemsOf(r.relationships))
        /\ IntentsOf(r) \in Seq(ItemsOf(r.fragments) \cup ItemsOf(r.relationships))
        /\ Len(IntentsOf(r)) = Len(r.fragments) + Len(r.relationships)
    BY IntentsAt
  <1> QED
    BY <1>1

-----------------------------------------------------------------------------
(***************************************************************************)
(* What a valid report says of the request.                                *)
(***************************************************************************)
Bad == {"violation", "unavailable", "unresolved"}

LEMMA ValidHasNoBad ==
    ASSUME NEW report, StatusOf(report) = "valid", NEW d \in report
    PROVE  d.status \notin Bad
  BY DEF StatusOf, Bad

LEMMA WhenHolds ==
    ASSUME NEW condition, NEW code, NEW status, NEW key, NEW report,
           StatusOf(report) = "valid", status \in Bad,
           When(condition, code, status, key) \subseteq report
    PROVE  ~condition
  <1>1. SUFFICES ASSUME condition PROVE FALSE
    OBVIOUS
  <1>2. Diagnostic(code, status, key) \in report
    BY <1>1 DEF When
  <1>3. Diagnostic(code, status, key).status = status
    BY DEF Diagnostic
  <1> QED
    BY <1>2, <1>3, ValidHasNoBad

LEMMA ValidParts ==
    ASSUME NEW r, StatusOf(Report(r)) = "valid"
    PROVE  /\ r.conforms
           /\ Report(r) = Diagnostics(r)
           /\ BasisCodes(r.basis) \subseteq Report(r)
           /\ \A f \in ItemsOf(r.fragments) :
                 /\ FragmentCodes(r.basis, f) \subseteq Report(r)
                 /\ \A x \in ItemsOf(f.refs) : ReferenceCodes(r, f, x) \subseteq Report(r)
           /\ \A p \in DOMAIN r.relationships : RelationshipCodes(r, p) \subseteq Report(r)
  <1>1. r.conforms
    <2>1. SUFFICES ASSUME ~r.conforms PROVE FALSE
      OBVIOUS
    <2>2. Diagnostic("schema", "violation", NONE) \in Report(r)
      BY <2>1 DEF Report
    <2>3. Diagnostic("schema", "violation", NONE).status = "violation"
      BY DEF Diagnostic
    <2> QED
      BY <2>2, <2>3, ValidHasNoBad DEF Bad
  <1>2. Report(r) = Diagnostics(r)
    BY <1>1 DEF Report
  <1>3. BasisCodes(r.basis) \subseteq Diagnostics(r)
    BY DEF Diagnostics
  <1>4. ASSUME NEW f \in ItemsOf(r.fragments)
        PROVE  FragmentCodes(r.basis, f) \subseteq Diagnostics(r)
    BY Zenon DEF Diagnostics
  <1>5. ASSUME NEW f \in ItemsOf(r.fragments), NEW x \in ItemsOf(f.refs)
        PROVE  ReferenceCodes(r, f, x) \subseteq Diagnostics(r)
    <2> DEFINE Of(g) == UNION {ReferenceCodes(r, g, y) : y \in ItemsOf(g.refs)}
    <2>1. ReferenceCodes(r, f, x) \subseteq Of(f)
      BY Zenon
    <2>2. (UNION {Of(g) : g \in ItemsOf(r.fragments)}) \subseteq Diagnostics(r)
      BY Zenon DEF Diagnostics
    <2> HIDE DEF Of
    <2>3. Of(f) \subseteq UNION {Of(g) : g \in ItemsOf(r.fragments)}
      BY Zenon
    <2> QED
      BY <2>1, <2>2, <2>3
  <1>6. ASSUME NEW p \in DOMAIN r.relationships
        PROVE  RelationshipCodes(r, p) \subseteq Diagnostics(r)
    BY Zenon DEF Diagnostics
  <1> QED
    BY <1>1, <1>2, <1>3, <1>4, <1>5, <1>6

LEMMA ValidUpdate ==
    ASSUME NEW r, StatusOf(Report(r)) = "valid",
           NEW f \in ItemsOf(r.fragments), f.op = "update"
    PROVE  Supplies(f, "id") /\ ExistingMatches(r.basis, f)
  <1>1. UpdateCodes(r.basis, f) \subseteq Report(r)
    BY ValidParts DEF FragmentCodes
  <1>2. ~(f.op = "update" /\ ~Supplies(f, "id"))
    <2>1. When(f.op = "update" /\ ~Supplies(f, "id"), "update_requires_existing",
               "violation", f.key) \subseteq Report(r)
      BY <1>1 DEF UpdateCodes
    <2> QED
      BY <2>1, WhenHolds DEF Bad
  <1>3. ~(f.op = "update" /\ Supplies(f, "id") /\ ~Grounded(r.basis, f))
    <2>1. When(f.op = "update" /\ Supplies(f, "id") /\ ~Grounded(r.basis, f),
               "existing_source_unavailable", "unavailable", f.key) \subseteq Report(r)
      BY <1>1 DEF UpdateCodes
    <2> QED
      BY <2>1, WhenHolds DEF Bad
  <1> QED
    BY <1>2, <1>3 DEF Grounded

LEMMA ValidIdentity ==
    ASSUME NEW r, StatusOf(Report(r)) = "valid", NEW f \in ItemsOf(r.fragments)
    PROVE  IdentityValid(f)
  <1>1. FieldCodes(r.basis, f) \subseteq Report(r)
    BY ValidParts DEF FragmentCodes
  <1>2. When(~IdentityValid(f), "invalid_uuidv7", "violation", f.key) \subseteq Report(r)
    BY <1>1 DEF FieldCodes
  <1> QED
    BY <1>2, WhenHolds DEF Bad

LEMMA ValidCustom ==
    ASSUME NEW r, StatusOf(Report(r)) = "valid",
           NEW f \in ItemsOf(r.fragments), IsCustom(f.type)
    PROVE  Defined(r.basis, f.type, f.qual)
  <1>1. ~r.basis.latest
    <2>1. When(r.basis.latest, "latest_selection", "violation", NONE) \subseteq Report(r)
      BY ValidParts DEF BasisCodes
    <2> QED
      BY <2>1, WhenHolds DEF Bad
  <1>2. QualificationCodes(r.basis, "entity", f.type, f.qual, NONE) \subseteq Report(r)
    <2>1. CustomCodes(r.basis, f) \subseteq Report(r)
      BY ValidParts DEF FragmentCodes
    <2>2. QualificationCodes(r.basis, "entity", f.type, f.qual, NONE)
              \subseteq CustomCodes(r.basis, f)
      BY DEF CustomCodes
    <2> QED
      BY <2>1, <2>2
  <1> DEFINE shaped == /\ f.qual.family = "custom" /\ f.qual.kind = "entity"
                       /\ f.qual.type = f.type
             unavailable == \/ f.qual.version # "1.0"
                            \/ r.basis.custom = NONE
                            \/ /\ "entity" = "entity" /\ ~r.basis.latest
                               /\ ~Defined(r.basis, f.type, f.qual)
  <1>3. shaped
    <2>1. When(~shaped, "qualification_mismatch", "violation", NONE) \subseteq Report(r)
      BY <1>2 DEF QualificationCodes
    <2> HIDE DEF shaped
    <2> QED
      BY <2>1, WhenHolds DEF Bad
  <1>4. ~(shaped /\ unavailable)
    <2>1. When(shaped /\ unavailable, "custom_unavailable", "unavailable", NONE)
              \subseteq Report(r)
      BY <1>2 DEF QualificationCodes
    <2> HIDE DEF shaped, unavailable
    <2> QED
      BY <2>1, WhenHolds DEF Bad
  <1> QED
    BY <1>1, <1>3, <1>4

LEMMA ValidReference ==
    ASSUME NEW r, StatusOf(Report(r)) = "valid",
           NEW f \in ItemsOf(r.fragments), NEW x \in ItemsOf(f.refs)
    PROVE  Targets(r, x.kind, x.target) # {}
  <1> DEFINE matches == \E y \in Targets(r, x.kind, x.target) :
                            x.type \in {NONE, y.type} /\ x.qual \in {NONE, y.qual}
  <1>1. When(~matches, "fragment_unresolved", "unresolved", f.key) \subseteq Report(r)
    <2>1. ReferenceCodes(r, f, x) \subseteq Report(r)
      BY ValidParts
    <2>2. When(~matches, "fragment_unresolved", "unresolved", f.key)
              \subseteq ReferenceCodes(r, f, x)
      BY Zenon DEF ReferenceCodes
    <2> QED
      BY <2>1, <2>2
  <1>2. matches
    <2> HIDE DEF matches
    <2> QED
      BY <1>1, WhenHolds DEF Bad
  <1> QED
    BY <1>2

LEMMA ValidEnds ==
    ASSUME NEW r, StatusOf(Report(r)) = "valid", NEW p \in DOMAIN r.relationships
    PROVE  Resolved(r, r.relationships[p])
  <1> DEFINE x == r.relationships[p]
  <1>1. RelationshipCodes(r, p) \subseteq Report(r)
    BY ValidParts
  <1>2. x.type \notin Forbidden
    <2>1. When(x.type \in Forbidden, "forbidden_type", "violation", x.key) \subseteq Report(r)
      BY <1>1 DEF RelationshipCodes
    <2> QED
      BY <2>1, WhenHolds DEF Bad
  <1>3. UnresolvedCodes(r, x) \subseteq Report(r)
    BY <1>1, <1>2 DEF RelationshipCodes
  <1>4. When(~Resolved(r, x), "endpoint_unresolved", "unresolved", x.key) \subseteq Report(r)
    BY <1>3 DEF UnresolvedCodes
  <1> QED
    BY <1>4, WhenHolds DEF Bad

-----------------------------------------------------------------------------
(***************************************************************************)
(* The inductive invariant.  While no step has failed, the intents before  *)
(* the next one have their identities, then their artifacts and entries,   *)
(* and what is constructed has all of them.                                *)
(***************************************************************************)
HeldFor(r, identities, n) ==
    /\ DOMAIN identities = {IntentsOf(r)[k].key : k \in 1 .. n}
    /\ \A k \in 1 .. n :
          \E j \in 1 .. n :
              /\ IntentsOf(r)[j].key = IntentsOf(r)[k].key
              /\ SuppliedId(IntentsOf(r)[j]) \in {NONE, identities[IntentsOf(r)[k].key].id}

BuiltFor(r, identities, artifacts, entries, n) ==
    /\ artifacts = [k \in 1 .. n |-> ArtifactOf(r, identities, k)]
    /\ entries = [k \in 1 .. n |-> MapEntry(r, identities, k)]
    /\ \A k \in 1 .. n : DecodeAndValidate(ArtifactOf(r, identities, k)).ok

Flow ==
    /\ request \in Requests
    /\ at \in Nat \ {0}
    /\ work = [artifacts |-> work.artifacts, map |-> work.map, diags |-> work.diags]

Fresh == pc = "validate" => ids = <<>> /\ at = 1 /\ work = EmptyWork

Accepted == pc \in {"identify", "build"} \/ Constructed =>
                StatusOf(Report(request)) = "valid"

Identifying ==
    pc = "identify" => /\ at <= Len(Intents) + 1
                       /\ work.artifacts = <<>> /\ work.map = <<>>
                       /\ work.diags = {} => HeldFor(request, ids, at - 1)

Building ==
    pc = "build" => /\ at <= Len(Intents) + 1
                    /\ HeldFor(request, ids, Len(Intents))
                    /\ work.diags = {} =>
                           BuiltFor(request, ids, work.artifacts, work.map, at - 1)

Completed ==
    Constructed => /\ pc = "done"
                   /\ HeldFor(request, ids, Len(Intents))
                   /\ BuiltFor(request, ids, result.artifacts, result.map, Len(Intents))
                   /\ SealsBasis(result.artifacts)

IInv == Flow /\ Fresh /\ Accepted /\ Identifying /\ Building /\ Completed

LEMMA HeldNone == ASSUME NEW r PROVE HeldFor(r, <<>>, 0)
  BY DEF HeldFor

LEMMA HeldMore ==
    ASSUME NEW r, NEW identities, NEW n \in Nat, HeldFor(r, identities, n),
           NEW one, DOMAIN one = {IntentsOf(r)[n + 1].key},
           SuppliedId(IntentsOf(r)[n + 1]) \in {NONE, one[IntentsOf(r)[n + 1].key].id}
    PROVE  HeldFor(r, one ++ identities, n + 1)
  <1> DEFINE Key(k) == IntentsOf(r)[k].key
             more == one ++ identities
             id == one[Key(n + 1)].id
  <1>0. /\ DOMAIN one = {Key(n + 1)} /\ one[Key(n + 1)].id = id
        /\ SuppliedId(IntentsOf(r)[n + 1]) \in {NONE, id}
    OBVIOUS
  <1> HIDE DEF Key, id
  <1>1. DOMAIN more = {Key(n + 1)} \cup DOMAIN identities
    BY <1>0, Layers
  <1>2. more[Key(n + 1)].id = id
    <2>1. Key(n + 1) \in DOMAIN one
      BY <1>0
    <2>2. more[Key(n + 1)] = one[Key(n + 1)]
      BY <2>1 DEF ++
    <2> QED
      BY <1>0, <2>2
  <1>3. ASSUME NEW x \in DOMAIN identities, x # Key(n + 1)
        PROVE  more[x] = identities[x]
    BY <1>0, <1>3 DEF ++
  <1> HIDE DEF more
  <1>4. DOMAIN more = {Key(k) : k \in 1 .. n + 1}
    <2>1. DOMAIN identities = {Key(k) : k \in 1 .. n}
      BY DEF HeldFor, Key
    <2>2. 1 .. n + 1 = (1 .. n) \cup {n + 1}
      OBVIOUS
    <2>3. {Key(k) : k \in (1 .. n) \cup {n + 1}} = {Key(n + 1)} \cup {Key(k) : k \in 1 .. n}
      BY Zenon
    <2> QED
      BY <1>1, <2>1, <2>2, <2>3
  <1>5. ASSUME NEW k \in 1 .. n + 1
        PROVE  \E j \in 1 .. n + 1 : /\ Key(j) = Key(k)
                                    /\ SuppliedId(IntentsOf(r)[j]) \in {NONE, more[Key(k)].id}
    <2>1. CASE Key(k) = Key(n + 1)
      BY <2>1, <1>0, <1>2
    <2>2. CASE Key(k) # Key(n + 1)
      <3>1. k \in 1 .. n
        BY <2>2
      <3>2. PICK j \in 1 .. n :
               Key(j) = Key(k) /\ SuppliedId(IntentsOf(r)[j]) \in {NONE, identities[Key(k)].id}
        BY <3>1 DEF HeldFor, Key
      <3>3. more[Key(k)] = identities[Key(k)]
        BY <1>3, <2>2, <3>1 DEF HeldFor, Key
      <3> QED
        BY <3>2, <3>3
    <2> QED
      BY <2>1, <2>2
  <1>6. HeldFor(r, more, n + 1)
    BY <1>4, <1>5 DEF HeldFor, Key
  <1> QED
    BY <1>6 DEF more, Key

LEMMA BuiltNone == ASSUME NEW r, NEW identities PROVE BuiltFor(r, identities, <<>>, <<>>, 0)
  BY DEF BuiltFor

LEMMA BuiltMore ==
    ASSUME NEW r, NEW identities, NEW artifacts, NEW entries, NEW n \in Nat,
           BuiltFor(r, identities, artifacts, entries, n),
           DecodeAndValidate(ArtifactOf(r, identities, n + 1)).ok
    PROVE  BuiltFor(r, identities, Append(artifacts, ArtifactOf(r, identities, n + 1)),
                    Append(entries, MapEntry(r, identities, n + 1)), n + 1)
  <1> DEFINE A(k) == ArtifactOf(r, identities, k)
             E(k) == MapEntry(r, identities, k)
             as == [k \in 1 .. n |-> A(k)]
             es == [k \in 1 .. n |-> E(k)]
  <1> HIDE DEF A, E
  <1>1. artifacts = as /\ entries = es
    BY DEF BuiltFor, A, E
  <1>2. as \in Seq({A(k) : k \in 1 .. n}) /\ Len(as) = n
    OBVIOUS
  <1>3. es \in Seq({E(k) : k \in 1 .. n}) /\ Len(es) = n
    OBVIOUS
  <1>4. Append(as, A(n + 1)) = [k \in 1 .. n + 1 |-> A(k)]
    BY <1>2
  <1>5. Append(es, E(n + 1)) = [k \in 1 .. n + 1 |-> E(k)]
    BY <1>3
  <1>6. \A k \in 1 .. n + 1 : DecodeAndValidate(A(k)).ok
    BY DEF BuiltFor, A
  <1> QED
    BY <1>1, <1>4, <1>5, <1>6 DEF BuiltFor, A, E

LEMMA IntentCount == ASSUME IInv PROVE Len(Intents) \in Nat /\ DOMAIN Intents = 1 .. Len(Intents)
  BY IntentsAt DEF IInv, Flow, Intents

LEMMA IntentKept == request' = request => Intents' = Intents
  BY DEF Intents

THEOREM InitIInv == Init => IInv
  BY DEF Init, IInv, Flow, Fresh, Accepted, Identifying, Building, Completed, EmptyWork,
         NoResult, Constructed

LEMMA ValidateStep == IInv /\ Validate => IInv'
  <1> SUFFICES ASSUME IInv, Validate PROVE IInv'
    OBVIOUS
  <1> DEFINE report == Report(request)
             status == StatusOf(report)
  <1>1. status \in {"invalid", "unavailable", "unresolved", "valid"}
    BY DEF StatusOf
  <1>2. pc = "validate" /\ ids = <<>> /\ at = 1 /\ work = EmptyWork
    BY DEF Validate, IInv, Fresh
  <1>3. UNCHANGED <<request, at, ids, work>>
    BY DEF Validate
  <1> HIDE DEF report, status
  <1>4. CASE pc' = "done" /\ result'.outcome # "Constructed"
    BY <1>2, <1>3, <1>4 DEF IInv, Flow, Fresh, Accepted, Identifying, Building, Completed,
                            Constructed
  <1>5. CASE pc' = "identify" /\ status = "valid" /\ UNCHANGED result
    <2>1. ~Constructed'
      BY <1>2, <1>5 DEF IInv, Completed, Constructed
    <2>2. HeldFor(request, ids, at - 1)
      BY <1>2, HeldNone
    <2>3. Len(Intents) \in Nat
      BY IntentCount
    <2>4. Intents' = Intents
      BY <1>3, IntentKept
    <2> QED
      BY <1>2, <1>3, <1>5, <2>1, <2>2, <2>3, <2>4
         DEF IInv, Flow, Fresh, Accepted, Identifying, Building, Completed, EmptyWork,
             report, status
  <1>6. \/ pc' = "done" /\ result'.outcome # "Constructed"
        \/ pc' = "identify" /\ status = "valid" /\ UNCHANGED result
    <2>1. CASE Answer(status, report, EmptyWork, FALSE)
      <3>1. pc' = "done" /\ result'.outcome = status
        BY <2>1 DEF Answer
      <3> QED
        BY <1>1, <3>1
    <2>2. CASE status # "valid" /\ Answer(OutcomeOf[status], report, EmptyWork, FALSE)
      <3>1. pc' = "done" /\ result'.outcome = OutcomeOf[status]
        BY <2>2 DEF Answer
      <3>2. OutcomeOf[status] \in {"Rejected", "Unavailable", "Unresolved"}
        BY <1>1, <2>2 DEF OutcomeOf
      <3> QED
        BY <3>1, <3>2
    <2> QED
      BY <2>1, <2>2 DEF Validate, report, status
  <1> QED
    BY <1>4, <1>5, <1>6

LEMMA NamedStep ==
    ASSUME IInv, pc = "identify", at <= Len(Intents),
           NEW id, NEW disposition, SuppliedId(Intents[at]) \in {NONE, id},
           Establish(id, disposition), at' = at + 1, UNCHANGED <<request, pc, work, result>>
    PROVE  IInv'
  <1>1. at \in Nat \ {0} /\ at - 1 \in Nat /\ (at - 1) + 1 = at /\ (at + 1) - 1 = at
    BY DEF IInv, Flow
  <1>2. work.diags = {} => HeldFor(request, ids', at)
    <2>1. SUFFICES ASSUME work.diags = {} PROVE HeldFor(request, ids', at)
      OBVIOUS
    <2> DEFINE n == at - 1
               key == IntentsOf(request)[n + 1].key
               one == [x \in {key} |-> [id |-> id, disposition |-> disposition]]
    <2>2. HeldFor(request, ids, n)
      BY <2>1 DEF IInv, Identifying
    <2>3. ids' = one ++ ids
      BY <1>1 DEF Establish, Intents
    <2>4. n \in Nat /\ n + 1 = at
      BY <1>1
    <2>5. SuppliedId(IntentsOf(request)[n + 1]) \in {NONE, id}
      BY <1>1 DEF Intents
    <2> HIDE DEF n
    <2>6. DOMAIN one = {key} /\ one[key].id = id
      OBVIOUS
    <2> HIDE DEF one
    <2> QED
      BY <2>2, <2>3, <2>4, <2>5, <2>6, HeldMore
  <1>3. Len(Intents) \in Nat /\ Intents' = Intents
    BY IntentCount, IntentKept
  <1>4. ~Constructed'
    BY DEF IInv, Completed, Constructed
  <1> QED
    BY <1>1, <1>2, <1>3, <1>4
       DEF IInv, Flow, Fresh, Accepted, Identifying, Building, Completed

LEMMA KeepStep == IInv /\ KeepIdentity => IInv'
  <1> SUFFICES ASSUME IInv, KeepIdentity PROVE IInv'
    OBVIOUS
  <1> DEFINE id == SuppliedId(Intents[at])
  <1>1. SuppliedId(Intents[at]) \in {NONE, id}
    OBVIOUS
  <1>2. /\ pc = "identify" /\ at <= Len(Intents) /\ at' = at + 1
        /\ Establish(id, Disposition(at)) /\ UNCHANGED <<request, pc, work, result>>
    BY DEF KeepIdentity
  <1> QED
    BY <1>1, <1>2, NamedStep

LEMMA MintStep == IInv /\ MintIdentity => IInv'
  <1> SUFFICES ASSUME IInv, MintIdentity PROVE IInv'
    OBVIOUS
  <1>1. PICK id : Establish(id, "minted")
    BY DEF MintIdentity
  <1>2. /\ pc = "identify" /\ at <= Len(Intents) /\ at' = at + 1
        /\ SuppliedId(Intents[at]) \in {NONE, id} /\ UNCHANGED <<request, pc, work, result>>
    BY DEF MintIdentity
  <1> QED
    BY <1>1, <1>2, NamedStep

LEMMA MintFailsStep == IInv /\ MintFails => IInv'
  <1> SUFFICES ASSUME IInv, MintFails PROVE IInv'
    OBVIOUS
  <1> DEFINE d == Diagnostic("identity_unavailable", "unavailable", Intents[at].key)
  <1>1. /\ pc = "identify" /\ at <= Len(Intents) /\ at' = at + 1
        /\ UNCHANGED <<request, pc, ids, result>>
        /\ work' = [work EXCEPT !.diags = @ \cup {d}]
    BY DEF MintFails
  <1> HIDE DEF d
  <1>2. work' = [artifacts |-> work.artifacts, map |-> work.map, diags |-> work.diags \cup {d}]
    BY <1>1 DEF IInv, Flow
  <1>3. work'.diags # {} /\ work'.artifacts = work.artifacts /\ work'.map = work.map
    BY <1>2
  <1>4. Len(Intents) \in Nat /\ Intents' = Intents
    BY <1>1, IntentCount, IntentKept
  <1>5. ~Constructed'
    BY <1>1 DEF IInv, Completed, Constructed
  <1>6. work' = [artifacts |-> work'.artifacts, map |-> work'.map, diags |-> work'.diags]
    BY <1>2
  <1> QED
    BY <1>1, <1>3, <1>4, <1>5, <1>6
       DEF IInv, Flow, Fresh, Accepted, Identifying, Building, Completed

LEMMA IdentifiedStep == IInv /\ Identified => IInv'
  <1> SUFFICES ASSUME IInv, Identified PROVE IInv'
    OBVIOUS
  <1>1. /\ pc = "identify" /\ at > Len(Intents) /\ UNCHANGED <<request, ids, work>>
    BY DEF Identified
  <1>2. Len(Intents) \in Nat /\ Intents' = Intents
    BY <1>1, IntentCount, IntentKept
  <1>3. CASE pc' = "done" /\ result'.outcome # "Constructed" /\ at' = at
    BY <1>1, <1>2, <1>3 DEF IInv, Flow, Fresh, Accepted, Identifying, Building, Completed,
                            Constructed
  <1>4. CASE work.diags = {} /\ pc' = "build" /\ at' = 1 /\ UNCHANGED result
    <2>1. at - 1 = Len(Intents)
      BY <1>1, <1>2 DEF IInv, Flow, Identifying
    <2>2. HeldFor(request, ids, Len(Intents))
      BY <1>1, <1>4, <2>1 DEF IInv, Identifying
    <2>3. BuiltFor(request, ids, work.artifacts, work.map, 1 - 1)
      BY <1>1, BuiltNone DEF IInv, Identifying
    <2>4. ~Constructed'
      BY <1>1, <1>4 DEF IInv, Completed, Constructed
    <2> QED
      BY <1>1, <1>2, <1>4, <2>2, <2>3, <2>4
         DEF IInv, Flow, Fresh, Accepted, Identifying, Building, Completed
  <1> QED
    BY <1>3, <1>4 DEF Identified, Answer
LEMMA BuildStep == IInv /\ Build => IInv'
  <1> SUFFICES ASSUME IInv, Build PROVE IInv'
    OBVIOUS
  <1> DEFINE artifact == ArtifactOf(request, ids, at)
             entry == MapEntry(request, ids, at)
  <1>1. /\ pc = "build" /\ at <= Len(Intents) /\ at' = at + 1
        /\ UNCHANGED <<request, pc, ids, result>>
    BY DEF Build
  <1>2. Len(Intents) \in Nat /\ Intents' = Intents
    BY <1>1, IntentCount, IntentKept
  <1>3. ~Constructed'
    BY <1>1 DEF IInv, Completed, Constructed
  <1>4. CASE \E d : work' = [work EXCEPT !.diags = @ \cup {d}]
    <2>1. PICK d : work' = [work EXCEPT !.diags = @ \cup {d}]
      BY <1>4
    <2>2. work' = [artifacts |-> work.artifacts, map |-> work.map,
                   diags |-> work.diags \cup {d}]
      BY <2>1 DEF IInv, Flow
    <2>3. work'.diags # {}
      BY <2>2
    <2>4. work' = [artifacts |-> work'.artifacts, map |-> work'.map, diags |-> work'.diags]
      BY <2>2
    <2> QED
      BY <1>1, <1>2, <1>3, <2>3, <2>4
         DEF IInv, Flow, Fresh, Accepted, Identifying, Building, Completed
  <1>5. CASE /\ DecodeAndValidate(artifact).ok
             /\ work' = [work EXCEPT !.artifacts = Append(@, artifact), !.map = Append(@, entry)]
    <2> HIDE DEF artifact, entry
    <2>1. work' = [artifacts |-> Append(work.artifacts, artifact),
                   map |-> Append(work.map, entry), diags |-> work.diags]
      BY <1>5 DEF IInv, Flow
    <2>2. /\ work'.artifacts = Append(work.artifacts, artifact)
          /\ work'.map = Append(work.map, entry)
          /\ work'.diags = work.diags
          /\ work' = [artifacts |-> work'.artifacts, map |-> work'.map, diags |-> work'.diags]
      BY <2>1
    <2>3. work.diags = {} => BuiltFor(request, ids, work'.artifacts, work'.map, at)
      <3>1. SUFFICES ASSUME work.diags = {}
                     PROVE  BuiltFor(request, ids, work'.artifacts, work'.map, at)
        OBVIOUS
      <3> DEFINE n == at - 1
      <3>2. n \in Nat /\ n + 1 = at
        BY DEF IInv, Flow
      <3>3. BuiltFor(request, ids, work.artifacts, work.map, n)
        BY <1>1, <3>1 DEF IInv, Building
      <3>4. /\ artifact = ArtifactOf(request, ids, n + 1)
            /\ entry = MapEntry(request, ids, n + 1)
        BY <3>2 DEF artifact, entry
      <3> HIDE DEF n
      <3>5. BuiltFor(request, ids, Append(work.artifacts, artifact),
                     Append(work.map, entry), n + 1)
        BY <1>5, <3>2, <3>3, <3>4, BuiltMore
      <3> QED
        BY <2>2, <3>2, <3>5
    <2>4. at \in Nat \ {0} /\ (at + 1) - 1 = at
      BY DEF IInv, Flow
    <2> QED
      BY <1>1, <1>2, <1>3, <2>2, <2>3, <2>4
         DEF IInv, Flow, Fresh, Accepted, Identifying, Building, Completed
  <1>6. \/ \E d : work' = [work EXCEPT !.diags = @ \cup {d}]
        \/ /\ DecodeAndValidate(artifact).ok
           /\ work' = [work EXCEPT !.artifacts = Append(@, artifact), !.map = Append(@, entry)]
    BY Zenon DEF Build
  <1> QED
    BY <1>4, <1>5, <1>6

LEMMA SealStep == IInv /\ Seal => IInv'
  <1> SUFFICES ASSUME IInv, Seal PROVE IInv'
    OBVIOUS
  <1>1. pc = "build" /\ at > Len(Intents) /\ UNCHANGED <<request, at, ids, work>>
    BY DEF Seal
  <1>2. Len(Intents) \in Nat /\ Intents' = Intents
    BY <1>1, IntentCount, IntentKept
  <1>3. CASE pc' = "done" /\ result'.outcome # "Constructed"
    BY <1>1, <1>3 DEF IInv, Flow, Fresh, Accepted, Identifying, Building, Completed,
                      Constructed
  <1>4. CASE /\ work.diags = {} /\ SealsBasis(work.artifacts)
             /\ Answer("Constructed", {}, work, TRUE)
    <2>1. pc' = "done" /\ result'.artifacts = work.artifacts /\ result'.map = work.map
      BY <1>4 DEF Answer
    <2>2. at - 1 = Len(Intents)
      BY <1>1, <1>2 DEF IInv, Flow, Building
    <2>3. /\ HeldFor(request, ids, Len(Intents))
          /\ BuiltFor(request, ids, work.artifacts, work.map, Len(Intents))
          /\ StatusOf(Report(request)) = "valid"
      BY <1>1, <1>4, <2>2 DEF IInv, Building, Accepted
    <2> QED
      BY <1>1, <1>2, <1>4, <2>1, <2>3
         DEF IInv, Flow, Fresh, Accepted, Identifying, Building, Completed
  <1> QED
    BY <1>3, <1>4 DEF Seal, Answer

LEMMA AgainStep == IInv /\ Again => IInv'
  BY DEF IInv, Again, Flow, Fresh, Accepted, Identifying, Building, Completed, EmptyWork,
         NoResult, Constructed

LEMMA StutterStep == IInv /\ UNCHANGED vars => IInv'
  <1> SUFFICES ASSUME IInv, UNCHANGED vars PROVE IInv'
    OBVIOUS
  <1>1. UNCHANGED <<request, pc, at, ids, work, result>>
    BY DEF vars
  <1>2. Intents' = Intents
    BY <1>1, IntentKept
  <1> QED
    BY <1>1, <1>2 DEF IInv, Flow, Fresh, Accepted, Identifying, Building, Completed, Constructed

THEOREM Invariance == Spec => []IInv
  <1>1. IInv /\ [Next]_vars => IInv'
    BY ValidateStep, KeepStep, MintStep, MintFailsStep, IdentifiedStep, BuildStep, SealStep,
       AgainStep, StutterStep DEF Next
  <1> QED
    BY InitIInv, <1>1, PTL DEF Spec
-----------------------------------------------------------------------------
(***************************************************************************)
(* What is constructed.                                                    *)
(***************************************************************************)
LEMMA EntryFields ==
    ASSUME NEW r, NEW identities, NEW k
    PROVE  /\ MapEntry(r, identities, k).key = IntentsOf(r)[k].key
           /\ MapEntry(r, identities, k).id = identities[IntentsOf(r)[k].key].id
           /\ MapEntry(r, identities, k).references =
                 IF IsRelationship(r, k) THEN {}
                 ELSE ResolvedReferences(r, identities, IntentsOf(r)[k])
           /\ ArtifactOf(r, identities, k).key = IntentsOf(r)[k].key
           /\ ArtifactOf(r, identities, k).schema = SchemaOf(r, k)
           /\ ArtifactOf(r, identities, k).bytes =
                 Render(SourceOf(r, identities, k), SchemaOf(r, k))
  BY DEF MapEntry, ArtifactOf, SealArtifact

LEMMA KeysApart ==
    ASSUME NEW r, NEW identities, NEW artifacts, NEW entries, NEW n \in Nat,
           BuiltFor(r, identities, artifacts, entries, n), SealsBasis(artifacts),
           NEW p \in 1 .. n, NEW q \in 1 .. n, IntentsOf(r)[p].key = IntentsOf(r)[q].key
    PROVE  p = q
  <1>1. /\ DOMAIN artifacts = 1 .. n
        /\ artifacts[p] = ArtifactOf(r, identities, p)
        /\ artifacts[q] = ArtifactOf(r, identities, q)
    BY DEF BuiltFor
  <1>2. artifacts[p].key = artifacts[q].key
    BY <1>1, EntryFields
  <1> QED
    BY <1>1, <1>2 DEF SealsBasis

LEMMA DistinctKeysCount ==
    ASSUME NEW n \in Nat, NEW s, DOMAIN s = 1 .. n,
           \A p, q \in 1 .. n : s[p].key = s[q].key => p = q
    PROVE  Cardinality({e.key : e \in ItemsOf(s)}) = n
  <1> DEFINE T == {e.key : e \in ItemsOf(s)}
             h == [k \in 1 .. n |-> s[k].key]
  <1>1. T = {s[k].key : k \in 1 .. n}
    BY DEF ItemsOf
  <1>2. h \in Bijection(1 .. n, T)
    <2>1. h \in [1 .. n -> T]
      BY <1>1
    <2>2. \A a, b \in 1 .. n : h[a] = h[b] => a = b
      OBVIOUS
    <2>3. \A x \in T : \E a \in 1 .. n : h[a] = x
      BY <1>1
    <2> HIDE DEF h, T
    <2> QED
      BY <2>1, <2>2, <2>3 DEF Bijection, Injection, Surjection, IsInjective
  <1>3. ExistsBijection(1 .. n, T)
    BY <1>2 DEF ExistsBijection
  <1> HIDE DEF T
  <1>4. Cardinality(T) = n
    BY <1>3, FS_CountingElements
  <1> QED
    BY <1>4 DEF T

LEMMA HeldBySupply ==
    ASSUME IInv, Constructed, NEW k \in DOMAIN Intents
    PROVE  /\ Intents[k].key \in DOMAIN ids
           /\ SuppliedId(Intents[k]) \in {NONE, ids[Intents[k].key].id}
  <1> DEFINE n == Len(Intents)
  <1>1. n \in Nat /\ DOMAIN Intents = 1 .. n
    BY IntentCount
  <1>2. /\ HeldFor(request, ids, n)
        /\ BuiltFor(request, ids, result.artifacts, result.map, n)
        /\ SealsBasis(result.artifacts)
    BY DEF IInv, Completed
  <1> HIDE DEF n
  <1>3. PICK j \in 1 .. n :
           /\ Intents[j].key = Intents[k].key
           /\ SuppliedId(Intents[j]) \in {NONE, ids[Intents[k].key].id}
    BY <1>1, <1>2 DEF HeldFor, Intents
  <1>4. j = k
    BY <1>1, <1>2, <1>3, KeysApart DEF Intents
  <1>5. Intents[k].key \in DOMAIN ids
    BY <1>1, <1>2 DEF HeldFor, Intents
  <1> QED
    BY <1>3, <1>4, <1>5

LEMMA ConstructedSet ==
    ASSUME IInv, Constructed
    PROVE  /\ Len(Intents) \in Nat /\ DOMAIN Intents = 1 .. Len(Intents)
           /\ DOMAIN result.map = 1 .. Len(Intents)
           /\ DOMAIN result.artifacts = 1 .. Len(Intents)
           /\ Len(result.map) = Len(Intents) /\ Len(result.artifacts) = Len(Intents)
           /\ \A k \in 1 .. Len(Intents) :
                 /\ result.map[k] = MapEntry(request, ids, k)
                 /\ result.artifacts[k] = ArtifactOf(request, ids, k)
                 /\ DecodeAndValidate(ArtifactOf(request, ids, k)).ok
  <1> DEFINE n == Len(Intents)
  <1>1. n \in Nat /\ DOMAIN Intents = 1 .. n
    BY IntentCount
  <1>2. BuiltFor(request, ids, result.artifacts, result.map, n)
    BY DEF IInv, Completed
  <1> HIDE DEF n
  <1>3. /\ DOMAIN result.map = 1 .. n /\ DOMAIN result.artifacts = 1 .. n
        /\ \A k \in 1 .. n : /\ result.map[k] = MapEntry(request, ids, k)
                             /\ result.artifacts[k] = ArtifactOf(request, ids, k)
                             /\ DecodeAndValidate(ArtifactOf(request, ids, k)).ok
    BY <1>2 DEF BuiltFor
  <1>4. Len(result.map) = n /\ Len(result.artifacts) = n
    BY <1>1, <1>3
  <1> QED
    BY <1>1, <1>3, <1>4 DEF n

LEMMA WholeIfBuilt == IInv => ConstructedWhole
  <1> SUFFICES ASSUME IInv, Constructed PROVE ConstructedWhole
    BY DEF ConstructedWhole
  <1> DEFINE n == Len(Intents)
  <1>1. /\ n \in Nat /\ DOMAIN Intents = 1 .. n
        /\ DOMAIN result.map = 1 .. n /\ DOMAIN result.artifacts = 1 .. n
        /\ Len(result.map) = n /\ Len(result.artifacts) = n
        /\ \A k \in 1 .. n : /\ result.map[k] = MapEntry(request, ids, k)
                             /\ result.artifacts[k] = ArtifactOf(request, ids, k)
    BY ConstructedSet
  <1>2. /\ BuiltFor(request, ids, result.artifacts, result.map, n)
        /\ SealsBasis(result.artifacts)
    BY DEF IInv, Completed
  <1>3. ASSUME NEW k \in 1 .. n
        PROVE  SuppliedId(Intents[k]) \in {NONE, ids[Intents[k].key].id}
    BY <1>1, HeldBySupply
  <1> HIDE DEF n
  <1>4. \A k \in 1 .. n : /\ result.map[k].key = Intents[k].key
                          /\ result.map[k].id = ids[Intents[k].key].id
                          /\ result.artifacts[k].key = Intents[k].key
    BY <1>1, EntryFields DEF Intents
  <1>5. \A p, q \in 1 .. n : result.map[p].key = result.map[q].key => p = q
    BY <1>1, <1>2, <1>4, KeysApart DEF Intents
  <1>6. Cardinality({e.key : e \in ItemsOf(result.map)}) = n
    BY <1>1, <1>5, DistinctKeysCount
  <1> QED
    BY <1>1, <1>3, <1>4, <1>6 DEF ConstructedWhole, n

(* A constructed set is whole, for all requests, schemas and codecs: no    *)
(* path of construct_authoring_set answers Constructed with an intent left *)
(* out, doubled, out of order, or stripped of the identity it came with.   *)
THEOREM ConstructsTheWhole == Spec => []ConstructedWhole
  BY Invariance, WholeIfBuilt, PTL

LEMMA FragmentAt ==
    ASSUME IInv, NEW k \in Fragments
    PROVE  /\ k \in DOMAIN Intents /\ ~IsRelationship(request, k)
           /\ Intents[k] \in ItemsOf(request.fragments)
  <1>1. k \in DOMAIN Intents /\ ~IsRelationship(request, k)
    BY DEF Fragments
  <1>2. request \in Requests
    BY DEF IInv, Flow
  <1>3. Intents[k] = request.fragments[k]
    BY <1>1, <1>2, IntentsAt DEF Intents
  <1>4. k \in DOMAIN request.fragments
    BY <1>1, <1>2, IntentsAt DEF Intents, IsRelationship
  <1> QED
    BY <1>1, <1>3, <1>4 DEF ItemsOf

LEMMA RequestTarget ==
    ASSUME IInv, NEW target, Keyed(request, target) # {}
    PROVE  \E j \in Fragments : Intents[j].key = target
  <1>1. request \in Requests
    BY DEF IInv, Flow
  <1>2. PICK j \in DOMAIN request.fragments : request.fragments[j].key = target
    BY DEF Keyed
  <1>3. /\ j \in DOMAIN Intents /\ ~IsRelationship(request, j)
        /\ Intents[j] = request.fragments[j]
    <2> DEFINE a == Len(request.fragments)
               b == Len(request.relationships)
    <2>1. j \in 1 .. a /\ a \in Nat /\ b \in Nat /\ DOMAIN IntentsOf(request) = 1 .. a + b
      BY <1>1, <1>2, IntentSpans
    <2>2. j \in DOMAIN IntentsOf(request)
      <3> HIDE DEF a, b
      <3> QED
        BY <2>1
    <2>3. ~IsRelationship(request, j)
      BY <2>1 DEF IsRelationship
    <2>4. IntentsOf(request)[j] = request.fragments[j]
      BY <1>1, <2>2, <2>3, IntentsAt
    <2> QED
      BY <2>2, <2>3, <2>4 DEF Intents
  <1> QED
    BY <1>2, <1>3 DEF Fragments
LEMMA UpdateBacked ==
    ASSUME IInv, Constructed, NEW k \in Fragments, Intents[k].op = "update"
    PROVE  \E x \in ItemsOf(request.basis.existing) :
               <<x.id, x.type, x.qual, x.intact>> =
                   <<result.map[k].id, Intents[k].type, Intents[k].qual, TRUE>>
  <1> DEFINE f == Intents[k]
  <1>1. /\ k \in DOMAIN Intents /\ f \in ItemsOf(request.fragments)
        /\ StatusOf(Report(request)) = "valid"
    BY FragmentAt DEF IInv, Accepted
  <1>2. result.map[k].id = ids[f.key].id
    <2>1. k \in 1 .. Len(Intents) /\ result.map[k] = MapEntry(request, ids, k)
      BY <1>1, ConstructedSet
    <2> QED
      BY <2>1, EntryFields DEF Intents
  <1>3. SuppliedId(f) \in {NONE, ids[f.key].id}
    BY <1>1, HeldBySupply
  <1> HIDE DEF f
  <1>4. f.op = "update"
    BY DEF f
  <1>5. Supplies(f, "id") /\ ExistingMatches(request.basis, f) /\ IdentityValid(f)
    BY <1>1, <1>4, ValidUpdate, ValidIdentity
  <1>6. IdOf(f) # "bad" /\ IdOf(f) # NONE /\ SuppliedId(f) = IdOf(f)
    BY <1>5, NoneAssumption DEF ExistingMatches, IdentityValid, IdOf, Supplies, SuppliedId
  <1>7. PICK x \in ItemsOf(request.basis.existing) :
           x.id = IdOf(f) /\ x.type = f.type /\ x.qual = f.qual /\ x.intact
    BY <1>5 DEF ExistingMatches
  <1>8. x.id = result.map[k].id
    BY <1>2, <1>3, <1>6, <1>7
  <1> QED
    BY <1>7, <1>8 DEF f

LEMMA ReferencesBacked ==
    ASSUME IInv, Constructed, NEW k \in Fragments
    PROVE  {x.target : x \in ItemsOf(Intents[k].refs)} = {y[1] : y \in result.map[k].references}
  <1> DEFINE f == Intents[k]
             entries == request.basis.references
             Known(x) == Has(entries, LAMBDA e : e.ref = x.target)
             Entry(x) == entries[First(entries, LAMBDA e : e.ref = x.target)]
             own == {x \in ItemsOf(f.refs) : x.kind = "request" /\ x.target \in DOMAIN ids}
             known == {x \in ItemsOf(f.refs) : x.kind # "request" /\ Known(x)}
  <1>1. /\ k \in DOMAIN Intents /\ ~IsRelationship(request, k)
        /\ f \in ItemsOf(request.fragments) /\ StatusOf(Report(request)) = "valid"
    BY FragmentAt DEF IInv, Accepted
  <1>2. result.map[k].references = ResolvedReferences(request, ids, f)
    <2>1. k \in 1 .. Len(Intents) /\ result.map[k] = MapEntry(request, ids, k)
      BY <1>1, ConstructedSet
    <2> QED
      BY <1>1, <2>1, EntryFields DEF Intents
  <1>3. ResolvedReferences(request, ids, f) =
            {<<x.target, ids[x.target].id>> : x \in own} \cup {<<x.target, Entry(x).id>> : x \in known}
    BY Zenon DEF ResolvedReferences
  <1>4. ASSUME NEW x \in ItemsOf(f.refs) PROVE x \in own \cup known
    <2>1. Targets(request, x.kind, x.target) # {}
      BY <1>1, ValidReference
    <2>2. CASE x.kind = "request"
      <3>1. Keyed(request, x.target) # {}
        BY <2>1, <2>2 DEF Targets
      <3>2. PICK j \in Fragments : Intents[j].key = x.target
        BY <3>1, RequestTarget
      <3>3. x.target \in DOMAIN ids
        BY <3>2, HeldBySupply DEF Fragments
      <3> QED
        BY <2>2, <3>3
    <2>3. CASE x.kind # "request"
      <3>1. EntryNamed(request.basis, x.target) # {}
        BY <2>1, <2>3 DEF Targets
      <3>2. \E p \in DOMAIN entries : entries[p].ref = x.target
        BY <3>1 DEF EntryNamed, Has
      <3>3. Known(x)
        BY <3>2 DEF Has
      <3> QED
        BY <2>3, <3>3
    <2> QED
      BY <2>2, <2>3
  <1>5. own \subseteq ItemsOf(f.refs) /\ known \subseteq ItemsOf(f.refs)
    OBVIOUS
  <1> HIDE DEF f, own, known, Entry, Known
  <1>6. \A x \in own : \E y \in result.map[k].references : y[1] = x.target
    <2>1. SUFFICES ASSUME NEW x \in own
                   PROVE  \E y \in result.map[k].references : y[1] = x.target
      OBVIOUS
    <2>2. <<x.target, ids[x.target].id>> \in result.map[k].references
      BY <1>2, <1>3
    <2> QED
      BY <2>2
  <1>7. \A x \in known : \E y \in result.map[k].references : y[1] = x.target
    <2>1. SUFFICES ASSUME NEW x \in known
                   PROVE  \E y \in result.map[k].references : y[1] = x.target
      OBVIOUS
    <2>2. <<x.target, Entry(x).id>> \in result.map[k].references
      BY <1>2, <1>3
    <2> QED
      BY <2>2
  <1>8. \A y \in result.map[k].references : \E x \in own \cup known : y[1] = x.target
    BY <1>2, <1>3
  <1> HIDE DEF f
  <1>9. {x.target : x \in ItemsOf(f.refs)} = {y[1] : y \in result.map[k].references}
    BY <1>4, <1>5, <1>6, <1>7, <1>8
  <1> QED
    BY <1>9 DEF f

LEMMA BackedIfBuilt == IInv => AuthorityBacked
  <1> SUFFICES ASSUME IInv, Constructed, NEW k \in Fragments
               PROVE  /\ Intents[k].op = "update" =>
                             \E x \in ItemsOf(request.basis.existing) :
                                 <<x.id, x.type, x.qual, x.intact>> =
                                     <<result.map[k].id, Intents[k].type, Intents[k].qual, TRUE>>
                      /\ {x.target : x \in ItemsOf(Intents[k].refs)} =
                             {y[1] : y \in result.map[k].references}
                      /\ IsCustom(Intents[k].type) =>
                             Defined(request.basis, Intents[k].type, Intents[k].qual)
    BY Zenon DEF AuthorityBacked
  <1>1. Intents[k] \in ItemsOf(request.fragments) /\ StatusOf(Report(request)) = "valid"
    BY FragmentAt DEF IInv, Accepted
  <1>2. IsCustom(Intents[k].type) => Defined(request.basis, Intents[k].type, Intents[k].qual)
    BY <1>1, ValidCustom
  <1> QED
    BY <1>2, UpdateBacked, ReferencesBacked

(* What is constructed rests on the sealed basis, for all requests, bases  *)
(* and registries: validation's verdict carries over to the construction   *)
(* map, which resolves the same references on its own.                     *)
THEOREM ConstructsOnAuthority == Spec => []AuthorityBacked
  BY Invariance, BackedIfBuilt, PTL
-----------------------------------------------------------------------------
(***************************************************************************)
(* What the construction asks of the codec and of the schemas: a source    *)
(* that is accepted when it is read back is the source that was rendered,  *)
(* and the schema of a relationship accepts no empty end.                  *)
(***************************************************************************)
KeptAt(r, identities, k) ==
    Decode(ArtifactOf(r, identities, k).bytes).value = SourceOf(r, identities, k)

EndsStated(r, identities, k) ==
    IsRelationship(r, k) => /\ EndpointId(identities, IntentsOf(r)[k].from) # ""
                            /\ EndpointId(identities, IntentsOf(r)[k].to) # ""

CodecHolds ==
    /\ pc = "build" /\ at \in DOMAIN Intents
    /\ DecodeAndValidate(ArtifactOf(request, ids, at)).ok
    => KeptAt(request, ids, at) /\ EndsStated(request, ids, at)

Carried ==
    /\ pc = "build" /\ work.diags = {} =>
          \A k \in 1 .. at - 1 : KeptAt(request, ids, k) /\ EndsStated(request, ids, k)
    /\ Constructed =>
          \A k \in 1 .. Len(Intents) : KeptAt(request, ids, k) /\ EndsStated(request, ids, k)

LEMMA CarriedFirst == Init => Carried
  BY DEF Init, Carried, Constructed, NoResult

LEMMA CarriedBuild == IInv /\ CodecHolds /\ Carried /\ Build => Carried'
  <1> SUFFICES ASSUME IInv, CodecHolds, Carried, Build PROVE Carried'
    OBVIOUS
  <1>1. /\ pc = "build" /\ at <= Len(Intents) /\ at' = at + 1
        /\ UNCHANGED <<request, pc, ids, result>>
    BY DEF Build
  <1>2. ~Constructed'
    BY <1>1 DEF IInv, Completed, Constructed
  <1>3. at \in DOMAIN Intents /\ at \in Nat \ {0}
    BY <1>1, IntentCount DEF IInv, Flow
  <1>4. work'.diags = {} => work.diags = {} /\ DecodeAndValidate(ArtifactOf(request, ids, at)).ok
    <2>1. \/ \E d : work' = [work EXCEPT !.diags = @ \cup {d}]
          \/ /\ DecodeAndValidate(ArtifactOf(request, ids, at)).ok
             /\ work' = [work EXCEPT !.artifacts = Append(@, ArtifactOf(request, ids, at)),
                                     !.map = Append(@, MapEntry(request, ids, at))]
      BY Zenon DEF Build
    <2>2. ASSUME NEW d, work' = [work EXCEPT !.diags = @ \cup {d}] PROVE work'.diags # {}
      <3>1. work' = [artifacts |-> work.artifacts, map |-> work.map,
                     diags |-> work.diags \cup {d}]
        BY <2>2 DEF IInv, Flow
      <3> QED
        BY <3>1
    <2>3. ASSUME NEW a, NEW e,
                 work' = [work EXCEPT !.artifacts = Append(@, a), !.map = Append(@, e)]
          PROVE  work'.diags = work.diags
      <3>1. work' = [artifacts |-> Append(work.artifacts, a), map |-> Append(work.map, e),
                     diags |-> work.diags]
        BY <2>3 DEF IInv, Flow
      <3> QED
        BY <3>1
    <2> QED
      BY <2>1, <2>2, <2>3
  <1>5. work'.diags = {} =>
            \A k \in 1 .. at : KeptAt(request, ids, k) /\ EndsStated(request, ids, k)
    <2>1. SUFFICES ASSUME work'.diags = {}, NEW k \in 1 .. at
                   PROVE  KeptAt(request, ids, k) /\ EndsStated(request, ids, k)
      OBVIOUS
    <2>2. CASE k = at
      BY <1>1, <1>3, <1>4, <2>1, <2>2 DEF CodecHolds
    <2>3. CASE k # at
      BY <1>1, <1>3, <1>4, <2>1, <2>3 DEF Carried
    <2> QED
      BY <2>2, <2>3
  <1>6. (at + 1) - 1 = at
    BY <1>3
  <1> QED
    BY <1>1, <1>2, <1>5, <1>6 DEF Carried

LEMMA CarriedSeal == IInv /\ Carried /\ Seal => Carried'
  <1> SUFFICES ASSUME IInv, Carried, Seal PROVE Carried'
    OBVIOUS
  <1>1. pc = "build" /\ at > Len(Intents) /\ UNCHANGED <<request, at, ids, work>>
    BY DEF Seal
  <1>2. Len(Intents) \in Nat /\ Intents' = Intents
    BY <1>1, IntentCount, IntentKept
  <1>3. at - 1 = Len(Intents)
    BY <1>1, <1>2 DEF IInv, Flow, Building
  <1>4. pc' = "done"
    BY DEF Seal, Answer
  <1>5. Constructed' => work.diags = {}
    BY DEF Seal, Answer, Constructed
  <1> QED
    BY <1>1, <1>2, <1>3, <1>4, <1>5 DEF Carried

LEMMA CarriedOthers ==
    IInv /\ Carried /\ (Validate \/ KeepIdentity \/ MintIdentity \/ MintFails
                           \/ Identified \/ Again) => Carried'
  <1> SUFFICES ASSUME IInv, Validate \/ KeepIdentity \/ MintIdentity \/ MintFails
                                \/ Identified \/ Again
               PROVE  Carried'
    OBVIOUS
  <1>1. ~Constructed'
    <2>1. CASE Validate
      <3>1. ~Constructed
        BY <2>1 DEF Validate, IInv, Completed
      <3>2. StatusOf(Report(request)) \in {"invalid", "unavailable", "unresolved", "valid"}
        BY DEF StatusOf
      <3> DEFINE status == StatusOf(Report(request))
      <3>3. \/ result' = result
            \/ result'.outcome = status
            \/ status # "valid" /\ result'.outcome = OutcomeOf[status]
        BY <2>1 DEF Validate, Answer
      <3> HIDE DEF status
      <3>4. status # "valid" => OutcomeOf[status] # "Constructed"
        BY <3>2 DEF OutcomeOf, status
      <3> QED
        BY <3>1, <3>2, <3>3, <3>4 DEF Constructed, status
    <2>2. CASE KeepIdentity \/ MintIdentity \/ MintFails
      BY <2>2 DEF KeepIdentity, MintIdentity, MintFails, IInv, Completed, Constructed
    <2>3. CASE Identified
      BY <2>3 DEF Identified, Answer, IInv, Completed, Constructed
    <2>4. CASE Again
      BY <2>4 DEF Again, NoResult, Constructed
    <2> QED
      BY <2>1, <2>2, <2>3, <2>4
  <1>2. pc' = "build" => at' = 1
    BY DEF Validate, KeepIdentity, MintIdentity, MintFails, Identified, Again, Answer
  <1> QED
    BY <1>1, <1>2 DEF Carried

LEMMA CarriedStutter == Carried /\ UNCHANGED vars => Carried'
  <1> SUFFICES ASSUME Carried, UNCHANGED vars PROVE Carried'
    OBVIOUS
  <1>1. UNCHANGED <<request, pc, at, ids, work, result>> /\ Intents' = Intents
    BY IntentKept DEF vars
  <1> QED
    BY <1>1 DEF Carried, Constructed

LEMMA CarriedAlways == Spec /\ []CodecHolds => []Carried
  <1>1. IInv /\ CodecHolds /\ Carried /\ [Next]_vars => Carried'
    BY CarriedBuild, CarriedSeal, CarriedOthers, CarriedStutter DEF Next
  <1> QED
    BY CarriedFirst, <1>1, Invariance, PTL DEF Spec

LEMMA EndWritten ==
    ASSUME IInv, Constructed, NEW end, Targets(request, end.kind, end.target) # {},
           EndpointId(ids, end) # ""
    PROVE  WrittenInTheSet(end, EndpointId(ids, end))
  <1>1. ASSUME NEW j \in DOMAIN Intents, Intents[j].key = end.target
        PROVE  result.map[j].id = EndpointId(ids, end)
    <2>1. j \in 1 .. Len(Intents) /\ result.map[j] = MapEntry(request, ids, j)
      BY ConstructedSet
    <2>2. result.map[j].id = ids[end.target].id
      <3>1. MapEntry(request, ids, j).id = ids[IntentsOf(request)[j].key].id
        BY DEF MapEntry
      <3> QED
        BY <1>1, <2>1, <3>1 DEF Intents
    <2>3. end.target \in DOMAIN ids
      BY <1>1, HeldBySupply
    <2> QED
      BY <2>2, <2>3 DEF EndpointId
  <1>2. CASE end.kind = "request"
    <2>1. Keyed(request, end.target) # {}
      BY <1>2 DEF Targets
    <2>2. PICK j \in Fragments : Intents[j].key = end.target
      BY <2>1, RequestTarget
    <2>3. j \in DOMAIN Intents
      BY DEF Fragments
    <2> QED
      BY <1>1, <2>2, <2>3 DEF WrittenInTheSet
  <1>3. CASE end.kind # "request"
    <2>1. end.target \in DOMAIN ids
      BY DEF EndpointId
    <2>2. PICK j \in 1 .. Len(Intents) : Intents[j].key = end.target
      <3>1. HeldFor(request, ids, Len(Intents))
        BY DEF IInv, Completed
      <3>2. DOMAIN ids = {Intents[j].key : j \in 1 .. Len(Intents)}
        BY <3>1 DEF HeldFor, Intents
      <3> QED
        BY <2>1, <3>2
    <2>3. j \in DOMAIN Intents
      BY ConstructedSet
    <2> QED
      BY <1>1, <1>3, <2>2, <2>3 DEF WrittenInTheSet
  <1> QED
    BY <1>2, <1>3

LEMMA EndsIfCarried == IInv /\ Carried => EndsInTheSet
  <1> SUFFICES ASSUME IInv, Carried, Constructed, NEW k \in DOMAIN Intents \ Fragments
               PROVE  /\ WrittenInTheSet(Intents[k].from, Decoded(k)["from_entity_id"].v)
                      /\ WrittenInTheSet(Intents[k].to, Decoded(k)["to_entity_id"].v)
    BY DEF EndsInTheSet
  <1> DEFINE x == Intents[k]
  <1>1. /\ k \in 1 .. Len(Intents) /\ IsRelationship(request, k)
        /\ result.artifacts[k] = ArtifactOf(request, ids, k)
    BY ConstructedSet DEF Fragments
  <1>2. KeptAt(request, ids, k) /\ EndsStated(request, ids, k)
    BY <1>1 DEF Carried
  <1>3. Decode(result.artifacts[k].bytes).value = RelationshipSource(ids, x)
    BY <1>1, <1>2 DEF KeptAt, SourceOf, Intents
  <1>4. /\ Decoded(k)["from_entity_id"].v = EndpointId(ids, x.from)
        /\ Decoded(k)["to_entity_id"].v = EndpointId(ids, x.to)
    BY <1>3 DEF Decoded, RelationshipSource, Map, Scalar
  <1>5. \E p \in DOMAIN request.relationships : x = request.relationships[p]
    <2>1. request \in Requests
      BY DEF IInv, Flow
    <2> DEFINE a == Len(request.fragments)
               b == Len(request.relationships)
    <2>2. /\ a \in Nat /\ b \in Nat /\ DOMAIN request.relationships = 1 .. b
          /\ DOMAIN IntentsOf(request) = 1 .. a + b
      BY <2>1, IntentSpans
    <2>3. x = request.relationships[k - a]
      BY <1>1, <2>1, IntentsAt DEF Intents
    <2>4. k \in 1 .. a + b /\ k > a
      BY <1>1, <2>2 DEF IsRelationship, Intents
    <2> HIDE DEF a, b, x
    <2>5. k - a \in 1 .. b
      BY <2>2, <2>4
    <2> QED
      BY <2>2, <2>3, <2>5
  <1>6. Resolved(request, x)
    BY <1>5, ValidEnds DEF IInv, Accepted
  <1>7. /\ Targets(request, x.from.kind, x.from.target) # {}
        /\ Targets(request, x.to.kind, x.to.target) # {}
    BY <1>6 DEF Resolved, EndType
  <1>8. EndpointId(ids, x.from) # "" /\ EndpointId(ids, x.to) # ""
    BY <1>1, <1>2 DEF EndsStated, Intents
  <1> QED
    BY <1>4, <1>7, <1>8, EndWritten

(* If the codec keeps what it accepts, the relationships of a constructed  *)
(* set end in identities of the set, for all requests: endpoint_id's lookup *)
(* finds an intent for every end that the validation resolved.             *)
THEOREM ConstructsItsEnds == Spec /\ []CodecHolds => []EndsInTheSet
  BY Invariance, CarriedAlways, EndsIfCarried, PTL

LEMMA AliasedFields ==
    ASSUME NEW fields, NEW type, NEW id
    PROVE  LET source == CeremonyAlias([id |-> Scalar(id)] ++ fields, type)
           IN  /\ source["id"] = Scalar(id)
               /\ {"id"} \cup DOMAIN fields \subseteq DOMAIN source
               /\ \A n \in DOMAIN fields \ {"id", "alias_id"} : source[n] = fields[n]
  <1> DEFINE own == [id |-> Scalar(id)] ++ fields
             alias == [alias_id |-> Scalar(Alias(own, type))]
             name == [alias_name |-> Scalar("good")]
  <1>1. /\ DOMAIN own = {"id"} \cup DOMAIN fields /\ own["id"] = Scalar(id)
        /\ \A n \in DOMAIN fields \ {"id"} : own[n] = fields[n]
    BY DEF ++
  <1>2. DOMAIN alias = {"alias_id"}
    OBVIOUS
  <1> HIDE DEF own, alias, name
  <1>3. /\ DOMAIN own \subseteq DOMAIN (alias ++ own)
        /\ \A n \in DOMAIN own \ {"alias_id"} : (alias ++ own)[n] = own[n]
    BY <1>2 DEF ++
  <1> DEFINE layered == alias ++ own
  <1> HIDE DEF layered
  <1>4. /\ DOMAIN layered \subseteq DOMAIN (layered ++ name)
        /\ \A n \in DOMAIN layered : (layered ++ name)[n] = layered[n]
    BY DEF ++
  <1>5. CeremonyAlias(own, type) = layered ++ name
    BY DEF CeremonyAlias, layered, alias, name
  <1> QED
    BY <1>1, <1>3, <1>4, <1>5 DEF layered, own

LEMMA EnrichedTopology ==
    ASSUME NEW topology
    PROVE  KeptField("adr/physical-system", "component_topology", topology,
                     EnrichTopology(topology))
  <1>1. CASE ~HasComponents(topology)
    BY <1>1 DEF EnrichTopology, KeptField
  <1>2. CASE HasComponents(topology)
    <2> DEFINE given == topology.f["components"].items
               enriched == [k \in DOMAIN given |-> EnrichComponent(given[k])]
               one == [components |-> List(enriched)]
               found == Map(one ++ topology.f)
    <2>1. EnrichTopology(topology) = found
      BY <1>2 DEF EnrichTopology
    <2>2. DOMAIN one = {"components"} /\ one["components"] = List(enriched)
      OBVIOUS
    <2>3. \A k \in DOMAIN given :
             \/ enriched[k] = given[k]
             \/ /\ DOMAIN enriched[k].f = DOMAIN given[k].f \cup {"purpose"}
                /\ \A n \in DOMAIN given[k].f : enriched[k].f[n] = given[k].f[n]
      BY DEF EnrichComponent, Map, ++
    <2>4. DOMAIN enriched = DOMAIN given
      OBVIOUS
    <2> HIDE DEF one, enriched
    <2>5. /\ found.t = "map"
          /\ DOMAIN found.f = DOMAIN topology.f
          /\ found.f["components"] = List(enriched)
          /\ \A n \in DOMAIN topology.f \ {"components"} : found.f[n] = topology.f[n]
      BY <1>2, <2>2 DEF HasComponents, Map, ++
    <2>6. found.f["components"].t = "list" /\ found.f["components"].items = enriched
      BY <2>5 DEF List
    <2> HIDE DEF found
    <2>7. HasComponents(found)
      BY <1>2, <2>5, <2>6 DEF HasComponents
    <2>8. PurposesAdded(topology, found)
      BY <1>2, <2>3, <2>4, <2>5, <2>6, <2>7 DEF PurposesAdded
    <2> QED
      BY <2>1, <2>8 DEF KeptField
  <1> QED
    BY <1>1, <1>2

LEMMA FragmentFields ==
    ASSUME NEW r, NEW identities, NEW f
    PROVE  LET source == FragmentSource(r, identities, f)
           IN  /\ source = Map(source.f)
               /\ source.f["id"] = Scalar(identities[f.key].id)
               /\ \A n \in DOMAIN f.fields \ (Ceremony(f.type) \cup {"id"}) :
                     KeptField(f.type, n, f.fields[n], source.f[n])
  <1> DEFINE id == identities[f.key].id
             type == f.type
             source == CeremonyAlias([id |-> Scalar(id)] ++ f.fields, type)
             kept == DOMAIN f.fields \ (Ceremony(type) \cup {"id"})
             Keeps(s) == s["id"] = Scalar(id) /\ \A n \in kept : s[n] = f.fields[n]
             Fits(s) == /\ s["id"] = Scalar(id)
                        /\ \A n \in kept : KeptField(type, n, f.fields[n], s[n])
             written == CASE IsCustom(type) -> CustomSource(source)
                          [] KindOf[type] = "adr" -> AdrSource(r, identities, f, source)
                          [] OTHER -> source
  <1>1. "alias_id" \notin kept /\ kept \subseteq DOMAIN f.fields
    BY DEF Ceremony
  <1>2. Keeps(source) /\ {"id"} \cup kept \subseteq DOMAIN source
    BY <1>1, AliasedFields
  <1>3. FragmentSource(r, identities, f) = Map(written)
    BY Zenon DEF FragmentSource
  <1>4. /\ IsCustom(type) => written = CustomSource(source)
        /\ KindOf[type] = "adr" => written = AdrSource(r, identities, f, source)
        /\ ~IsCustom(type) /\ KindOf[type] # "adr" => written = source
    <2> HIDE DEF source
    <2> QED
      BY DEF IsCustom
  <1> HIDE DEF source, written
  <1>5. ASSUME NEW names, NEW given, DOMAIN given = names, names \cap ({"id"} \cup kept) = {},
               NEW s, Keeps(s), {"id"} \cup kept \subseteq DOMAIN s
        PROVE  Keeps(given ++ s) /\ {"id"} \cup kept \subseteq DOMAIN (given ++ s)
    BY <1>5 DEF ++
  <1>6. ASSUME IsCustom(type) PROVE Keeps(written)
    <2> DEFINE given == [entity_type |-> Scalar("good"), qualification |-> Scalar("good")]
               rest == [properties |-> Map(<<>>), rationale |-> Scalar("good")]
               s == given ++ source
    <2>1. DOMAIN given = {"entity_type", "qualification"}
      OBVIOUS
    <2>2. {"entity_type", "qualification"} \cap ({"id"} \cup kept) = {}
      BY <1>6 DEF Ceremony
    <2>3. written = s ++ rest
      BY <1>4, <1>6 DEF CustomSource
    <2> HIDE DEF given, rest, kept
    <2>4. Keeps(s) /\ {"id"} \cup kept \subseteq DOMAIN s
      BY <1>2, <1>5, <2>1, <2>2
    <2> HIDE DEF s
    <2>5. Keeps(s ++ rest)
      BY <2>4 DEF ++
    <2> QED
      BY <2>3, <2>5
  <1>7. ASSUME NEW s, Keeps(s) PROVE Fits(s)
    BY <1>7 DEF KeptField
  <1>8. ASSUME KindOf[type] = "adr" PROVE Fits(written)
    <2> DEFINE given == [schema_version |-> Scalar("good")]
               s == given ++ source
    <2>1. DOMAIN given = {"schema_version"}
      OBVIOUS
    <2>2. {"schema_version"} \cap ({"id"} \cup kept) = {}
      BY <1>8 DEF Ceremony
    <2> HIDE DEF given, kept
    <2>3. Keeps(s) /\ {"id"} \cup kept \subseteq DOMAIN s
      BY <1>2, <1>5, <2>1, <2>2
    <2>4. written = CASE type = "adr/logical" -> LogicalSource(r, identities, f.key, s)
                      [] type = "adr/physical-system" -> SystemSource(s)
                      [] OTHER -> s
      BY <1>4, <1>8 DEF AdrSource, given
    <2> HIDE DEF s
    <2>5. CASE type = "adr/logical"
      <3> DEFINE composed == [decisions |-> Children(r, identities, f.key)]
      <3>1. DOMAIN composed = {"decisions"} /\ {"decisions"} \cap ({"id"} \cup kept) = {}
        BY <2>5 DEF Ceremony, kept
      <3>2. written = s \/ written = composed ++ s
        BY <2>4, <2>5 DEF LogicalSource
      <3> HIDE DEF composed
      <3>3. Keeps(composed ++ s)
        BY <1>5, <2>3, <3>1
      <3> QED
        BY <2>3, <3>2, <3>3, <1>7
    <2>6. CASE type = "adr/physical-system"
      <3> DEFINE system == Map([id |-> s["id"], alias_id |-> Scalar("good"),
                                alias_name |-> s["alias_name"]])
                 own == [implements_logical |-> List(<<s["id"]>>), system |-> system]
                 topology == [n \in DOMAIN s \cap {"component_topology"} |->
                                 EnrichTopology(s[n])]
      <3>1. /\ DOMAIN own = {"implements_logical", "system"}
            /\ {"implements_logical", "system"} \cap ({"id"} \cup kept) = {}
        BY <2>6 DEF Ceremony, kept
      <3>2. written = own ++ topology ++ s
        BY <2>4, <2>6 DEF SystemSource
      <3>3. /\ DOMAIN topology = DOMAIN s \cap {"component_topology"}
            /\ \A n \in DOMAIN topology : topology[n] = EnrichTopology(s[n])
        OBVIOUS
      <3> HIDE DEF own, topology
      <3> DEFINE front == own ++ topology
      <3>4. /\ DOMAIN front = DOMAIN own \cup DOMAIN topology
            /\ \A n \in DOMAIN topology \ DOMAIN own : front[n] = topology[n]
        BY DEF ++
      <3> HIDE DEF front
      <3>5. /\ \A n \in DOMAIN front : (front ++ s)[n] = front[n]
            /\ \A n \in DOMAIN s \ DOMAIN front : (front ++ s)[n] = s[n]
        BY DEF ++
      <3>6. written = front ++ s
        BY <3>2 DEF front
      <3>7. written["id"] = Scalar(id)
        BY <2>3, <3>1, <3>3, <3>4, <3>5, <3>6
      <3>8. ASSUME NEW n \in kept PROVE KeptField(type, n, f.fields[n], written[n])
        <4>1. n \in DOMAIN s /\ s[n] = f.fields[n] /\ n \notin DOMAIN own
          BY <2>3, <3>1
        <4>2. CASE n = "component_topology"
          <5>1. written[n] = EnrichTopology(f.fields[n])
            BY <3>3, <3>4, <3>5, <3>6, <4>1, <4>2
          <5> QED
            BY <2>6, <4>2, <5>1, EnrichedTopology
        <4>3. CASE n # "component_topology"
          <5>1. written[n] = f.fields[n]
            BY <3>3, <3>4, <3>5, <3>6, <4>1, <4>3
          <5> QED
            BY <5>1 DEF KeptField
        <4> QED
          BY <4>2, <4>3
      <3> QED
        BY <3>7, <3>8
    <2>7. CASE type \notin {"adr/logical", "adr/physical-system"}
      BY <2>3, <2>4, <2>7, <1>7
    <2> QED
      BY <2>5, <2>6, <2>7
  <1>9. Fits(written)
    BY <1>2, <1>4, <1>6, <1>8, <1>7
  <1>10. Map(written) = Map(Map(written).f) /\ Map(written).f = written
    BY DEF Map
  <1> HIDE DEF Map
  <1> QED
    BY <1>3, <1>9, <1>10

LEMMA KeptIfCarried == IInv /\ Carried => SuppliedKept
  <1> SUFFICES ASSUME IInv, Carried, Constructed
               PROVE  /\ \A k \in DOMAIN Intents :
                            /\ Map(Decoded(k)) = SourceOf(request, ids, k)
                            /\ Decoded(k)["id"].v = result.map[k].id
                      /\ \A k \in Fragments :
                            \A n \in DOMAIN Intents[k].fields
                                       \ (Ceremony(Intents[k].type) \cup {"id"}) :
                                KeptField(Intents[k].type, n, Intents[k].fields[n],
                                          Decoded(k)[n])
    BY Zenon DEF SuppliedKept
  <1>1. ASSUME NEW k \in DOMAIN Intents
        PROVE  /\ Decoded(k) = SourceOf(request, ids, k).f
               /\ result.map[k].id = ids[Intents[k].key].id
    <2>1. /\ k \in 1 .. Len(Intents)
          /\ result.artifacts[k] = ArtifactOf(request, ids, k)
          /\ result.map[k] = MapEntry(request, ids, k)
      BY ConstructedSet
    <2>2. KeptAt(request, ids, k)
      BY <2>1 DEF Carried
    <2> QED
      BY <2>1, <2>2, EntryFields DEF KeptAt, Decoded, Intents
  <1>2. ASSUME NEW k \in DOMAIN Intents
        PROVE  /\ SourceOf(request, ids, k) = Map(SourceOf(request, ids, k).f)
               /\ SourceOf(request, ids, k).f["id"] = Scalar(ids[Intents[k].key].id)
    <2>1. CASE IsRelationship(request, k)
      <3>1. SourceOf(request, ids, k) = RelationshipSource(ids, Intents[k])
        BY <2>1 DEF SourceOf, Intents
      <3> DEFINE x == Intents[k]
      <3>2. RelationshipSource(ids, x).f["id"] = Scalar(ids[x.key].id)
        BY DEF RelationshipSource, Map
      <3>3. RelationshipSource(ids, x) = Map(RelationshipSource(ids, x).f)
        BY DEF RelationshipSource, Map
      <3> QED
        BY <3>1, <3>2, <3>3
    <2>2. CASE ~IsRelationship(request, k)
      <3>1. SourceOf(request, ids, k) = FragmentSource(request, ids, Intents[k])
        BY <2>2 DEF SourceOf, Intents
      <3> QED
        BY <3>1, FragmentFields
    <2> QED
      BY <2>1, <2>2
  <1>3. ASSUME NEW k \in DOMAIN Intents
        PROVE  Decoded(k)["id"].v = result.map[k].id
    <2>1. Decoded(k)["id"] = Scalar(ids[Intents[k].key].id)
      BY <1>1, <1>2
    <2> QED
      BY <1>1, <2>1 DEF Scalar
  <1>4. ASSUME NEW k \in Fragments,
               NEW n \in DOMAIN Intents[k].fields \ (Ceremony(Intents[k].type) \cup {"id"})
        PROVE  KeptField(Intents[k].type, n, Intents[k].fields[n], Decoded(k)[n])
    <2>1. k \in DOMAIN Intents /\ ~IsRelationship(request, k)
      BY FragmentAt
    <2>2. Decoded(k) = FragmentSource(request, ids, Intents[k]).f
      BY <1>1, <2>1 DEF SourceOf, Intents
    <2> QED
      BY <2>2, FragmentFields
  <1> QED
    BY <1>1, <1>2, <1>3, <1>4

(* If the codec keeps what it accepts, nothing supplied is lost, for all    *)
(* requests: neither the ceremony that the construction adds nor the        *)
(* children composed into an ADR replace a field that was given, and the    *)
(* enrichment of a topology only adds purposes that were not given.         *)
THEOREM KeepsTheSupplied == Spec /\ []CodecHolds => []SuppliedKept
  BY Invariance, CarriedAlways, KeptIfCarried, PTL

-----------------------------------------------------------------------------
(***************************************************************************)
(* Remainders, for the minter's counter.                                   *)
(***************************************************************************)
LEMMA Quotient ==
    ASSUME NEW n \in Nat \ {0}, NEW a \in Nat
    PROVE  /\ a = n * (a \div n) + (a % n)
           /\ a % n \in 0 .. n - 1 /\ a \div n \in Nat
  OBVIOUS

LEMMA Multiples ==
    ASSUME NEW n \in Nat \ {0}, NEW c \in Nat, NEW d \in Nat, c < d
    PROVE  n * c + n <= n * d
  <1>1. PICK e \in Nat : d = c + 1 + e
    <2>1. d - c - 1 \in Nat /\ d = c + 1 + (d - c - 1)
      OBVIOUS
    <2> QED
      BY <2>1
  <1>2. n * d = n * c + n + n * e
    BY <1>1
  <1>3. n * e \in Nat /\ n * c \in Nat
    OBVIOUS
  <1> QED
    BY <1>2, <1>3

LEMMA Remainder ==
    ASSUME NEW a \in Nat, NEW n \in Nat \ {0}, NEW c \in Nat, NEW s \in 0 .. n - 1,
           a = n * c + s
    PROVE  a % n = s
  <1> DEFINE d == a \div n
             t == a % n
  <1>1. d \in Nat /\ t \in 0 .. n - 1 /\ a = n * d + t
    BY Quotient
  <1> HIDE DEF d, t
  <1>2. n * c \in Nat /\ n * d \in Nat
    BY <1>1
  <1>3. ~(c < d)
    <2>1. SUFFICES ASSUME c < d PROVE FALSE
      OBVIOUS
    <2>2. n * c + n <= n * d
      BY <1>1, <2>1, Multiples
    <2> QED
      BY <1>1, <1>2, <2>2
  <1>4. ~(d < c)
    <2>1. SUFFICES ASSUME d < c PROVE FALSE
      OBVIOUS
    <2>2. n * d + n <= n * c
      BY <1>1, <2>1, Multiples
    <2> QED
      BY <1>1, <1>2, <2>2
  <1>5. c = d
    BY <1>1, <1>3, <1>4
  <1>6. t = s
    BY <1>1, <1>2, <1>5
  <1> QED
    BY <1>6 DEF t

LEMMA RoundOfRounds ==
    ASSUME NEW a \in Nat, NEW w \in Nat \ {0}, NEW n \in Nat \ {0}, w % n = 0
    PROVE  (a % w) % n = a % n
  <1> DEFINE k == a \div w
             r == a % w
             q == w \div n
             j == r \div n
             s == r % n
  <1>1. k \in Nat /\ r \in Nat /\ a = w * k + r
    BY Quotient
  <1>2. q \in Nat /\ w = n * q
    BY Quotient
  <1>3. j \in Nat /\ s \in 0 .. n - 1 /\ r = n * j + s
    BY <1>1, Quotient
  <1> HIDE DEF k, r, q, j, s
  <1>4. a = n * (q * k + j) + s
    <2>1. w * k = n * (q * k)
      BY <1>1, <1>2
    <2>2. n * (q * k + j) = n * (q * k) + n * j
      BY <1>1, <1>2, <1>3
    <2> QED
      BY <1>1, <1>3, <2>1, <2>2
  <1>5. q * k + j \in Nat
    BY <1>1, <1>2, <1>3
  <1>6. a % n = s
    BY <1>3, <1>4, <1>5, Remainder
  <1> QED
    BY <1>6 DEF s, r

LEMMA NextRemainder ==
    ASSUME NEW a \in Nat, NEW w \in Nat \ {0}
    PROVE  ((a % w) + 1) % w = (a + 1) % w
  <1> DEFINE k == a \div w
             r == a % w
  <1>1. k \in Nat /\ r \in 0 .. w - 1 /\ a = w * k + r
    BY Quotient
  <1> HIDE DEF k, r
  <1>2. CASE r + 1 < w
    <2>1. r + 1 \in 0 .. w - 1 /\ a + 1 = w * k + (r + 1) /\ r + 1 = w * 0 + (r + 1)
      BY <1>1, <1>2
    <2>2. (a + 1) % w = r + 1
      BY <1>1, <2>1, Remainder
    <2>3. (r + 1) % w = r + 1
      BY <1>1, <2>1, Remainder
    <2> QED
      BY <2>2, <2>3 DEF r
  <1>3. CASE r + 1 >= w
    <2>1. r + 1 = w * 1 + 0 /\ 0 \in 0 .. w - 1
      BY <1>1, <1>3
    <2>2. a + 1 = w * (k + 1) + 0
      <3>1. w * (k + 1) = w * k + w
        BY <1>1
      <3> QED
        BY <1>1, <2>1, <3>1
    <2>3. (a + 1) % w = 0
      BY <1>1, <2>1, <2>2, Remainder
    <2>4. (r + 1) % w = 0
      BY <1>1, <2>1, Remainder
    <2> QED
      BY <2>3, <2>4 DEF r
  <1> QED
    BY <1>1, <1>2, <1>3

LEMMA SameRemainder ==
    ASSUME NEW a \in Nat, NEW b \in Nat, NEW n \in Nat \ {0}, a < b, a % n = b % n
    PROVE  b - a >= n
  <1> DEFINE c == a \div n
             d == b \div n
             s == a % n
  <1>1. /\ c \in Nat /\ d \in Nat /\ s \in Nat
        /\ a = n * c + s /\ b = n * d + s
    <2>1. a = n * c + (a % n) /\ a % n \in 0 .. n - 1 /\ c \in Nat
      BY Quotient
    <2>2. b = n * d + (b % n) /\ d \in Nat
      BY Quotient
    <2> HIDE DEF c, d
    <2> QED
      BY <2>1, <2>2
  <1> HIDE DEF c, d, s
  <1>2. n * c \in Nat /\ n * d \in Nat
    BY <1>1
  <1>3. c < d
    <2>1. SUFFICES ASSUME ~(c < d) PROVE FALSE
      OBVIOUS
    <2>2. CASE c = d
      BY <1>1, <1>2, <2>2
    <2>3. CASE d < c
      <3>1. n * d + n <= n * c
        BY <1>1, <2>3, Multiples
      <3> QED
        BY <1>1, <1>2, <3>1
    <2> QED
      BY <1>1, <2>1, <2>2, <2>3
  <1>4. n * c + n <= n * d
    BY <1>1, <1>3, Multiples
  <1> QED
    BY <1>1, <1>2, <1>4

(***************************************************************************)
(* The counter and the identities minted: the wrap of the counter falls    *)
(* between two rounds, so that the p-th identity is the ((p-1) % n)-th of  *)
(* its reading whether or not the counter has wrapped.                     *)
(***************************************************************************)
Round(now) == Len(Minter[now])

MintedAt(p, id) == \E now \in Epochs : id = Minter[now][((p - 1) % Round(now)) + 1]

Minting ==
    /\ minted \in Seq(UNION {ItemsOf(Minter[now]) : now \in Epochs})
    /\ counter = Len(minted) % CounterWidth
    /\ \A p \in 1 .. Len(minted) : MintedAt(p, minted[p])

LEMMA RoundsAt ==
    ASSUME NEW now \in Epochs
    PROVE  /\ Round(now) \in Nat \ {0} /\ DOMAIN Minter[now] = 1 .. Round(now)
           /\ CounterWidth \in Nat \ {0} /\ CounterWidth % Round(now) = 0
  <1>1. /\ Minter[now] \in Seq(ItemsOf(Minter[now])) /\ Minter[now] # <<>>
        /\ CounterWidth \in Nat \ {0} /\ CounterWidth % Len(Minter[now]) = 0
    BY MinterAssumption DEF MinterAssumption, IsList
  <1> DEFINE s == Minter[now]
             S == ItemsOf(Minter[now])
  <1>2. s \in Seq(S) /\ s # <<>>
    BY <1>1
  <1> HIDE DEF s, S
  <1>3. Len(s) \in Nat \ {0} /\ DOMAIN s = 1 .. Len(s)
    BY <1>2
  <1> QED
    BY <1>1, <1>3 DEF Round, s

LEMMA MintingFirst == Init => Minting
  <1> SUFFICES ASSUME Init PROVE Minting
    OBVIOUS
  <1>1. minted = <<>> /\ counter = 0
    BY DEF Init
  <1>2. CounterWidth \in Nat \ {0}
    BY MinterAssumption DEF MinterAssumption
  <1>3. 0 % CounterWidth = 0
    <2>1. 0 = CounterWidth * 0 + 0 /\ 0 \in 0 .. CounterWidth - 1
      BY <1>2
    <2> QED
      BY <1>2, <2>1, Remainder
  <1> QED
    BY <1>1, <1>3 DEF Minting

LEMMA MintingMint == Minting /\ MintIdentity => Minting'
  <1> SUFFICES ASSUME Minting, MintIdentity PROVE Minting'
    OBVIOUS
  <1> DEFINE n == Len(minted)
             S == UNION {ItemsOf(Minter[now]) : now \in Epochs}
  <1>1. n \in Nat /\ counter = n % CounterWidth /\ counter' = (counter + 1) % CounterWidth
    BY DEF Minting, MintIdentity, NextCount
  <1>2. PICK now \in Epochs :
           minted' = Append(minted, Minter[now][(counter % Round(now)) + 1])
    BY DEF MintIdentity, Round
  <1> DEFINE id == Minter[now][(counter % Round(now)) + 1]
  <1>3. /\ Round(now) \in Nat \ {0} /\ DOMAIN Minter[now] = 1 .. Round(now)
        /\ CounterWidth \in Nat \ {0} /\ CounterWidth % Round(now) = 0
    BY RoundsAt
  <1>4. counter % Round(now) = n % Round(now)
    <2> HIDE DEF n
    <2> QED
      BY <1>1, <1>3, RoundOfRounds
  <1>5. id \in S
    <2>1. n % Round(now) \in 0 .. Round(now) - 1
      <3> HIDE DEF n
      <3> QED
        BY <1>1, <1>3, Quotient
    <2>2. (n % Round(now)) + 1 \in DOMAIN Minter[now]
      <3> HIDE DEF n
      <3> QED
        BY <1>3, <2>1
    <2>3. id \in ItemsOf(Minter[now])
      BY <1>4, <2>2 DEF ItemsOf
    <2> HIDE DEF id
    <2> QED
      BY <2>3
  <1>6. MintedAt(n + 1, id)
    <2>1. (n + 1) - 1 = n
      BY <1>1
    <2> QED
      BY <1>4, <2>1 DEF MintedAt
  <1>7. counter' = (n + 1) % CounterWidth
    <2> HIDE DEF n
    <2> QED
      BY <1>1, <1>3, NextRemainder
  <1>8. minted' = Append(minted, id) /\ minted \in Seq(S)
    BY <1>2 DEF Minting
  <1>9. \A p \in 1 .. n : MintedAt(p, minted[p])
    BY DEF Minting
  <1> HIDE DEF id, S
  <1>10. /\ minted' \in Seq(S) /\ Len(minted') = n + 1
         /\ minted'[n + 1] = id /\ \A p \in 1 .. n : minted'[p] = minted[p]
    BY <1>5, <1>8
  <1> HIDE DEF n
  <1>11. \A p \in 1 .. n + 1 : MintedAt(p, minted'[p])
    BY <1>1, <1>6, <1>9, <1>10
  <1> QED
    BY <1>7, <1>10, <1>11 DEF Minting, MintedAt, Round, S

LEMMA MintingOthers == Minting /\ UNCHANGED <<counter, minted>> => Minting'
  BY DEF Minting, MintedAt, Round

LEMMA MintingAlways == Spec => []Minting
  <1>1. [Next]_vars => MintIdentity \/ UNCHANGED <<counter, minted>>
    BY DEF Next, vars, Validate, KeepIdentity, MintFails, Identified, Build, Seal, Again
  <1>2. Minting /\ [Next]_vars => Minting'
    BY <1>1, MintingMint, MintingOthers
  <1> QED
    BY MintingFirst, <1>2, PTL DEF Spec

LEMMA ApartIfMinting == Minting => MintsFarApart
  <1> SUFFICES ASSUME Minting, NEW p \in DOMAIN minted, NEW q \in DOMAIN minted,
                      p < q, minted[p] = minted[q], NEW now \in Epochs
               PROVE  q - p >= Round(now)
    BY DEF MintsFarApart, Round
  <1>1. Len(minted) \in Nat /\ p \in 1 .. Len(minted) /\ q \in 1 .. Len(minted)
    BY DEF Minting
  <1>2. p - 1 \in Nat /\ q - 1 \in Nat /\ p - 1 < q - 1 /\ (q - 1) - (p - 1) = q - p
    BY <1>1
  <1>3. MintedAt(p, minted[p]) /\ MintedAt(q, minted[q])
    BY <1>1 DEF Minting
  <1>4. PICK x \in Epochs : minted[p] = Minter[x][((p - 1) % Round(x)) + 1]
    BY <1>3 DEF MintedAt
  <1>5. PICK y \in Epochs : minted[q] = Minter[y][((q - 1) % Round(y)) + 1]
    BY <1>3 DEF MintedAt
  <1> DEFINE n == Round(now)
             s == (p - 1) % n
             t == (q - 1) % n
  <1>6. /\ n \in Nat \ {0} /\ Round(x) = n /\ Round(y) = n
        /\ DOMAIN Minter[x] = 1 .. n /\ DOMAIN Minter[y] = 1 .. n
    BY RoundsAt, MinterAssumption DEF MinterAssumption, Round
  <1>7. s \in 0 .. n - 1 /\ t \in 0 .. n - 1
    <2> HIDE DEF n
    <2> QED
      BY <1>2, <1>6, Quotient
  <1>8. minted[p] = Minter[x][s + 1] /\ minted[q] = Minter[y][t + 1]
    BY <1>4, <1>5, <1>6
  <1> HIDE DEF n, s, t
  <1>9. s + 1 \in 1 .. n /\ t + 1 \in 1 .. n
    BY <1>6, <1>7
  <1>10. x = y
    <2>1. minted[p] \in ItemsOf(Minter[x]) /\ minted[p] \in ItemsOf(Minter[y])
      BY <1>6, <1>8, <1>9 DEF ItemsOf
    <2> QED
      BY <2>1, MinterAssumption DEF MinterAssumption
  <1>11. s + 1 = t + 1
    BY <1>6, <1>8, <1>9, <1>10, MinterAssumption DEF MinterAssumption
  <1>12. s = t
    BY <1>7, <1>11
  <1> QED
    BY <1>2, <1>6, <1>12, SameRemainder DEF n, s, t

(* Whatever the clock reads, for all readings and all widths of the counter *)
(* that a round divides: a wrap of the counter (u16) never brings an        *)
(* identity back earlier than its low bits (& 0x0fff) do.                   *)
THEOREM MintsApart == Spec => []MintsFarApart
  BY MintingAlways, ApartIfMinting, PTL

-----------------------------------------------------------------------------
(***************************************************************************)
(* The order of the intents.  A request and the same request the other way *)
(* round mirror each other: the relation is symmetric, so that one         *)
(* inclusion of their codes is enough.                                     *)
(***************************************************************************)
LEMMA LeastElement ==
    ASSUME NEW T \in SUBSET Nat, T # {}
    PROVE  \E x \in T : \A y \in T : x <= y
  <1>1. OpToRel(<, Nat) = {ss \in Nat \X Nat : ss[1] < ss[2]}
    BY DEF OpToRel
  <1>2. IsWellFoundedOn(OpToRel(<, Nat), Nat)
    BY NatLessThanWellFounded
  <1>3. PICK x \in T : \A y \in T : ~(<<y, x>> \in OpToRel(<, Nat))
    BY <1>2, WFMin
  <1>4. ASSUME NEW y \in T PROVE x <= y
    <2>1. ~(<<y, x>> \in {ss \in Nat \X Nat : ss[1] < ss[2]})
      BY <1>1, <1>3
    <2>2. <<y, x>> \in Nat \X Nat
      OBVIOUS
    <2>3. ~(y < x)
      BY <2>1, <2>2
    <2> QED
      BY <2>3
  <1> QED
    BY <1>4

LEMMA CountedKeysApart ==
    ASSUME NEW n \in Nat, NEW s, DOMAIN s = 1 .. n,
           Cardinality({x.key : x \in ItemsOf(s)}) = n
    PROVE  \A p, q \in 1 .. n : s[p].key = s[q].key => p = q
  <1> DEFINE T == {x.key : x \in ItemsOf(s)}
             h == [k \in 1 .. n |-> s[k].key]
  <1>1. h \in Surjection(1 .. n, T)
    <2>1. T = {s[k].key : k \in 1 .. n}
      BY DEF ItemsOf
    <2>2. h \in [1 .. n -> T]
      BY <2>1
    <2>3. \A x \in T : \E k \in 1 .. n : h[k] = x
      BY <2>1
    <2> HIDE DEF h, T
    <2> QED
      BY <2>2, <2>3 DEF Surjection
  <1>2. IsFiniteSet(1 .. n) /\ Cardinality(1 .. n) = n
    BY FS_Interval
  <1>3. Cardinality(T) = Cardinality(1 .. n)
    BY <1>2
  <1> HIDE DEF T
  <1>4. h \in Injection(1 .. n, T)
    <2> HIDE DEF h
    <2> QED
      BY <1>1, <1>2, <1>3, FS_Surjection
  <1>5. ASSUME NEW p \in 1 .. n, NEW q \in 1 .. n, s[p].key = s[q].key
        PROVE  p = q
    <2>1. h[p] = h[q]
      BY <1>5
    <2> HIDE DEF h
    <2> QED
      BY <1>4, <2>1 DEF Injection, IsInjective
  <1> QED
    BY <1>5

(* With distinct keys a key names the one fragment that carries it.        *)
LEMMA KeyNamesOne ==
    ASSUME NEW r, NEW n \in Nat, DOMAIN r.fragments = 1 .. n,
           \A p, q \in 1 .. n : r.fragments[p].key = r.fragments[q].key => p = q,
           NEW key
    PROVE  Keyed(r, key) = {f \in ItemsOf(r.fragments) : f.key = key}
  <1> DEFINE hits == {k \in DOMAIN r.fragments : r.fragments[k].key = key}
             last == CHOOSE k \in hits : \A j \in hits : j <= k
  <1>1. CASE hits = {}
    <2>1. Keyed(r, key) = {}
      BY <1>1 DEF Keyed
    <2> QED
      BY <1>1, <2>1 DEF ItemsOf
  <1>2. CASE hits # {}
    <2>1. PICK k \in hits : TRUE
      BY <1>2
    <2>2. k \in 1 .. n /\ r.fragments[k].key = key /\ \A j \in hits : j = k
      BY <2>1
    <2>3. last = k
      BY <2>2
    <2>4. Keyed(r, key) = {r.fragments[k]}
      BY <1>2, <2>3 DEF Keyed
    <2> QED
      BY <2>2, <2>4 DEF ItemsOf
  <1> QED
    BY <1>1, <1>2

Mirrored(r, s, m) ==
    /\ r.conforms = s.conforms /\ r.basis = s.basis
    /\ ItemsOf(r.fragments) = ItemsOf(s.fragments)
    /\ DOMAIN r.relationships = 1 .. m /\ Len(r.relationships) = m
    /\ DOMAIN s.relationships = 1 .. m /\ Len(s.relationships) = m
    /\ \A p \in 1 .. m : r.relationships[p] = s.relationships[m + 1 - p]

(* What the validation reads of the other fragments.                       *)
LEMMA MirroredTargets ==
    ASSUME NEW r, NEW s, NEW m \in Nat, Mirrored(r, s, m),
           \A key : Keyed(r, key) = Keyed(s, key)
    PROVE  /\ \A kind, target : Targets(r, kind, target) = Targets(s, kind, target)
           /\ \A end : EndType(r, end) = EndType(s, end)
  <1>1. \A kind, target : Targets(r, kind, target) = Targets(s, kind, target)
    BY DEF Targets, Mirrored
  <1> QED
    BY <1>1 DEF EndType

LEMMA MirroredEnds ==
    ASSUME NEW r, NEW s, NEW m \in Nat, Mirrored(r, s, m),
           \A key : Keyed(r, key) = Keyed(s, key), NEW x
    PROVE  /\ Resolved(r, x) = Resolved(s, x)
           /\ UnresolvedCodes(r, x) = UnresolvedCodes(s, x)
           /\ Governed(r, x) = Governed(s, x)
           /\ EndsAllowed(r, x) = EndsAllowed(s, x)
           /\ Counted(r, x) = Counted(s, x)
           /\ CustomRelationshipCodes(r, x) = CustomRelationshipCodes(s, x)
  <1>1. EndType(r, x.from) = EndType(s, x.from) /\ EndType(r, x.to) = EndType(s, x.to)
    BY MirroredTargets
  <1>2. r.basis = s.basis
    BY DEF Mirrored
  <1>3. Resolved(r, x) = Resolved(s, x)
    BY <1>1, Zenon DEF Resolved
  <1>4. UnresolvedCodes(r, x) = UnresolvedCodes(s, x)
    BY <1>1, <1>3, Zenon DEF UnresolvedCodes
  <1>5. Governed(r, x) = Governed(s, x)
    BY <1>2, <1>3, Zenon DEF Governed
  <1>6. EndsAllowed(r, x) = EndsAllowed(s, x)
    BY <1>1, <1>2, Zenon DEF EndsAllowed
  <1>7. Counted(r, x) = Counted(s, x)
    BY <1>2, <1>5, <1>6, Zenon DEF Counted
  <1>8. CustomRelationshipCodes(r, x) = CustomRelationshipCodes(s, x)
    BY <1>2, <1>3, <1>5, Zenon DEF CustomRelationshipCodes
  <1> QED
    BY <1>3, <1>4, <1>5, <1>6, <1>7, <1>8

LEMMA MirroredReferences ==
    ASSUME NEW r, NEW s, NEW m \in Nat, Mirrored(r, s, m),
           \A key : Keyed(r, key) = Keyed(s, key), NEW f, NEW x
    PROVE  ReferenceCodes(r, f, x) = ReferenceCodes(s, f, x)
  <1>1. Targets(r, x.kind, x.target) = Targets(s, x.kind, x.target)
    BY MirroredTargets
  <1>2. r.basis = s.basis
    BY DEF Mirrored
  <1> QED
    BY <1>1, <1>2, Zenon DEF ReferenceCodes

(* All that a relationship earns but the cardinality code.                 *)
OwnCodes(r, x) ==
    CustomRelationshipCodes(r, x)
        \cup When(x.type \in Forbidden, "forbidden_type", "violation", x.key)
        \cup (IF x.type \in Forbidden THEN {} ELSE UnresolvedCodes(r, x))
        \cup (IF Governed(r, x)
              THEN When(~EndsAllowed(r, x), "endpoint_forbidden", "violation", x.key)
              ELSE {})

LEMMA RelationshipParts ==
    ASSUME NEW r, NEW p
    PROVE  RelationshipCodes(r, p) =
               OwnCodes(r, r.relationships[p])
                   \cup When(Crowded(r, p), "cardinality", "violation", r.relationships[p].key)
  BY Zenon DEF RelationshipCodes, OwnCodes

LEMMA MirroredOwn ==
    ASSUME NEW r, NEW s, NEW m \in Nat, Mirrored(r, s, m),
           \A key : Keyed(r, key) = Keyed(s, key), NEW x
    PROVE  OwnCodes(r, x) = OwnCodes(s, x)
  <1>1. /\ UnresolvedCodes(r, x) = UnresolvedCodes(s, x)
        /\ Governed(r, x) = Governed(s, x)
        /\ EndsAllowed(r, x) = EndsAllowed(s, x)
        /\ CustomRelationshipCodes(r, x) = CustomRelationshipCodes(s, x)
    BY MirroredEnds
  <1> QED
    BY <1>1, Zenon DEF OwnCodes

(* The first of the relationships alike changes with the order, but there  *)
(* is one with another after it in either.                                 *)
LEMMA MirroredCrowd ==
    ASSUME NEW r, NEW s, NEW m \in Nat, Mirrored(r, s, m),
           \A key : Keyed(r, key) = Keyed(s, key),
           NEW p \in 1 .. m, Crowded(r, p)
    PROVE  \E q \in 1 .. m : Crowded(s, q)
  <1> DEFINE xs == r.relationships
             ys == s.relationships
             Of(z, x) == <<x.type, EndType(z, x.from), EndType(z, x.to)>>
             AlikeR(j) == Counted(r, xs[j]) /\ Of(r, xs[j]) = Of(r, xs[p])
             T == {j \in 1 .. m : Counted(s, ys[j]) /\ Of(s, ys[j]) = Of(s, xs[p])}
  <1>1. /\ Counted(r, xs[p])
        /\ \E q \in p + 1 .. Len(xs) : AlikeR(q)
    BY Zenon DEF Crowded
  <1>2. PICK q \in p + 1 .. m : AlikeR(q)
    BY <1>1 DEF Mirrored
  <1>3. \A x : Of(r, x) = Of(s, x) /\ Counted(r, x) = Counted(s, x)
    BY MirroredTargets, MirroredEnds
  <1>4. \A j \in 1 .. m : xs[j] = ys[m + 1 - j]
    BY DEF Mirrored
  <1>5. q \in 1 .. m /\ q > p
    BY <1>2
  <1>6. Counted(s, xs[p]) /\ Counted(s, xs[q]) /\ Of(s, xs[q]) = Of(s, xs[p])
    BY <1>1, <1>2, <1>3
  <1> HIDE DEF xs, ys, Of
  <1> DEFINE i == m + 1 - p
             j == m + 1 - q
  <1>7. i \in T /\ j \in T
    <2>1. i \in 1 .. m /\ j \in 1 .. m
      BY <1>5
    <2> QED
      BY <1>4, <1>5, <1>6, <2>1
  <1>8. j < i
    BY <1>5
  <1> HIDE DEF i, j
  <1>9. PICK least \in T : \A k \in T : least <= k
    <2>1. T \in SUBSET Nat /\ T # {}
      BY <1>7
    <2> HIDE DEF T
    <2> QED
      BY <2>1, LeastElement
  <1>10. least \in 1 .. m /\ i \in least + 1 .. m
    BY <1>7, <1>8, <1>9
  <1> DEFINE Alike(k) == Counted(s, ys[k]) /\ Of(s, ys[k]) = Of(s, ys[least])
  <1>11. Counted(s, ys[least]) /\ Alike(i)
    BY <1>7, <1>9
  <1>12. \A k \in 1 .. least - 1 : ~Alike(k)
    <2>1. SUFFICES ASSUME NEW k \in 1 .. least - 1, Alike(k) PROVE FALSE
      OBVIOUS
    <2>2. k \in T
      BY <1>9, <1>10, <2>1
    <2> QED
      BY <1>9, <1>10, <2>1, <2>2
  <1>13. Len(ys) = m
    BY DEF Mirrored, ys
  <1>14. \E k \in least + 1 .. Len(ys) : Alike(k)
    BY <1>10, <1>11, <1>13
  <1>15. Crowded(s, least)
    BY <1>11, <1>12, <1>14, Zenon DEF Crowded, Of, ys
  <1> QED
    BY <1>10, <1>15

LEMMA MirroredCodes ==
    ASSUME NEW r, NEW s, NEW m \in Nat, Mirrored(r, s, m),
           \A key : Keyed(r, key) = Keyed(s, key)
    PROVE  Codes(Report(r)) \subseteq Codes(Report(s))
  <1>1. SUFFICES ASSUME NEW d \in Report(r)
                 PROVE  \E e \in Report(s) : e.code = d.code /\ e.status = d.status
    BY DEF Codes
  <1>2. /\ r.conforms = s.conforms /\ r.basis = s.basis
        /\ ItemsOf(r.fragments) = ItemsOf(s.fragments)
        /\ DOMAIN r.relationships = 1 .. m /\ DOMAIN s.relationships = 1 .. m
        /\ \A p \in 1 .. m : r.relationships[p] = s.relationships[m + 1 - p]
    BY DEF Mirrored
  <1>3. CASE ~r.conforms
    <2>1. d \in Report(s)
      BY <1>2, <1>3, Zenon DEF Report
    <2> QED
      BY <2>1
  <1>4. CASE r.conforms
    <2>1. Report(r) = Diagnostics(r) /\ Report(s) = Diagnostics(s)
      BY <1>2, <1>4, Zenon DEF Report
    <2>2. \/ d \in BasisCodes(r.basis)
          \/ \E f \in ItemsOf(r.fragments) : d \in FragmentCodes(r.basis, f)
          \/ \E p \in DOMAIN r.relationships : d \in RelationshipCodes(r, p)
          \/ \E f \in ItemsOf(r.fragments) : \E x \in ItemsOf(f.refs) :
                d \in ReferenceCodes(r, f, x)
      <3> DEFINE Of(f) == UNION {ReferenceCodes(r, f, x) : x \in ItemsOf(f.refs)}
      <3>1. d \in Diagnostics(r)
        BY <2>1
      <3>2. Diagnostics(r) = BasisCodes(r.basis)
                \cup (UNION {FragmentCodes(r.basis, f) : f \in ItemsOf(r.fragments)})
                \cup (UNION {RelationshipCodes(r, p) : p \in DOMAIN r.relationships})
                \cup (UNION {Of(f) : f \in ItemsOf(r.fragments)})
        BY DEF Diagnostics
      <3>3. \A f : d \in Of(f) => \E x \in ItemsOf(f.refs) : d \in ReferenceCodes(r, f, x)
        BY Zenon
      <3> HIDE DEF Of
      <3> QED
        BY <3>1, <3>2, <3>3, Zenon
    <2>3. CASE d \in BasisCodes(r.basis)
      <3>1. d \in Diagnostics(s)
        BY <1>2, <2>3, Zenon DEF Diagnostics
      <3> QED
        BY <2>1, <3>1
    <2>4. ASSUME NEW f \in ItemsOf(r.fragments), d \in FragmentCodes(r.basis, f)
          PROVE  d \in Report(s)
      <3>1. f \in ItemsOf(s.fragments) /\ d \in FragmentCodes(s.basis, f)
        BY <1>2, <2>4
      <3>2. d \in Diagnostics(s)
        BY <3>1, Zenon DEF Diagnostics
      <3> QED
        BY <2>1, <3>2
    <2>5. ASSUME NEW f \in ItemsOf(r.fragments), NEW x \in ItemsOf(f.refs),
                 d \in ReferenceCodes(r, f, x)
          PROVE  d \in Report(s)
      <3>1. f \in ItemsOf(s.fragments) /\ d \in ReferenceCodes(s, f, x)
        BY <1>2, <2>5, MirroredReferences
      <3> DEFINE Of(g) == UNION {ReferenceCodes(s, g, y) : y \in ItemsOf(g.refs)}
      <3>2. d \in Of(f)
        BY <3>1, Zenon
      <3>3. (UNION {Of(g) : g \in ItemsOf(s.fragments)}) \subseteq Diagnostics(s)
        BY Zenon DEF Diagnostics
      <3> HIDE DEF Of
      <3>4. d \in UNION {Of(g) : g \in ItemsOf(s.fragments)}
        BY <3>1, <3>2, Zenon
      <3> QED
        BY <2>1, <3>3, <3>4
    <2>6. ASSUME NEW q \in 1 .. m, NEW e \in RelationshipCodes(s, q)
          PROVE  e \in Report(s)
      <3>1. q \in DOMAIN s.relationships
        BY <1>2
      <3>2. e \in Diagnostics(s)
        BY <3>1, <2>6, Zenon DEF Diagnostics
      <3> QED
        BY <2>1, <3>2
    <2>7. ASSUME NEW p \in DOMAIN r.relationships, d \in RelationshipCodes(r, p)
          PROVE  \E e \in Report(s) : e.code = d.code /\ e.status = d.status
      <3> DEFINE x == r.relationships[p]
                 q == m + 1 - p
      <3>1. p \in 1 .. m /\ q \in 1 .. m /\ s.relationships[q] = x
        BY <1>2, <2>7
      <3> HIDE DEF q
      <3>2. CASE d \in OwnCodes(r, x)
        <4>1. d \in OwnCodes(s, s.relationships[q])
          BY <3>1, <3>2, MirroredOwn
        <4>2. d \in RelationshipCodes(s, q)
          BY <4>1, RelationshipParts
        <4> QED
          BY <2>6, <3>1, <4>2
      <3>3. CASE d \in When(Crowded(r, p), "cardinality", "violation", x.key)
        <4>1. Crowded(r, p) /\ d.code = "cardinality" /\ d.status = "violation"
          BY <3>3 DEF When, Diagnostic
        <4>2. PICK k \in 1 .. m : Crowded(s, k)
          BY <3>1, <4>1, MirroredCrowd
        <4> DEFINE e == Diagnostic("cardinality", "violation", s.relationships[k].key)
        <4>3. e \in RelationshipCodes(s, k)
          <5>1. e \in When(Crowded(s, k), "cardinality", "violation", s.relationships[k].key)
            BY <4>2 DEF When
          <5> QED
            BY <5>1, RelationshipParts
        <4>4. e.code = "cardinality" /\ e.status = "violation"
          BY DEF Diagnostic
        <4> HIDE DEF e
        <4> QED
          BY <2>6, <4>1, <4>3, <4>4
      <3> QED
        BY <2>7, <3>2, <3>3, RelationshipParts
    <2> QED
      BY <2>2, <2>3, <2>4, <2>5, <2>7
  <1> QED
    BY <1>3, <1>4

LEMMA ReversedAt ==
    ASSUME NEW s, NEW n \in Nat, DOMAIN s = 1 .. n, Len(s) = n
    PROVE  /\ DOMAIN Reversed(s) = 1 .. n /\ Len(Reversed(s)) = n
           /\ \A p \in 1 .. n : s[p] = Reversed(s)[n + 1 - p] /\ Reversed(s)[p] = s[n + 1 - p]
           /\ ItemsOf(Reversed(s)) = ItemsOf(s)
  <1> DEFINE t == Reversed(s)
  <1>1. DOMAIN t = 1 .. n /\ \A p \in 1 .. n : t[p] = s[n + 1 - p]
    BY DEF Reversed
  <1> HIDE DEF t
  <1>2. \A p \in 1 .. n : n + 1 - p \in 1 .. n /\ n + 1 - (n + 1 - p) = p
    OBVIOUS
  <1>3. \A p \in 1 .. n : s[p] = t[n + 1 - p]
    BY <1>1, <1>2
  <1>4. ItemsOf(t) = ItemsOf(s)
    BY <1>1, <1>2, <1>3 DEF ItemsOf
  <1>5. Len(t) = n
    BY <1>1
  <1> QED
    BY <1>1, <1>3, <1>4, <1>5 DEF t

LEMMA SameEitherWay ==
    ASSUME NEW r \in Requests,
           Cardinality({f.key : f \in ItemsOf(r.fragments)}) = Len(r.fragments)
    PROVE  Codes(Report([r EXCEPT !.fragments = Reversed(@), !.relationships = Reversed(@)]))
               = Codes(Report(r))
  <1> DEFINE s == [r EXCEPT !.fragments = Reversed(@), !.relationships = Reversed(@)]
             n == Len(r.fragments)
             m == Len(r.relationships)
  <1>1. /\ n \in Nat /\ m \in Nat
        /\ DOMAIN r.fragments = 1 .. n /\ DOMAIN r.relationships = 1 .. m
    BY IntentSpans
  <1>2. /\ s.fragments = Reversed(r.fragments) /\ s.relationships = Reversed(r.relationships)
        /\ s.basis = r.basis /\ s.conforms = r.conforms
    <2>1. DOMAIN r = RequestFields
      BY RequestsAssumption DEF RequestsAssumption
    <2> QED
      BY <2>1 DEF RequestFields
  <1> HIDE DEF s
  <1>3. /\ DOMAIN s.fragments = 1 .. n /\ ItemsOf(s.fragments) = ItemsOf(r.fragments)
        /\ \A p \in 1 .. n : s.fragments[p] = r.fragments[n + 1 - p]
    BY <1>1, <1>2, ReversedAt
  <1>4. /\ DOMAIN s.relationships = 1 .. m /\ Len(s.relationships) = m
        /\ \A p \in 1 .. m : /\ r.relationships[p] = s.relationships[m + 1 - p]
                             /\ s.relationships[p] = r.relationships[m + 1 - p]
    BY <1>1, <1>2, ReversedAt
  <1>5. Mirrored(r, s, m) /\ Mirrored(s, r, m)
    BY <1>1, <1>2, <1>3, <1>4 DEF Mirrored
  <1>6. \A p, q \in 1 .. n : r.fragments[p].key = r.fragments[q].key => p = q
    BY <1>1, CountedKeysApart
  <1> HIDE DEF n, m
  <1>7. \A p, q \in 1 .. n : s.fragments[p].key = s.fragments[q].key => p = q
    <2>1. SUFFICES ASSUME NEW p \in 1 .. n, NEW q \in 1 .. n,
                          s.fragments[p].key = s.fragments[q].key
                   PROVE  p = q
      OBVIOUS
    <2>2. n + 1 - p \in 1 .. n /\ n + 1 - q \in 1 .. n
      BY <1>1
    <2>3. n + 1 - p = n + 1 - q
      BY <1>3, <1>6, <2>1, <2>2
    <2> QED
      BY <1>1, <2>3
  <1>8. \A key : Keyed(r, key) = Keyed(s, key)
    <2>1. \A key : Keyed(r, key) = {f \in ItemsOf(r.fragments) : f.key = key}
      BY <1>1, <1>6, KeyNamesOne
    <2>2. \A key : Keyed(s, key) = {f \in ItemsOf(s.fragments) : f.key = key}
      BY <1>1, <1>3, <1>7, KeyNamesOne
    <2> QED
      BY <1>3, <2>1, <2>2
  <1>9. Codes(Report(r)) \subseteq Codes(Report(s))
    BY <1>1, <1>5, <1>8, MirroredCodes
  <1>10. Codes(Report(s)) \subseteq Codes(Report(r))
    BY <1>1, <1>5, <1>8, MirroredCodes
  <1> QED
    BY <1>9, <1>10 DEF s

(* The order of the intents has no part in what the validation finds, for   *)
(* all requests with distinct keys: only the fragments' own codes, the      *)
(* index of keys and the count of relationships alike see other intents.    *)
THEOREM ReportsInAnyOrder == Spec => []OrderFree
  <1>1. IInv => OrderFree
    BY SameEitherWay DEF IInv, Flow, OrderFree
  <1> QED
    BY <1>1, Invariance, PTL
=============================================================================
