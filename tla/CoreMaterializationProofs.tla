---------------------- MODULE CoreMaterializationProofs ----------------------
(***************************************************************************)
(* What a materialized model says of its basis, for every request: each    *)
(* identity is declared once, each reference is accounted for, and what is *)
(* unresolved has an end that nothing declares.                            *)
(***************************************************************************)
EXTENDS CoreMaterialization, FiniteSetTheorems, SequenceTheorems,
        NaturalsInduction, WellFoundedInduction, TLAPS

(***************************************************************************)
(* Operation 1.0: what one step of a document adds to the collected work.  *)
(***************************************************************************)
Whole(w) ==
    DOMAIN w = {"known", "entities", "relationships", "unresolved", "diags", "refs", "roots",
                "limits"}

EntityIds(w) == {e.id : e \in w.entities}

(* v is w with more entities and records of the same artifacts, as long as *)
(* nothing is refused.                                                     *)
Extends(v, w, ids, kept, open) ==
    /\ Whole(v)
    /\ v.diags = {} => /\ w.diags = {}
                       /\ v.known = w.known \cup ids
                       /\ EntityIds(v) = EntityIds(w) \cup ids
                       /\ v.relationships = w.relationships \cup kept
                       /\ v.unresolved = w.unresolved \cup open
                       /\ v.refs = w.refs

LEMMA Noted ==
    ASSUME NEW w, Whole(w), NEW codes, NEW n, n = M10!Note(w, codes)
    PROVE  Extends(n, w, {}, {}, {}) /\ (n.diags = {} => codes = {})
<1>1. /\ n.relationships = w.relationships /\ n.unresolved = w.unresolved
      /\ n.known = w.known /\ n.entities = w.entities
      /\ n.diags = w.diags \cup codes /\ n.refs = w.refs
      /\ Whole(n)
  BY DEF Whole, M10!Note
<1>2. EntityIds(n) = EntityIds(w)
  BY <1>1, Zenon DEF EntityIds
<1> QED BY <1>1, <1>2 DEF Extends

LEMMA Collected ==
    ASSUME NEW w, Whole(w), NEW kept, NEW open, NEW c, c = M10!Collect(w, kept, open)
    PROVE  Extends(c, w, {}, kept, open)
<1>1. /\ c.relationships = w.relationships \cup kept
      /\ c.unresolved = w.unresolved \cup open
      /\ c.known = w.known /\ c.entities = w.entities
      /\ c.diags = w.diags /\ c.refs = w.refs
      /\ Whole(c)
  BY DEF Whole, M10!Collect
<1>2. EntityIds(c) = EntityIds(w)
  BY <1>1, Zenon DEF EntityIds
<1> QED BY <1>1, <1>2 DEF Extends

LEMMA NoCode ==
    ASSUME NEW S, NEW code, {code : x \in S} = {}
    PROVE  S = {}
<1>1. \A x \in S : code \in {code : y \in S}
  OBVIOUS
<1> QED BY <1>1, Zenon

LEMMA SourceIdMapped ==
    ASSUME NEW id, M10!MapSourceId(id) # NONE
    PROVE  M10!MapSourceId(id) \in Canonical /\ M10!Indexed(id) = M10!MapSourceId(id)
BY Zenon DEF M10!MapSourceId, M10!Indexed

LEMMA NoSourceCode ==
    ASSUME NEW x, M10!PartCodes(x) = {}
    PROVE  M10!MapSourceId(x.id) # NONE
BY DEF M10!PartCodes, M10!ExtensionCodes, M10!PropositionCodes, M10!EntityCodes

SourceIds(parts) == {M10!MapSourceId(parts[k].id) : k \in DOMAIN parts}

(* The parts have identities of their own, none of them known.             *)
Fresh(parts, known) ==
    \A k \in DOMAIN parts :
        LET id == M10!MapSourceId(parts[k].id)
        IN  /\ id # NONE /\ id \notin known
            /\ \A j \in DOMAIN parts : M10!MapSourceId(parts[j].id) = id => j = k

LEMMA Declaring ==
    ASSUME NEW w, Whole(w), NEW parts, DOMAIN parts \subseteq Nat, NEW ref,
           NEW d, d = M10!DeclareAll(w, parts, ref)
    PROVE  /\ Extends(d, w, SourceIds(parts), {}, {})
           /\ d.diags = {} => Fresh(parts, w.known)
<1> DEFINE e == M10!Enter(w, parts, ref)
           refused == UNION {M10!PartCodes(parts[k]) : k \in DOMAIN parts}
           again == {"duplicate_canonical_definition" : k \in M10!Taken(w, parts)}
<1>1. /\ e.known = w.known \cup {M10!PartId(parts, k) : k \in M10!Declared(parts)}
      /\ e.entities = w.entities \cup {[id |-> M10!PartId(parts, k), ref |-> ref] : k \in M10!Declared(parts)}
      /\ e.relationships = w.relationships /\ e.unresolved = w.unresolved
      /\ e.diags = w.diags /\ e.refs = w.refs
      /\ Whole(e)
  BY DEF Whole, M10!Enter
<1>2. d = M10!Note(e, refused \cup again)
  BY Zenon DEF M10!DeclareAll
<1> HIDE DEF e, refused, again
<1>3. Extends(d, e, {}, {}, {}) /\ (d.diags = {} => refused = {} /\ again = {})
  BY <1>1, <1>2, Noted
<1>4. Whole(d)
  BY <1>3 DEF Extends
<1>5. ASSUME d.diags = {}
      PROVE  /\ Fresh(parts, w.known)
             /\ e.known = w.known \cup SourceIds(parts)
             /\ EntityIds(e) = EntityIds(w) \cup SourceIds(parts)
  <2>1. refused = {} /\ again = {}
    BY <1>3, <1>5
  <2>2. \A k \in DOMAIN parts : M10!PartCodes(parts[k]) = {}
    BY <2>1 DEF refused
  <2>3. M10!Declared(parts) = DOMAIN parts
    BY <2>2 DEF M10!Declared
  <2>4. M10!Taken(w, parts) = {}
    <3>1. {"duplicate_canonical_definition" : k \in M10!Taken(w, parts)} = {}
      BY <2>1, Zenon DEF again
    <3> QED BY <3>1, NoCode
  <2>5. {M10!PartId(parts, k) : k \in M10!Declared(parts)} = SourceIds(parts)
    BY <2>3 DEF SourceIds, M10!PartId
  <2>6. \A k \in DOMAIN parts : M10!MapSourceId(parts[k].id) # NONE
    BY <2>2, NoSourceCode
  <2>7. \A k \in DOMAIN parts :
           /\ M10!MapSourceId(parts[k].id) \notin w.known
           /\ \A j \in DOMAIN parts :
                 j < k => M10!MapSourceId(parts[j].id) # M10!MapSourceId(parts[k].id)
    BY <2>3, <2>4 DEF M10!Taken, M10!PartId
  <2>8. Fresh(parts, w.known)
    <3>1. \A j, k \in DOMAIN parts : j < k \/ j = k \/ k < j
      OBVIOUS
    <3> QED BY <2>6, <2>7, <3>1 DEF Fresh
  <2>9. EntityIds(e) = EntityIds(w) \cup SourceIds(parts)
    <3> DEFINE Added(k) == [id |-> M10!PartId(parts, k), ref |-> ref]
               new == {Added(k) : k \in M10!Declared(parts)}
    <3>1. {x.id : x \in new} = {M10!PartId(parts, k) : k \in M10!Declared(parts)}
      <4>1. \A k : Added(k).id = M10!PartId(parts, k)
        OBVIOUS
      <4>2. new = {Added(k) : k \in M10!Declared(parts)}
        OBVIOUS
      <4> HIDE DEF Added, new
      <4> QED BY <4>1, <4>2
    <3>2. e.entities = w.entities \cup new
      BY <1>1
    <3> HIDE DEF new
    <3>3. {x.id : x \in e.entities} = {x.id : x \in w.entities} \cup {x.id : x \in new}
      BY <3>2
    <3> QED BY <2>5, <3>1, <3>3 DEF EntityIds
  <2> QED BY <1>1, <2>5, <2>8, <2>9
<1> QED BY <1>1, <1>3, <1>4, <1>5 DEF Extends

(***************************************************************************)
(* The references of one document, as relationships and as open items.     *)
(***************************************************************************)
ImplementedOf(doc, ref) ==
    {M10!Rel("implements", M10!MapSourceId(doc.id), M10!MapSourceId(doc.implements[k]), ref,
             <<"implements", k>>) : k \in DOMAIN doc.implements}

MembersOf(doc, ref, ks) == {M10!Member(doc, k, ref) : k \in ks}

Found(doc, known) == {k \in DOMAIN doc.components : doc.components[k].ref \in known}

EdgesOf(doc, ref, ks) == {M10!EdgeOf(doc, k, ref) : k \in ks}

CustomOf(doc, ref) ==
    {M10!Rel("custom", M10!MapSourceId(doc.relations[k].from), M10!MapSourceId(doc.relations[k].to), ref,
             <<"relations", k>>) : k \in DOMAIN doc.relations}

RelatedOf(doc, ref) ==
    {M10!Rel("related", doc.id, doc.related[k], ref, <<"related", k>>) :
        k \in {j \in DOMAIN doc.related : M10!Indexed(doc.related[j]) \notin M10!IdentityIndex}}

LEMMA ImplementsExtends ==
    ASSUME NEW w, Whole(w), NEW doc, NEW ref, NEW v, v = M10!Implements(w, doc, ref)
    PROVE  Extends(v, w, {}, ImplementedOf(doc, ref), {})
<1> DEFINE Target(k) == M10!MapSourceId(doc.implements[k])
           lost == {k \in DOMAIN doc.implements : Target(k) = NONE}
           kept == {M10!Rel("implements", M10!MapSourceId(doc.id), Target(k), ref, <<"implements", k>>) :
                       k \in DOMAIN doc.implements \ lost}
           c == M10!Collect(w, kept, {})
           codes == {M10!MapCode(doc.implements[k]) : k \in lost}
<1>1. v = M10!Note(c, codes)
  BY Zenon DEF M10!Implements
<1>2. codes = {} => kept = ImplementedOf(doc, ref)
  <2>1. codes = {} => lost = {}
    OBVIOUS
  <2>2. lost = {} => kept = ImplementedOf(doc, ref)
    BY DEF ImplementedOf
  <2> QED BY <2>1, <2>2
<1> HIDE DEF codes, kept
<1>3. Extends(c, w, {}, kept, {})
  BY Collected
<1> HIDE DEF c
<1>4. Whole(c)
  BY <1>3 DEF Extends
<1>5. Extends(v, c, {}, {}, {}) /\ (v.diags = {} => codes = {})
  BY <1>1, <1>4, Noted
<1> QED BY <1>2, <1>3, <1>5 DEF Extends

LEMMA MembersExtend ==
    ASSUME NEW w, Whole(w), NEW doc, NEW ref, NEW v, v = M10!TopologyMembers(w, doc, ref),
           doc.system = <<>> => DOMAIN doc.components = {}
    PROVE  Extends(v, w, {}, MembersOf(doc, ref, Found(doc, w.known)),
                   MembersOf(doc, ref, DOMAIN doc.components \ Found(doc, w.known)))
<1>1. CASE doc.system = <<>>
  <2>1. v = w
    BY <1>1 DEF M10!TopologyMembers
  <2>2. MembersOf(doc, ref, Found(doc, w.known)) = {}
    BY <1>1 DEF MembersOf, Found
  <2>3. MembersOf(doc, ref, DOMAIN doc.components \ Found(doc, w.known)) = {}
    BY <1>1 DEF MembersOf, Found
  <2> QED BY <2>1, <2>2, <2>3 DEF Extends
<1>2. CASE doc.system # <<>> /\ M10!MapSourceId(doc.system[1].id) = NONE
  <2>1. v = M10!Note(w, {M10!MapCode(doc.system[1].id)})
    BY <1>2 DEF M10!TopologyMembers
  <2>2. Extends(v, w, {}, {}, {}) /\ v.diags # {}
    BY <2>1, Noted
  <2> QED BY <2>2 DEF Extends
<1>3. CASE doc.system # <<>> /\ M10!MapSourceId(doc.system[1].id) # NONE
  <2>1. v = M10!Collect(w, MembersOf(doc, ref, Found(doc, w.known)),
                MembersOf(doc, ref, DOMAIN doc.components \ Found(doc, w.known)))
    BY <1>3, Zenon DEF M10!TopologyMembers, MembersOf, Found
  <2> QED BY <2>1, Collected
<1> QED BY <1>1, <1>2, <1>3

LEMMA EdgesExtend ==
    ASSUME NEW w, Whole(w), NEW doc, NEW ref, NEW v, v = M10!TopologyEdges(w, doc, ref)
    PROVE  Extends(v, w, {}, EdgesOf(doc, ref, DOMAIN doc.edges \ M10!Loose(doc)),
                   EdgesOf(doc, ref, M10!Loose(doc)))
<1>1. v = M10!Collect(w, EdgesOf(doc, ref, DOMAIN doc.edges \ M10!Loose(doc)),
              EdgesOf(doc, ref, M10!Loose(doc)))
  BY Zenon DEF M10!TopologyEdges, EdgesOf
<1> QED BY <1>1, Collected

LEMMA CustomExtends ==
    ASSUME NEW w, Whole(w), NEW doc, NEW ref, NEW v, v = M10!ExtensionRelationships(w, doc, ref)
    PROVE  Extends(v, w, {}, CustomOf(doc, ref), {})
<1> DEFINE sound == {k \in DOMAIN doc.relations : M10!RelationshipCodes(doc.relations[k]) = {}}
           kept == {M10!Rel("custom", M10!MapSourceId(doc.relations[k].from),
                            M10!MapSourceId(doc.relations[k].to), ref, <<"relations", k>>) : k \in sound}
           codes == UNION {M10!RelationshipCodes(doc.relations[k]) : k \in DOMAIN doc.relations}
           c == M10!Collect(w, kept, {})
<1>1. v = M10!Note(c, codes)
  BY Zenon DEF M10!ExtensionRelationships
<1>2. codes = {} => kept = CustomOf(doc, ref)
  <2>1. codes = {} => sound = DOMAIN doc.relations
    OBVIOUS
  <2> HIDE DEF sound
  <2> QED BY <2>1 DEF CustomOf
<1> HIDE DEF codes, kept
<1>3. Extends(c, w, {}, kept, {})
  BY Collected
<1> HIDE DEF c
<1>4. Whole(c)
  BY <1>3 DEF Extends
<1>5. Extends(v, c, {}, {}, {}) /\ (v.diags = {} => codes = {})
  BY <1>1, <1>4, Noted
<1> QED BY <1>2, <1>3, <1>5 DEF Extends

LEMMA RelatedExtends ==
    ASSUME NEW w, Whole(w), NEW doc, NEW ref, NEW v, v = M10!RelatedAdrs(w, doc, ref)
    PROVE  Extends(v, w, {}, {}, RelatedOf(doc, ref))
<1>1. v = M10!Collect(w, {}, RelatedOf(doc, ref))
  BY Zenon DEF M10!RelatedAdrs, RelatedOf
<1> QED BY <1>1, Collected

(***************************************************************************)
(* One document: its declarations, then its references.                    *)
(***************************************************************************)
Before(doc) == <<Root(doc)>> \o PartsBefore(doc)

LEMMA ConcatPositions ==
    ASSUME NEW S, NEW s \in Seq(S), NEW t \in Seq(S)
    PROVE  /\ DOMAIN s = 1 .. Len(s) /\ DOMAIN t = 1 .. Len(t) /\ Len(s) \in Nat /\ Len(t) \in Nat
           /\ DOMAIN (s \o t) = 1 .. (Len(s) + Len(t))
           /\ \A k \in DOMAIN s : k \in DOMAIN (s \o t) /\ (s \o t)[k] = s[k]
           /\ \A k \in DOMAIN t : Len(s) + k \in DOMAIN (s \o t) /\ (s \o t)[Len(s) + k] = t[k]
           /\ \A k \in DOMAIN (s \o t) :
                 \/ k \in DOMAIN s
                 \/ k - Len(s) \in DOMAIN t /\ (s \o t)[k] = t[k - Len(s)]
OBVIOUS

LEMMA DeclarationsTyped ==
    ASSUME NEW doc \in Document
    PROVE  \E S : /\ Before(doc) \in Seq(S) /\ PartsAfter(doc) \in Seq(S)
                  /\ Declarations(doc) = Before(doc) \o PartsAfter(doc)
                  /\ Declarations(doc)[1].id = doc.id /\ 1 \in DOMAIN Declarations(doc)
                  /\ 1 \in DOMAIN Before(doc) /\ Before(doc)[1].id = doc.id
                  /\ doc.system # <<>> => \E k \in DOMAIN Before(doc) : Before(doc)[k] = doc.system[1]
<1> DEFINE S == Fragment \cup {Root(doc)}
           root == <<Root(doc)>>
<1>1. /\ doc.system \in Seq(Fragment) /\ doc.specifications \in Seq(Fragment)
      /\ doc.children \in Seq(Fragment) /\ doc.propositions \in Seq(Fragment)
  BY DEF Document
<1>2. Fragment \subseteq S
  OBVIOUS
<1> HIDE DEF S
<1>3. /\ doc.system \in Seq(S) /\ doc.specifications \in Seq(S)
      /\ doc.children \in Seq(S) /\ doc.propositions \in Seq(S)
  BY <1>1, <1>2
<1>4. root \in Seq(S) /\ Len(root) = 1 /\ root[1] = Root(doc)
  BY DEF S
<1> HIDE DEF root
<1>5. PartsBefore(doc) \in Seq(S) /\ PartsAfter(doc) \in Seq(S)
  BY <1>3 DEF PartsBefore, PartsAfter
<1>6. Before(doc) = root \o PartsBefore(doc)
  BY DEF Before, root
<1>7. Before(doc) \in Seq(S) /\ Len(Before(doc)) = 1 + Len(PartsBefore(doc)) /\ Before(doc)[1] = Root(doc)
  <2>1. /\ Before(doc) \in Seq(S) /\ 1 \in DOMAIN root
        /\ DOMAIN Before(doc) = 1 .. (1 + Len(PartsBefore(doc))) /\ Len(PartsBefore(doc)) \in Nat
    <3>1. root \in Seq(S) /\ PartsBefore(doc) \in Seq(S)
      BY <1>4, <1>5
    <3>2. root \o PartsBefore(doc) \in Seq(S)
      BY <3>1
    <3>3. /\ DOMAIN root = 1 .. Len(root)
          /\ DOMAIN (root \o PartsBefore(doc)) = 1 .. (Len(root) + Len(PartsBefore(doc)))
          /\ Len(PartsBefore(doc)) \in Nat
      BY <3>1
    <3> QED BY <1>4, <1>6, <3>2, <3>3
  <2>2. Before(doc)[1] = root[1]
    BY <1>4, <1>5, <1>6, <2>1, ConcatPositions
  <2>3. Len(Before(doc)) = 1 + Len(PartsBefore(doc))
    BY <2>1
  <2> QED BY <1>4, <2>1, <2>2, <2>3
<1>8. Declarations(doc) = Before(doc) \o PartsAfter(doc)
  BY Zenon DEF Declarations, Before
<1>9. Declarations(doc) \in Seq(S) /\ Declarations(doc)[1] = Root(doc) /\ 1 \in DOMAIN Declarations(doc)
  BY <1>5, <1>7, <1>8
<1>10. Root(doc).id = doc.id
  BY DEF Root
<1>11. ASSUME doc.system # <<>> PROVE \E k \in DOMAIN Before(doc) : Before(doc)[k] = doc.system[1]
  <2>1. 1 \in DOMAIN doc.system /\ PartsBefore(doc)[1] = doc.system[1] /\ Len(PartsBefore(doc)) >= 1
    <3>1. 1 \in DOMAIN doc.system
      BY <1>3, <1>11
    <3>2. /\ 1 \in DOMAIN PartsBefore(doc) /\ PartsBefore(doc)[1] = doc.system[1]
      <4> DEFINE s == doc.system
                 t == doc.specifications
      <4>1. s \in Seq(S) /\ t \in Seq(S) /\ 1 \in DOMAIN s /\ PartsBefore(doc) = s \o t
        BY <1>3, <3>1 DEF PartsBefore
      <4> HIDE DEF s, t
      <4>2. 1 \in DOMAIN (s \o t) /\ (s \o t)[1] = s[1]
        BY <4>1
      <4> QED BY <4>1, <4>2 DEF s
    <3> QED BY <1>5, <3>1, <3>2
  <2>2. 2 \in DOMAIN Before(doc) /\ Before(doc)[2] = PartsBefore(doc)[1]
    BY <1>4, <1>5, <1>6, <1>7, <2>1
  <2> QED BY <2>1, <2>2
<1> QED BY <1>5, <1>7, <1>8, <1>9, <1>10, <1>11

LEMMA FreshTogether ==
    ASSUME NEW S, NEW s \in Seq(S), NEW t \in Seq(S), NEW known,
           Fresh(s, known), Fresh(t, known \cup SourceIds(s))
    PROVE  /\ Fresh(s \o t, known)
           /\ SourceIds(s \o t) = SourceIds(s) \cup SourceIds(t)
<1> DEFINE d == s \o t
           Id(x) == M10!MapSourceId(x.id)
<1>1. /\ DOMAIN s = 1 .. Len(s) /\ DOMAIN t = 1 .. Len(t) /\ Len(s) \in Nat /\ Len(t) \in Nat
      /\ DOMAIN d = 1 .. (Len(s) + Len(t))
      /\ \A k \in DOMAIN s : k \in DOMAIN d /\ d[k] = s[k]
      /\ \A k \in DOMAIN t : Len(s) + k \in DOMAIN d /\ d[Len(s) + k] = t[k]
      /\ \A k \in DOMAIN d : k \in DOMAIN s \/ (k - Len(s) \in DOMAIN t /\ d[k] = t[k - Len(s)])
  BY ConcatPositions
<1> HIDE DEF d
<1>2. \A k \in DOMAIN s : /\ Id(s[k]) # NONE /\ Id(s[k]) \notin known
                          /\ \A j \in DOMAIN s : Id(s[j]) = Id(s[k]) => j = k
  BY DEF Fresh
<1>3. \A k \in DOMAIN t : /\ Id(t[k]) # NONE /\ Id(t[k]) \notin known
                          /\ \A j \in DOMAIN t : Id(t[j]) = Id(t[k]) => j = k
                          /\ \A j \in DOMAIN s : Id(s[j]) # Id(t[k])
  BY DEF Fresh, SourceIds
<1> HIDE DEF Id
<1>4. ASSUME NEW k \in DOMAIN d
      PROVE  /\ Id(d[k]) # NONE /\ Id(d[k]) \notin known
             /\ \A j \in DOMAIN d : Id(d[j]) = Id(d[k]) => j = k
  <2>1. CASE k \in DOMAIN s
    BY <1>1, <1>2, <1>3, <2>1
  <2>2. CASE k - Len(s) \in DOMAIN t /\ d[k] = t[k - Len(s)]
    <3>1. ASSUME NEW j \in DOMAIN d, Id(d[j]) = Id(d[k]) PROVE j = k
      <4>1. j \notin DOMAIN s
        BY <1>1, <1>3, <2>2, <3>1
      <4>2. j - Len(s) \in DOMAIN t /\ d[j] = t[j - Len(s)]
        BY <1>1, <4>1
      <4>3. j - Len(s) = k - Len(s)
        BY <1>3, <2>2, <3>1, <4>2
      <4> QED BY <1>1, <4>3
    <3> QED BY <1>3, <2>2, <3>1
  <2> QED BY <1>1, <2>1, <2>2
<1>5. Fresh(d, known)
  BY <1>4 DEF Fresh, Id
<1>6. \A k \in DOMAIN d : \/ \E j \in DOMAIN s : d[k] = s[j]
                          \/ \E j \in DOMAIN t : d[k] = t[j]
  BY <1>1
<1>7. SourceIds(d) = SourceIds(s) \cup SourceIds(t)
  BY <1>1, <1>6 DEF SourceIds
<1> QED BY <1>5, <1>7 DEF d

LEMMA AdmitKeeps ==
    ASSUME NEW w, Whole(w), NEW a, NEW v, v = M10!Admit(w, a)
    PROVE  /\ Whole(v)
           /\ v.diags = {} => w.diags = {} /\ a.ref \notin w.refs
           /\ v.refs = w.refs \cup {a.ref}
           /\ v.known = w.known /\ EntityIds(v) = EntityIds(w)
           /\ v.relationships = w.relationships /\ v.unresolved = w.unresolved
<1> DEFINE s == M10!Seen(w, a)
           codes == M10!UnmappedCodes(a.document)
           n == M10!Note(s, codes)
<1>1. /\ Whole(s) /\ s.refs = w.refs \cup {a.ref}
      /\ s.known = w.known /\ s.entities = w.entities
      /\ s.relationships = w.relationships /\ s.unresolved = w.unresolved
      /\ s.diags = IF a.ref \in w.refs \/ a.document.id \in w.roots
                   THEN w.diags \cup {"duplicate_source_identity"} ELSE w.diags
  BY DEF Whole, M10!Seen
<1>2. v = [n EXCEPT !.limits = IF a.binding.version = "1.5" THEN n.limits \cup {a.binding.schema} ELSE n.limits]
  BY DEF M10!Admit
<1> HIDE DEF s, codes
<1>3. /\ Whole(n) /\ n.refs = s.refs /\ n.known = s.known /\ n.entities = s.entities
      /\ n.relationships = s.relationships /\ n.unresolved = s.unresolved
      /\ n.diags = s.diags \cup codes
  BY <1>1 DEF Whole, M10!Note
<1> HIDE DEF n
<1>4. /\ Whole(v) /\ v.refs = n.refs /\ v.known = n.known /\ v.entities = n.entities
      /\ v.relationships = n.relationships /\ v.unresolved = n.unresolved
      /\ v.diags = n.diags
  BY <1>2, <1>3 DEF Whole
<1>5. EntityIds(v) = EntityIds(w)
  BY <1>1, <1>3, <1>4, Zenon DEF EntityIds
<1> QED BY <1>1, <1>3, <1>4, <1>5

KeptOf(doc, ref, known) ==
    ImplementedOf(doc, ref) \cup MembersOf(doc, ref, Found(doc, known))
        \cup EdgesOf(doc, ref, DOMAIN doc.edges \ M10!Loose(doc)) \cup CustomOf(doc, ref)

OpenOf(doc, ref, known) ==
    MembersOf(doc, ref, DOMAIN doc.components \ Found(doc, known))
        \cup EdgesOf(doc, ref, M10!Loose(doc)) \cup RelatedOf(doc, ref)

(* Topology members are looked up when these are known.                    *)
Midway(doc, known) == known \cup SourceIds(Before(doc))

LEMMA DocumentExtends ==
    ASSUME NEW w, Whole(w), NEW a, a.document \in Document,
           a.document.components # <<>> => a.document.system # <<>>,
           NEW v, v = M10!MaterializeDocument(w, a)
    PROVE  /\ Whole(v)
           /\ v.diags = {} =>
                LET doc == a.document
                    mid == Midway(doc, w.known)
                    ids == SourceIds(Declarations(doc))
                IN  /\ w.diags = {} /\ a.ref \notin w.refs /\ v.refs = w.refs \cup {a.ref}
                    /\ Fresh(Declarations(doc), w.known)
                    /\ v.known = w.known \cup ids
                    /\ EntityIds(v) = EntityIds(w) \cup ids
                    /\ v.relationships = w.relationships \cup KeptOf(doc, a.ref, mid)
                    /\ v.unresolved = w.unresolved \cup OpenOf(doc, a.ref, mid)
<1> DEFINE doc == a.document
           w1 == M10!Admit(w, a)
           w2 == M10!DeclareAll(w1, Before(doc), a.ref)
           w3 == M10!Implements(w2, doc, a.ref)
           w4 == M10!TopologyMembers(w3, doc, a.ref)
           w5 == M10!TopologyEdges(w4, doc, a.ref)
           w6 == M10!DeclareAll(w5, PartsAfter(doc), a.ref)
           w7 == M10!ExtensionRelationships(w6, doc, a.ref)
           mid == Midway(doc, w.known)
           ids == SourceIds(Declarations(doc))
<1>1. v = M10!RelatedAdrs(w7, doc, a.ref)
  <2>1. Before(doc) = <<M10!Root(doc)>> \o M10!PartsBefore(doc) /\ PartsAfter(doc) = M10!PartsAfter(doc)
    BY DEF Before, Root, PartsBefore, PartsAfter, M10!Root, M10!PartsBefore, M10!PartsAfter
  <2> QED BY <2>1, Zenon DEF M10!MaterializeDocument
<1>2. PICK S : /\ Before(doc) \in Seq(S) /\ PartsAfter(doc) \in Seq(S)
               /\ Declarations(doc) = Before(doc) \o PartsAfter(doc)
  BY DeclarationsTyped
<1>3. DOMAIN Before(doc) \subseteq Nat /\ DOMAIN PartsAfter(doc) \subseteq Nat
  BY <1>2
<1>4. doc.system = <<>> => DOMAIN doc.components = {}
  OBVIOUS
<1> HIDE DEF doc, mid, ids
<1>5. /\ Whole(w1)
      /\ w1.diags = {} => w.diags = {} /\ a.ref \notin w.refs
      /\ w1.refs = w.refs \cup {a.ref}
      /\ w1.known = w.known /\ EntityIds(w1) = EntityIds(w)
      /\ w1.relationships = w.relationships /\ w1.unresolved = w.unresolved
  BY AdmitKeeps
<1> HIDE DEF w1
<1>6. /\ Extends(w2, w1, SourceIds(Before(doc)), {}, {})
      /\ w2.diags = {} => Fresh(Before(doc), w1.known)
  BY <1>3, <1>5, Declaring
<1>7. Whole(w2)
  BY <1>6 DEF Extends
<1> HIDE DEF w2
<1>8. Extends(w3, w2, {}, ImplementedOf(doc, a.ref), {})
  BY <1>7, ImplementsExtends
<1>9. Whole(w3)
  BY <1>8 DEF Extends
<1> HIDE DEF w3
<1>10. Extends(w4, w3, {}, MembersOf(doc, a.ref, Found(doc, w3.known)),
               MembersOf(doc, a.ref, DOMAIN doc.components \ Found(doc, w3.known)))
  BY <1>4, <1>9, MembersExtend
<1>11. Whole(w4)
  BY <1>10 DEF Extends
<1> HIDE DEF w4
<1>12. Extends(w5, w4, {}, EdgesOf(doc, a.ref, DOMAIN doc.edges \ M10!Loose(doc)),
               EdgesOf(doc, a.ref, M10!Loose(doc)))
  BY <1>11, EdgesExtend
<1>13. Whole(w5)
  BY <1>12 DEF Extends
<1> HIDE DEF w5
<1>14. /\ Extends(w6, w5, SourceIds(PartsAfter(doc)), {}, {})
       /\ w6.diags = {} => Fresh(PartsAfter(doc), w5.known)
  BY <1>3, <1>13, Declaring
<1>15. Whole(w6)
  BY <1>14 DEF Extends
<1> HIDE DEF w6
<1>16. Extends(w7, w6, {}, CustomOf(doc, a.ref), {})
  BY <1>15, CustomExtends
<1>17. Whole(w7)
  BY <1>16 DEF Extends
<1> HIDE DEF w7
<1>18. Extends(v, w7, {}, {}, RelatedOf(doc, a.ref))
  BY <1>1, <1>17, RelatedExtends
<1>19. ASSUME v.diags = {}
       PROVE  /\ w.diags = {} /\ a.ref \notin w.refs /\ v.refs = w.refs \cup {a.ref}
              /\ Fresh(Declarations(doc), w.known)
              /\ v.known = w.known \cup ids
              /\ EntityIds(v) = EntityIds(w) \cup ids
              /\ v.relationships = w.relationships \cup KeptOf(doc, a.ref, mid)
              /\ v.unresolved = w.unresolved \cup OpenOf(doc, a.ref, mid)
  <2>1. /\ w7.diags = {} /\ w6.diags = {} /\ w5.diags = {} /\ w4.diags = {} /\ w3.diags = {}
        /\ w2.diags = {} /\ w1.diags = {}
    BY <1>6, <1>8, <1>10, <1>12, <1>14, <1>16, <1>18, <1>19 DEF Extends
  <2>2. w3.known = mid /\ w5.known = mid
    BY <1>5, <1>6, <1>8, <1>10, <1>12, <2>1 DEF Extends, mid, Midway
  <2>3. Fresh(Before(doc), w.known) /\ Fresh(PartsAfter(doc), w.known \cup SourceIds(Before(doc)))
    BY <1>5, <1>6, <1>14, <2>1, <2>2 DEF mid, Midway
  <2>4. /\ Fresh(Declarations(doc), w.known)
        /\ ids = SourceIds(Before(doc)) \cup SourceIds(PartsAfter(doc))
    BY <1>2, <2>3, FreshTogether DEF ids
  <2>5. v.known = w.known \cup ids /\ EntityIds(v) = EntityIds(w) \cup ids
    BY <1>5, <1>6, <1>8, <1>10, <1>12, <1>14, <1>16, <1>18, <1>19, <2>1, <2>4 DEF Extends
  <2>6. v.relationships = w.relationships \cup KeptOf(doc, a.ref, mid)
    BY <1>5, <1>6, <1>8, <1>10, <1>12, <1>14, <1>16, <1>18, <1>19, <2>1, <2>2 DEF Extends, KeptOf
  <2>7. v.unresolved = w.unresolved \cup OpenOf(doc, a.ref, mid)
    BY <1>5, <1>6, <1>8, <1>10, <1>12, <1>14, <1>16, <1>18, <1>19, <2>1, <2>2 DEF Extends, OpenOf
  <2>8. w.diags = {} /\ a.ref \notin w.refs /\ v.refs = w.refs \cup {a.ref}
    BY <1>5, <1>6, <1>8, <1>10, <1>12, <1>14, <1>16, <1>18, <1>19, <2>1 DEF Extends
  <2> QED BY <2>4, <2>5, <2>6, <2>7, <2>8
<1> QED BY <1>18, <1>19 DEF Extends, doc, mid, ids

(***************************************************************************)
(* The invariant of operation 1.0.  Until a code is noted, the work holds  *)
(* exactly what the documents at the positions read so far declare and     *)
(* refer to.                                                               *)
(***************************************************************************)
Doc(k) == request.artifacts[k].document

Ref(k) == request.artifacts[k].ref

SourceId(k, p) == M10!MapSourceId(Declarations(Doc(k))[p].id)

Positions(k) == DOMAIN Declarations(Doc(k))

EntitiesCollected(w, D) ==
    /\ w.known = UNION {SourceIds(Declarations(Doc(k))) : k \in D}
    /\ EntityIds(w) = w.known
    /\ \A k \in D : \A p \in Positions(k) : SourceId(k, p) # NONE
    /\ \A j, k \in D : \A p \in Positions(j), q \in Positions(k) :
          SourceId(j, p) = SourceId(k, q) => j = k /\ p = q

RefsCollected(w, D) ==
    /\ w.refs = {Ref(k) : k \in D}
    /\ \A j, k \in D : Ref(j) = Ref(k) => j = k
    /\ \A r \in w.relationships \cup w.unresolved : r.ref \in w.refs

At(records, ref, at) == {r \in records : r.ref = ref /\ r.at = at}

(* A reference has one relationship, or it is unresolved.                  *)
AccountedAt(w, ref, at) ==
    \/ (\E r : At(w.relationships, ref, at) = {r}) /\ At(w.unresolved, ref, at) = {}
    \/ At(w.relationships, ref, at) = {} /\ At(w.unresolved, ref, at) # {}

Accounted(w, D) ==
    \A k \in D : \A at \in Authored(Doc(k)) : AccountedAt(w, Ref(k), at)

(* Why an item is unresolved; what fails to be admitted joins them later.  *)
OpenSound(r) ==
    CASE r.at[1] = "components" -> r.to \notin EarlierIds(r)
      [] r.at[1] = "related" -> M10!Indexed(r.to) \notin M10!IdentityIndex
      [] OTHER -> NONE \in {r.from, r.to}

KeptSound(w, r) ==
    /\ r.at[1] # "related"
    /\ r.at[1] = "components" => {r.from, r.to} \subseteq w.known

Collected10(w, D) ==
    /\ EntitiesCollected(w, D)
    /\ RefsCollected(w, D)
    /\ Accounted(w, D)
    /\ \A r \in w.unresolved : OpenSound(r)
    /\ \A r \in w.relationships : KeptSound(w, r)

(* What is not admitted is unresolved as well.                             *)
LeftSound(w, r) ==
    \/ OpenSound(r)
    \/ r.at[1] \notin {"components", "related"} /\ ~ ({r.from, r.to} \subseteq w.known)

Settled(w) ==
    /\ EntitiesCollected(w, DOMAIN request.artifacts)
    /\ RefsCollected(w, DOMAIN request.artifacts)
    /\ Accounted(w, DOMAIN request.artifacts)
    /\ \A r \in w.relationships : {r.from, r.to} \subseteq w.known
    /\ \A r \in w.unresolved : LeftSound(w, r)

Sorted(left) ==
    \A k \in DOMAIN request.artifacts \ left : \A j \in left : Ref(k) <= Ref(j)

Inv10 ==
    Old =>
      /\ pc = "request" => work = M10!EmptyWork
      /\ pc = "artifacts" =>
            /\ Whole(work) /\ todo \subseteq DOMAIN request.artifacts
            /\ Sorted(todo)
            /\ work.diags = {} => Collected10(work, DOMAIN request.artifacts \ todo)
      /\ pc = "admit" /\ work.diags = {} => Settled(work)
      /\ Materialized => Settled(work) /\ result.model = M10!ModelOf(work)
      /\ Materialized => pc = "done"

(***************************************************************************)
(* A family of records: one for each index, at the place of its field.     *)
(***************************************************************************)
FamilyOf(F, K, field, ref) ==
    /\ \A r \in F : r.ref = ref /\ \E k \in K : r.at = <<field, k>>
    /\ \A k \in K : \E r \in F : At(F, ref, <<field, k>>) = {r}

LEMMA FamilyOfFunction ==
    ASSUME NEW K, NEW R, NEW field, NEW ref, NEW F, F = {R[k] : k \in K},
           \A k \in K : R[k].ref = ref /\ R[k].at = <<field, k>>
    PROVE  FamilyOf(F, K, field, ref)
<1>1. \A r \in F : r.ref = ref /\ \E k \in K : r.at = <<field, k>>
  OBVIOUS
<1>2. ASSUME NEW k \in K PROVE At(F, ref, <<field, k>>) = {R[k]} /\ R[k] \in F
  <2>1. ASSUME NEW r \in F, r.at = <<field, k>> PROVE r = R[k]
    <3>1. PICK j \in K : r = R[j]
      OBVIOUS
    <3>2. <<field, j>> = <<field, k>>
      BY <2>1, <3>1
    <3>3. j = k
      BY <3>2
    <3> QED BY <3>1, <3>3
  <2>2. R[k] \in F /\ R[k].ref = ref /\ R[k].at = <<field, k>>
    OBVIOUS
  <2> QED BY <2>1, <2>2 DEF At
<1>3. \A k \in K : \E r \in F : At(F, ref, <<field, k>>) = {r}
  BY <1>2
<1> QED BY <1>1, <1>3, Zenon DEF FamilyOf

LEMMA OutsideFamily ==
    ASSUME NEW F, NEW K, NEW field, NEW ref, FamilyOf(F, K, field, ref), NEW other, NEW i,
           other # field \/ i \notin K
    PROVE  At(F, ref, <<other, i>>) = {}
<1>1. ASSUME NEW r \in F PROVE r.at # <<other, i>>
  <2>1. PICK k \in K : r.at = <<field, k>>
    BY DEF FamilyOf
  <2>2. <<field, k>> # <<other, i>>
    OBVIOUS
  <2> QED BY <2>1, <2>2
<1> QED BY <1>1 DEF At

LEMMA RelFields ==
    ASSUME NEW type, NEW from, NEW to, NEW ref, NEW at
    PROVE  /\ M10!Rel(type, from, to, ref, at).ref = ref
           /\ M10!Rel(type, from, to, ref, at).at = at
           /\ M10!Rel(type, from, to, ref, at).from = from
           /\ M10!Rel(type, from, to, ref, at).to = to
BY DEF M10!Rel

LEMMA ImplementedFamily ==
    ASSUME NEW doc, NEW ref
    PROVE  FamilyOf(ImplementedOf(doc, ref), DOMAIN doc.implements, "implements", ref)
<1> DEFINE K == DOMAIN doc.implements
           R == [k \in K |-> M10!Rel("implements", M10!MapSourceId(doc.id),
                                     M10!MapSourceId(doc.implements[k]), ref, <<"implements", k>>)]
<1>1. ImplementedOf(doc, ref) = {R[k] : k \in K}
  BY DEF ImplementedOf
<1>2. \A k \in K : R[k].ref = ref /\ R[k].at = <<"implements", k>>
  BY RelFields
<1> HIDE DEF R, K
<1>3. FamilyOf(ImplementedOf(doc, ref), K, "implements", ref)
  BY <1>1, <1>2, FamilyOfFunction
<1> QED BY <1>3 DEF K

LEMMA MembersFamily ==
    ASSUME NEW doc, NEW ref, NEW K
    PROVE  FamilyOf(MembersOf(doc, ref, K), K, "components", ref)
<1> DEFINE R == [k \in K |-> M10!Member(doc, k, ref)]
<1>1. MembersOf(doc, ref, K) = {R[k] : k \in K}
  BY DEF MembersOf
<1>2. \A k \in K : R[k].ref = ref /\ R[k].at = <<"components", k>>
  BY RelFields DEF M10!Member
<1> HIDE DEF R
<1> QED BY <1>1, <1>2, FamilyOfFunction

LEMMA EdgesFamily ==
    ASSUME NEW doc, NEW ref, NEW K
    PROVE  FamilyOf(EdgesOf(doc, ref, K), K, "edges", ref)
<1> DEFINE R == [k \in K |-> M10!EdgeOf(doc, k, ref)]
<1>1. EdgesOf(doc, ref, K) = {R[k] : k \in K}
  BY DEF EdgesOf
<1>2. \A k \in K : R[k].ref = ref /\ R[k].at = <<"edges", k>>
  BY RelFields DEF M10!EdgeOf
<1> HIDE DEF R
<1> QED BY <1>1, <1>2, FamilyOfFunction

LEMMA CustomFamily ==
    ASSUME NEW doc, NEW ref
    PROVE  FamilyOf(CustomOf(doc, ref), DOMAIN doc.relations, "relations", ref)
<1> DEFINE K == DOMAIN doc.relations
           R == [k \in K |-> M10!Rel("custom", M10!MapSourceId(doc.relations[k].from),
                                     M10!MapSourceId(doc.relations[k].to), ref, <<"relations", k>>)]
<1>1. CustomOf(doc, ref) = {R[k] : k \in K}
  BY DEF CustomOf
<1>2. \A k \in K : R[k].ref = ref /\ R[k].at = <<"relations", k>>
  BY RelFields
<1> HIDE DEF R, K
<1>3. FamilyOf(CustomOf(doc, ref), K, "relations", ref)
  BY <1>1, <1>2, FamilyOfFunction
<1> QED BY <1>3 DEF K

LEMMA RelatedFamily ==
    ASSUME NEW doc, NEW ref
    PROVE  \E K : FamilyOf(RelatedOf(doc, ref), K, "related", ref)
<1> DEFINE K == {j \in DOMAIN doc.related : M10!Indexed(doc.related[j]) \notin M10!IdentityIndex}
           R == [k \in K |-> M10!Rel("related", doc.id, doc.related[k], ref, <<"related", k>>)]
<1>1. RelatedOf(doc, ref) = {R[k] : k \in K}
  BY DEF RelatedOf
<1>2. \A k \in K : R[k].ref = ref /\ R[k].at = <<"related", k>>
  BY RelFields
<1> HIDE DEF R, K
<1>3. FamilyOf(RelatedOf(doc, ref), K, "related", ref)
  BY <1>1, <1>2, FamilyOfFunction
<1> QED BY <1>3

(* The references of a document are accounted for by what it adds.         *)
LEMMA DocumentAccounts ==
    ASSUME NEW doc, NEW ref, NEW known, Old, NEW at \in Authored(doc)
    PROVE  LET kept == At(KeptOf(doc, ref, known), ref, at)
               open == At(OpenOf(doc, ref, known), ref, at)
           IN  \/ (\E r : kept = {r}) /\ open = {}
               \/ kept = {} /\ open # {}
<1> DEFINE impl == ImplementedOf(doc, ref)
           found == Found(doc, known)
           lost == DOMAIN doc.components \ found
           mem == MembersOf(doc, ref, found)
           out == MembersOf(doc, ref, lost)
           loose == M10!Loose(doc)
           tied == DOMAIN doc.edges \ loose
           edge == EdgesOf(doc, ref, tied)
           cut == EdgesOf(doc, ref, loose)
           cust == CustomOf(doc, ref)
           rel == RelatedOf(doc, ref)
           kept == At(KeptOf(doc, ref, known), ref, at)
           open == At(OpenOf(doc, ref, known), ref, at)
           keptAll == ((impl \cup mem) \cup edge) \cup cust
           openAll == (out \cup cut) \cup rel
<1>0. KeptOf(doc, ref, known) = keptAll /\ OpenOf(doc, ref, known) = openAll
  BY Zenon DEF KeptOf, OpenOf
<1>3. PICK K : FamilyOf(rel, K, "related", ref)
  BY RelatedFamily
<1>4. /\ FamilyOf(impl, DOMAIN doc.implements, "implements", ref)
      /\ FamilyOf(mem, found, "components", ref) /\ FamilyOf(out, lost, "components", ref)
      /\ FamilyOf(edge, tied, "edges", ref) /\ FamilyOf(cut, loose, "edges", ref)
      /\ FamilyOf(cust, DOMAIN doc.relations, "relations", ref)
  BY ImplementedFamily, MembersFamily, EdgesFamily, CustomFamily
<1>5. loose \subseteq DOMAIN doc.edges /\ found \subseteq DOMAIN doc.components
  BY DEF M10!Loose, Found
<1> HIDE DEF impl, mem, out, edge, cut, cust, rel, found, loose
<1>1. kept = ((At(impl, ref, at) \cup At(mem, ref, at)) \cup At(edge, ref, at)) \cup At(cust, ref, at)
  BY <1>0 DEF At
<1>2. open = (At(out, ref, at) \cup At(cut, ref, at)) \cup At(rel, ref, at)
  BY <1>0 DEF At
<1> HIDE DEF kept, open
<1>6. CASE \E k \in DOMAIN doc.components : at = <<"components", k>>
  <2>1. PICK k \in DOMAIN doc.components : at = <<"components", k>>
    BY <1>6
  <2>2. /\ At(impl, ref, at) = {} /\ At(edge, ref, at) = {} /\ At(cust, ref, at) = {}
        /\ At(cut, ref, at) = {} /\ At(rel, ref, at) = {}
    BY <1>3, <1>4, <2>1, OutsideFamily
  <2>3. CASE k \in found
    <3>1. PICK r \in mem : At(mem, ref, at) = {r}
      BY <1>4, <2>1, <2>3 DEF FamilyOf
    <3>2. At(out, ref, at) = {}
      BY <1>4, <2>1, <2>3, OutsideFamily
    <3> QED BY <1>1, <1>2, <2>2, <3>1, <3>2 DEF kept, open
  <2>4. CASE k \notin found
    <3>1. k \in lost
      BY <2>4
    <3>2. PICK r \in out : At(out, ref, at) = {r}
      BY <1>4, <2>1, <3>1 DEF FamilyOf
    <3>3. At(mem, ref, at) = {}
      BY <1>4, <2>1, <2>4, OutsideFamily
    <3> QED BY <1>1, <1>2, <2>2, <3>2, <3>3 DEF kept, open
  <2> QED BY <2>3, <2>4
<1>7. CASE \E k \in DOMAIN doc.edges : at = <<"edges", k>>
  <2>1. PICK k \in DOMAIN doc.edges : at = <<"edges", k>>
    BY <1>7
  <2>2. /\ At(impl, ref, at) = {} /\ At(mem, ref, at) = {} /\ At(cust, ref, at) = {}
        /\ At(out, ref, at) = {} /\ At(rel, ref, at) = {}
    BY <1>3, <1>4, <2>1, OutsideFamily
  <2>3. CASE k \in loose
    <3>1. PICK r \in cut : At(cut, ref, at) = {r}
      BY <1>4, <2>1, <2>3 DEF FamilyOf
    <3>2. At(edge, ref, at) = {}
      BY <1>4, <2>1, <2>3, OutsideFamily
    <3> QED BY <1>1, <1>2, <2>2, <3>1, <3>2 DEF kept, open
  <2>4. CASE k \notin loose
    <3>1. k \in tied
      BY <2>4
    <3>2. PICK r \in edge : At(edge, ref, at) = {r}
      BY <1>4, <2>1, <3>1 DEF FamilyOf
    <3>3. At(cut, ref, at) = {}
      BY <1>4, <2>1, <2>4, OutsideFamily
    <3> QED BY <1>1, <1>2, <2>2, <3>2, <3>3 DEF kept, open
  <2> QED BY <2>3, <2>4
<1>8. CASE \E k \in DOMAIN doc.relations : at = <<"relations", k>>
  <2>1. PICK k \in DOMAIN doc.relations : at = <<"relations", k>>
    BY <1>8
  <2>2. /\ At(impl, ref, at) = {} /\ At(mem, ref, at) = {} /\ At(edge, ref, at) = {}
        /\ At(out, ref, at) = {} /\ At(cut, ref, at) = {} /\ At(rel, ref, at) = {}
    BY <1>3, <1>4, <2>1, OutsideFamily
  <2>3. PICK r \in cust : At(cust, ref, at) = {r}
    BY <1>4, <2>1 DEF FamilyOf
  <2> QED BY <1>1, <1>2, <2>2, <2>3 DEF kept, open
<1>9. CASE \E k \in DOMAIN doc.implements : at = <<"implements", k>>
  <2>1. PICK k \in DOMAIN doc.implements : at = <<"implements", k>>
    BY <1>9
  <2>2. /\ At(cust, ref, at) = {} /\ At(mem, ref, at) = {} /\ At(edge, ref, at) = {}
        /\ At(out, ref, at) = {} /\ At(cut, ref, at) = {} /\ At(rel, ref, at) = {}
    BY <1>3, <1>4, <2>1, OutsideFamily
  <2>3. PICK r \in impl : At(impl, ref, at) = {r}
    BY <1>4, <2>1 DEF FamilyOf
  <2> QED BY <1>1, <1>2, <2>2, <2>3 DEF kept, open
<1> QED BY <1>6, <1>7, <1>8, <1>9 DEF Authored

(***************************************************************************)
(* One more artifact keeps what has been collected.                        *)
(***************************************************************************)
LEMMA ArtifactTyped ==
    ASSUME request \in Requests, NEW k \in DOMAIN request.artifacts
    PROVE  /\ Doc(k) \in Document /\ Ref(k) \in Nat
           /\ Doc(k).valid /\ Doc(k).components # <<>> => Doc(k).system # <<>>
           /\ DOMAIN request.artifacts \subseteq Nat
           /\ request.artifacts[k] \in Basis
<1>1. request.artifacts[k] \in ItemsOf(request.artifacts)
  BY DEF ItemsOf
<1>2. request.artifacts \in Seq(ItemsOf(request.artifacts))
  BY RequestsAssumption
<1>3. DOMAIN request.artifacts \subseteq Nat
  BY <1>2
<1> QED BY <1>1, <1>3, RequestsAssumption DEF Doc, Ref, Basis

LEMMA EntitiesNext ==
    ASSUME NEW w, NEW v, NEW D, NEW k, k \notin D, EntitiesCollected(w, D),
           Fresh(Declarations(Doc(k)), w.known),
           v.known = w.known \cup SourceIds(Declarations(Doc(k))),
           EntityIds(v) = EntityIds(w) \cup SourceIds(Declarations(Doc(k)))
    PROVE  EntitiesCollected(v, D \cup {k})
<1>1. v.known = UNION {SourceIds(Declarations(Doc(j))) : j \in D \cup {k}}
  BY DEF EntitiesCollected
<1>2. EntityIds(v) = v.known
  BY DEF EntitiesCollected
<1>3. \A p \in Positions(k) :
         /\ SourceId(k, p) # NONE /\ SourceId(k, p) \notin w.known
         /\ \A q \in Positions(k) : SourceId(k, q) = SourceId(k, p) => q = p
  BY DEF Fresh, Positions, SourceId
<1>4. \A j \in D : \A p \in Positions(j) : SourceId(j, p) \in w.known
  BY DEF EntitiesCollected, SourceIds, Positions, SourceId
<1>5. /\ \A j \in D : \A p \in Positions(j) : SourceId(j, p) # NONE
      /\ \A i, j \in D : \A p \in Positions(i), q \in Positions(j) :
            SourceId(i, p) = SourceId(j, q) => i = j /\ p = q
  BY DEF EntitiesCollected
<1>6. \A j \in D \cup {k} : \A p \in Positions(j) : SourceId(j, p) # NONE
  BY <1>3, <1>5
<1>7. \A i, j \in D \cup {k} : \A p \in Positions(i), q \in Positions(j) :
         SourceId(i, p) = SourceId(j, q) => i = j /\ p = q
  BY <1>3, <1>4, <1>5
<1> QED BY <1>1, <1>2, <1>6, <1>7 DEF EntitiesCollected

LEMMA RefsNext ==
    ASSUME NEW w, NEW v, NEW D, NEW k, RefsCollected(w, D), Ref(k) \notin w.refs,
           v.refs = w.refs \cup {Ref(k)},
           \A r \in v.relationships \cup v.unresolved :
              r.ref = Ref(k) \/ r \in w.relationships \cup w.unresolved
    PROVE  RefsCollected(v, D \cup {k})
<1>1. v.refs = {Ref(j) : j \in D \cup {k}}
  BY DEF RefsCollected
<1>2. \A i, j \in D \cup {k} : Ref(i) = Ref(j) => i = j
  BY DEF RefsCollected
<1>3. \A r \in v.relationships \cup v.unresolved : r.ref \in v.refs
  BY DEF RefsCollected
<1> QED BY <1>1, <1>2, <1>3 DEF RefsCollected

LEMMA AccountedNext ==
    ASSUME NEW w, NEW v, NEW D, NEW k, RefsCollected(w, D), Ref(k) \notin w.refs, Accounted(w, D),
           NEW kept, NEW open,
           v.relationships = w.relationships \cup kept, v.unresolved = w.unresolved \cup open,
           \A r \in kept \cup open : r.ref = Ref(k),
           \A at \in Authored(Doc(k)) :
              \/ (\E r : At(kept, Ref(k), at) = {r}) /\ At(open, Ref(k), at) = {}
              \/ At(kept, Ref(k), at) = {} /\ At(open, Ref(k), at) # {}
    PROVE  Accounted(v, D \cup {k})
<1>1. ASSUME NEW j \in D, NEW at \in Authored(Doc(j))
      PROVE  AccountedAt(v, Ref(j), at)
  <2>1. Ref(j) # Ref(k)
    BY DEF RefsCollected
  <2>2. At(kept, Ref(j), at) = {} /\ At(open, Ref(j), at) = {}
    BY <2>1 DEF At
  <2>3. /\ At(v.relationships, Ref(j), at) = At(w.relationships, Ref(j), at)
        /\ At(v.unresolved, Ref(j), at) = At(w.unresolved, Ref(j), at)
    BY <2>2 DEF At
  <2>4. AccountedAt(w, Ref(j), at)
    BY DEF Accounted
  <2> QED BY <2>3, <2>4 DEF AccountedAt
<1>2. ASSUME NEW at \in Authored(Doc(k))
      PROVE  AccountedAt(v, Ref(k), at)
  <2>1. At(w.relationships, Ref(k), at) = {} /\ At(w.unresolved, Ref(k), at) = {}
    BY DEF At, RefsCollected
  <2>2. /\ At(v.relationships, Ref(k), at) = At(kept, Ref(k), at)
        /\ At(v.unresolved, Ref(k), at) = At(open, Ref(k), at)
    BY <2>1 DEF At
  <2> QED BY <2>2 DEF AccountedAt
<1> QED BY <1>1, <1>2 DEF Accounted

(* What earlier artifacts declare is known.                                *)
LEMMA EarlierKnown ==
    ASSUME request \in Requests, Old, NEW w, NEW D \in SUBSET DOMAIN request.artifacts,
           NEW k \in DOMAIN request.artifacts \ D,
           \A j \in DOMAIN request.artifacts \ D : Ref(k) <= Ref(j),
           EntitiesCollected(w, D), NEW r, r.ref = Ref(k)
    PROVE  EarlierIds(r) \subseteq w.known
<1> SUFFICES ASSUME NEW id \in EarlierIds(r) PROVE id \in w.known
  OBVIOUS
<1>1. PICK b \in Basis : b.ref < r.ref /\ \E x \in ItemsOf(Parts(b.document)) : id = Mapped(x.id)
  BY DEF EarlierIds
<1>2. PICK j \in DOMAIN request.artifacts : b = request.artifacts[j]
  BY DEF Basis, ItemsOf
<1>3. Ref(j) < Ref(k) /\ Ref(j) \in Nat /\ Ref(k) \in Nat
  BY <1>1, <1>2, ArtifactTyped DEF Ref
<1>4. j \in D
  BY <1>3
<1>5. PICK p \in Positions(j) : id = SourceId(j, p)
  BY <1>1, <1>2 DEF Parts, Mapped, Positions, SourceId, Doc, ItemsOf
<1>6. id \in SourceIds(Declarations(Doc(j)))
  BY <1>5 DEF SourceIds, Positions, SourceId
<1> QED BY <1>4, <1>6 DEF EntitiesCollected

LEMMA OpenOfSound ==
    ASSUME request \in Requests, Old, NEW w, NEW D \in SUBSET DOMAIN request.artifacts,
           NEW k \in DOMAIN request.artifacts \ D,
           \A j \in DOMAIN request.artifacts \ D : Ref(k) <= Ref(j),
           EntitiesCollected(w, D),
           NEW r \in OpenOf(Doc(k), Ref(k), Midway(Doc(k), w.known))
    PROVE  OpenSound(r) /\ r.ref = Ref(k)
<1> DEFINE doc == Doc(k)
           ref == Ref(k)
           mid == Midway(doc, w.known)
<1>1. CASE r \in MembersOf(doc, ref, DOMAIN doc.components \ Found(doc, mid))
  <2>1. PICK i \in DOMAIN doc.components \ Found(doc, mid) : r = M10!Member(doc, i, ref)
    BY <1>1 DEF MembersOf
  <2>2. r.ref = ref /\ r.at = <<"components", i>> /\ r.to = doc.components[i].ref
    BY <2>1, RelFields DEF M10!Member
  <2>3. r.to \notin mid
    BY <2>1, <2>2 DEF Found
  <2>4. EarlierIds(r) \subseteq w.known
    BY <2>2, EarlierKnown
  <2>5. r.at[1] = "components"
    BY <2>2
  <2> QED BY <2>2, <2>3, <2>4, <2>5 DEF OpenSound, Midway
<1>2. CASE r \in EdgesOf(doc, ref, M10!Loose(doc))
  <2>1. PICK i \in M10!Loose(doc) : r = M10!EdgeOf(doc, i, ref)
    BY <1>2 DEF EdgesOf
  <2>2. /\ r.ref = ref /\ r.at = <<"edges", i>>
        /\ r.from = M10!Handle(doc, doc.edges[i].from) /\ r.to = M10!Handle(doc, doc.edges[i].to)
    BY <2>1, RelFields DEF M10!EdgeOf
  <2>3. r.at[1] = "edges"
    BY <2>2
  <2>4. NONE \in {r.from, r.to}
    BY <2>1, <2>2 DEF M10!Loose
  <2> QED BY <2>2, <2>3, <2>4 DEF OpenSound
<1>3. CASE r \in RelatedOf(doc, ref)
  <2>1. PICK i \in DOMAIN doc.related : /\ M10!Indexed(doc.related[i]) \notin M10!IdentityIndex
                                        /\ r = M10!Rel("related", doc.id, doc.related[i], ref, <<"related", i>>)
    BY <1>3 DEF RelatedOf
  <2>2. r.ref = ref /\ r.at = <<"related", i>> /\ r.to = doc.related[i]
    BY <2>1, RelFields
  <2>3. r.at[1] = "related"
    BY <2>2
  <2> QED BY <2>1, <2>2, <2>3 DEF OpenSound
<1> QED BY <1>1, <1>2, <1>3 DEF OpenOf

LEMMA KeptOfSound ==
    ASSUME NEW known, NEW v, NEW doc \in Document, NEW ref,
           doc.components # <<>> => doc.system # <<>>,
           v.known = known \cup SourceIds(Declarations(doc))
    PROVE  \A r \in KeptOf(doc, ref, Midway(doc, known)) : KeptSound(v, r) /\ r.ref = ref
<1> SUFFICES ASSUME NEW r \in KeptOf(doc, ref, Midway(doc, known))
             PROVE  KeptSound(v, r) /\ r.ref = ref
  OBVIOUS
<1> DEFINE mid == Midway(doc, known)
<1>1. PICK S : /\ Before(doc) \in Seq(S) /\ PartsAfter(doc) \in Seq(S)
               /\ Declarations(doc) = Before(doc) \o PartsAfter(doc)
               /\ doc.system # <<>> => \E k \in DOMAIN Before(doc) : Before(doc)[k] = doc.system[1]
  BY DeclarationsTyped
<1>2. \A k \in DOMAIN Before(doc) : k \in DOMAIN Declarations(doc) /\ Declarations(doc)[k] = Before(doc)[k]
  BY <1>1, ConcatPositions
<1>3. mid \subseteq v.known
  BY <1>2 DEF Midway, SourceIds
<1>4. CASE r \in MembersOf(doc, ref, Found(doc, mid))
  <2>1. PICK i \in Found(doc, mid) : r = M10!Member(doc, i, ref)
    BY <1>4 DEF MembersOf
  <2>2. /\ r.ref = ref /\ r.at = <<"components", i>> /\ r.to = doc.components[i].ref
        /\ r.from = M10!MapSourceId(doc.system[1].id)
    BY <2>1, RelFields DEF M10!Member
  <2>3. r.to \in mid /\ i \in DOMAIN doc.components
    BY <2>1, <2>2 DEF Found
  <2>4. doc.system # <<>>
    BY <2>3
  <2>5. r.from \in SourceIds(Before(doc))
    BY <1>1, <2>2, <2>4 DEF SourceIds
  <2>6. {r.from, r.to} \subseteq v.known
    BY <1>3, <2>3, <2>5 DEF Midway
  <2>7. r.at[1] = "components"
    BY <2>2
  <2> QED BY <2>2, <2>6, <2>7 DEF KeptSound
<1>5. ASSUME NEW F, NEW K, NEW field, FamilyOf(F, K, field, ref), r \in F,
             field # "components", field # "related"
      PROVE  KeptSound(v, r) /\ r.ref = ref
  <2>1. PICK i \in K : r.at = <<field, i>>
    BY <1>5 DEF FamilyOf
  <2>2. r.at[1] = field
    BY <2>1
  <2> QED BY <1>5, <2>2 DEF FamilyOf, KeptSound
<1>6. CASE r \in ImplementedOf(doc, ref)
  BY <1>5, <1>6, ImplementedFamily
<1>7. CASE r \in EdgesOf(doc, ref, DOMAIN doc.edges \ M10!Loose(doc))
  BY <1>5, <1>7, EdgesFamily
<1>8. CASE r \in CustomOf(doc, ref)
  BY <1>5, <1>8, CustomFamily
<1> QED BY <1>4, <1>6, <1>7, <1>8 DEF KeptOf

(***************************************************************************)
(* The request is fixed, and so is all that is read from it.               *)
(***************************************************************************)
LEMMA SameIdentities ==
    ASSUME request' = request
    PROVE  /\ Old' = Old
           /\ \A id : M10!MapSourceId(id)' = M10!MapSourceId(id)
           /\ \A id : M10!Indexed(id)' = M10!Indexed(id)
           /\ M10!IdentityIndex' = M10!IdentityIndex
           /\ \A k : Doc(k)' = Doc(k) /\ Ref(k)' = Ref(k)
           /\ Basis' = Basis
<1>1. M10!IdentityMap' = M10!IdentityMap
  BY DEF M10!IdentityMap, M10!Sources, M10!Entries
<1>2. \A id : M10!MapSourceId(id)' = M10!MapSourceId(id)
  BY <1>1 DEF M10!MapSourceId
<1>3. \A id : M10!Indexed(id)' = M10!Indexed(id)
  BY <1>1 DEF M10!Indexed
<1>4. M10!IdentityIndex' = M10!IdentityIndex
  BY <1>3 DEF M10!IdentityIndex
<1> QED BY <1>2, <1>3, <1>4 DEF Old, Doc, Ref, Basis

LEMMA SameParts ==
    ASSUME request' = request
    PROVE  /\ \A doc : Parts(doc)' = Parts(doc) /\ Authored(doc)' = Authored(doc)
           /\ \A id : Mapped(id)' = Mapped(id)
           /\ \A parts : SourceIds(parts)' = SourceIds(parts)
           /\ \A k : Positions(k)' = Positions(k)
           /\ \A k, p : SourceId(k, p)' = SourceId(k, p)
           /\ \A r : EarlierIds(r)' = EarlierIds(r)
<1>1. \A doc : Parts(doc)' = Parts(doc)
  BY SameIdentities DEF Parts
<1>2. \A id : Mapped(id)' = Mapped(id)
  BY SameIdentities DEF Mapped
<1>3. \A parts : SourceIds(parts)' = SourceIds(parts)
  BY SameIdentities DEF SourceIds
<1>4. \A k : Positions(k)' = Positions(k)
  BY SameIdentities DEF Positions
<1>5. \A k, p : SourceId(k, p)' = SourceId(k, p)
  BY SameIdentities DEF SourceId
<1>6. \A r : EarlierIds(r)' = EarlierIds(r)
  BY <1>1, <1>2, SameIdentities DEF EarlierIds
<1>7. \A doc : Authored(doc)' = Authored(doc)
  BY SameIdentities DEF Authored
<1> QED BY <1>1, <1>2, <1>3, <1>4, <1>5, <1>6, <1>7

LEMMA SameCollected ==
    ASSUME request' = request
    PROVE  /\ \A w, D : Collected10(w, D)' <=> Collected10(w, D)
           /\ \A w : Settled(w)' <=> Settled(w)
           /\ \A left : Sorted(left)' <=> Sorted(left)
<1>1. \A w, D : EntitiesCollected(w, D)' <=> EntitiesCollected(w, D)
  BY SameIdentities, SameParts DEF EntitiesCollected, EntityIds
<1>2. \A w, D : RefsCollected(w, D)' <=> RefsCollected(w, D)
  BY SameIdentities DEF RefsCollected
<1>3. \A w, ref, at : AccountedAt(w, ref, at)' <=> AccountedAt(w, ref, at)
  BY DEF AccountedAt, At
<1>4. \A w, D : Accounted(w, D)' <=> Accounted(w, D)
  BY <1>3, SameIdentities, SameParts DEF Accounted
<1>5. \A r : OpenSound(r)' <=> OpenSound(r)
  BY SameIdentities, SameParts DEF OpenSound
<1>6. \A w, r : KeptSound(w, r)' <=> KeptSound(w, r)
  BY DEF KeptSound
<1>7. \A w, r : LeftSound(w, r)' <=> LeftSound(w, r)
  BY <1>5 DEF LeftSound
<1>8. \A w, D : Collected10(w, D)' <=> Collected10(w, D)
  BY <1>1, <1>2, <1>4, <1>5, <1>6 DEF Collected10
<1>9. DOMAIN request'.artifacts = DOMAIN request.artifacts
  OBVIOUS
<1>10. \A w : Settled(w)' <=> Settled(w)
  BY <1>1, <1>2, <1>4, <1>7, <1>9 DEF Settled
<1>11. \A left : Sorted(left)' <=> Sorted(left)
  BY <1>9, SameIdentities DEF Sorted
<1> QED BY <1>8, <1>10, <1>11

LEMMA ArtifactCollected ==
    ASSUME request \in Requests, Old, NEW w, Whole(w),
           NEW D \in SUBSET DOMAIN request.artifacts,
           NEW k \in DOMAIN request.artifacts \ D,
           \A j \in DOMAIN request.artifacts \ D : Ref(k) <= Ref(j),
           w.diags = {} => Collected10(w, D),
           NEW v, v = M10!MaterializeArtifact(w, request.artifacts[k])
    PROVE  Whole(v) /\ (v.diags = {} => Collected10(v, D \cup {k}))
<1> DEFINE a == request.artifacts[k]
           doc == Doc(k)
<1>0. a.document = doc /\ a.ref = Ref(k)
  BY DEF Doc, Ref
<1>1. CASE M10!QualificationCodes(a) # {}
  <2>1. v = M10!Note(w, M10!QualificationCodes(a))
    BY <1>1 DEF M10!MaterializeArtifact
  <2>2. Whole(v) /\ v.diags # {}
    BY <1>1, <2>1, Noted DEF Extends
  <2> QED BY <2>2
<1>2. CASE M10!QualificationCodes(a) = {} /\ M10!MapSourceId(doc.id) = NONE
  <2> DEFINE s == M10!Seen(w, a)
  <2>1. v = M10!Note(s, {M10!MapCode(doc.id)})
    BY <1>0, <1>2 DEF M10!MaterializeArtifact
  <2>2. Whole(s)
    BY DEF Whole, M10!Seen
  <2> HIDE DEF s
  <2>3. Whole(v) /\ v.diags # {}
    BY <2>1, <2>2, Noted DEF Extends
  <2> QED BY <2>3
<1>3. CASE M10!QualificationCodes(a) = {} /\ M10!MapSourceId(doc.id) # NONE
  <2>1. v = M10!MaterializeDocument(w, a)
    BY <1>0, <1>3 DEF M10!MaterializeArtifact
  <2>2. doc.valid
    BY <1>0, <1>3 DEF M10!QualificationCodes
  <2>3. doc \in Document /\ (doc.components # <<>> => doc.system # <<>>)
    BY <2>2, ArtifactTyped
  <2> DEFINE mid == Midway(doc, w.known)
             kept == KeptOf(doc, Ref(k), mid)
             open == OpenOf(doc, Ref(k), mid)
             ids == SourceIds(Declarations(doc))
  <2>4. /\ Whole(v)
        /\ v.diags = {} =>
              /\ w.diags = {} /\ Ref(k) \notin w.refs /\ v.refs = w.refs \cup {Ref(k)}
              /\ Fresh(Declarations(doc), w.known)
              /\ v.known = w.known \cup ids
              /\ EntityIds(v) = EntityIds(w) \cup ids
              /\ v.relationships = w.relationships \cup kept
              /\ v.unresolved = w.unresolved \cup open
    <3>1. a.document \in Document /\ (a.document.components # <<>> => a.document.system # <<>>)
      BY <1>0, <2>3
    <3> QED BY <1>0, <2>1, <3>1, DocumentExtends
  <2>5. ASSUME v.diags = {} PROVE Collected10(v, D \cup {k})
    <3>1. Collected10(w, D)
      BY <2>4, <2>5
    <3>2. EntitiesCollected(w, D) /\ RefsCollected(w, D) /\ Accounted(w, D)
      BY <3>1 DEF Collected10
    <3>3. /\ Ref(k) \notin w.refs /\ v.refs = w.refs \cup {Ref(k)}
          /\ Fresh(Declarations(doc), w.known)
          /\ v.known = w.known \cup ids
          /\ EntityIds(v) = EntityIds(w) \cup ids
          /\ v.relationships = w.relationships \cup kept
          /\ v.unresolved = w.unresolved \cup open
      BY <2>4, <2>5
    <3>4. \A r \in open : OpenSound(r) /\ r.ref = Ref(k)
      BY <3>2, OpenOfSound
    <3>5. \A r \in kept : KeptSound(v, r) /\ r.ref = Ref(k)
      <4>1. v.known = w.known \cup SourceIds(Declarations(doc))
        BY <3>3
      <4> HIDE DEF doc
      <4>2. \A r \in KeptOf(doc, Ref(k), Midway(doc, w.known)) : KeptSound(v, r) /\ r.ref = Ref(k)
        <5>1. doc \in Document /\ (doc.components # <<>> => doc.system # <<>>)
          BY <2>3
        <5> QED BY <4>1, <5>1, KeptOfSound
      <4> QED BY <4>2
    <3>6. \A at \in Authored(doc) :
             \/ (\E r : At(kept, Ref(k), at) = {r}) /\ At(open, Ref(k), at) = {}
             \/ At(kept, Ref(k), at) = {} /\ At(open, Ref(k), at) # {}
      BY DocumentAccounts
    <3> HIDE DEF kept, open, ids
    <3>7. EntitiesCollected(v, D \cup {k})
      BY <3>2, <3>3, EntitiesNext DEF ids
    <3>8. RefsCollected(v, D \cup {k})
      <4>1. \A r \in kept \cup open : r.ref = Ref(k)
        BY <3>4, <3>5
      <4>2. /\ Ref(k) \notin w.refs /\ v.refs = w.refs \cup {Ref(k)}
            /\ \A r \in v.relationships \cup v.unresolved :
                  r.ref = Ref(k) \/ r \in w.relationships \cup w.unresolved
        BY <3>3, <4>1
      <4>3. RefsCollected(w, D)
        BY <3>2
      <4> QED BY <4>1, <4>2, <4>3, RefsNext
    <3>9. Accounted(v, D \cup {k})
      <4>1. \A r \in kept \cup open : r.ref = Ref(k)
        BY <3>4, <3>5
      <4>2. /\ Ref(k) \notin w.refs
            /\ v.relationships = w.relationships \cup kept
            /\ v.unresolved = w.unresolved \cup open
        BY <3>3
      <4>3. RefsCollected(w, D) /\ Accounted(w, D)
        BY <3>2
      <4>4. \A at \in Authored(Doc(k)) :
               \/ (\E r : At(kept, Ref(k), at) = {r}) /\ At(open, Ref(k), at) = {}
               \/ At(kept, Ref(k), at) = {} /\ At(open, Ref(k), at) # {}
        BY <3>6
      <4> QED BY <4>1, <4>2, <4>3, <4>4, AccountedNext
    <3>10. \A r \in v.unresolved : OpenSound(r)
      BY <3>1, <3>3, <3>4 DEF Collected10
    <3>11. \A r \in v.relationships : KeptSound(v, r)
      <4>1. \A r \in w.relationships : KeptSound(w, r)
        BY <3>1 DEF Collected10
      <4>2. \A r \in w.relationships : KeptSound(v, r)
        BY <3>3, <4>1 DEF KeptSound
      <4> QED BY <3>3, <3>5, <4>2
    <3> QED BY <3>7, <3>8, <3>9, <3>10, <3>11 DEF Collected10
  <2> QED BY <2>4, <2>5
<1> QED BY <1>1, <1>2, <1>3

LEMMA NothingCollected ==
    ASSUME NEW w, w.known = {}, w.entities = {}, w.relationships = {}, w.unresolved = {}, w.refs = {}
    PROVE  Collected10(w, {})
<1>1. EntitiesCollected(w, {})
  BY DEF EntitiesCollected, EntityIds
<1>2. RefsCollected(w, {})
  BY DEF RefsCollected
<1>3. Accounted(w, {})
  BY DEF Accounted
<1> QED BY <1>1, <1>2, <1>3 DEF Collected10

(* What is not admitted joins the unresolved items.                        *)
LEMMA AdmissionSettles ==
    ASSUME NEW w, Collected10(w, DOMAIN request.artifacts), NEW v, NEW admitted,
           admitted = {r \in w.relationships : {r.from, r.to} \subseteq w.known},
           v.known = w.known, v.entities = w.entities, v.refs = w.refs,
           v.relationships = admitted,
           v.unresolved = w.unresolved \cup (w.relationships \ admitted)
    PROVE  Settled(v)
<1> DEFINE D == DOMAIN request.artifacts
<1>1. EntitiesCollected(v, D)
  <2>1. EntityIds(v) = EntityIds(w)
    BY Zenon DEF EntityIds
  <2>2. EntitiesCollected(w, D)
    BY DEF Collected10
  <2> QED BY <2>1, <2>2 DEF EntitiesCollected
<1>2. RefsCollected(v, D)
  <2>1. RefsCollected(w, D)
    BY DEF Collected10
  <2>2. v.relationships \cup v.unresolved \subseteq w.relationships \cup w.unresolved
    OBVIOUS
  <2> QED BY <2>1, <2>2 DEF RefsCollected
<1>3. ASSUME NEW k \in D, NEW at \in Authored(Doc(k)) PROVE AccountedAt(v, Ref(k), at)
  <2>1. AccountedAt(w, Ref(k), at)
    BY DEF Collected10, Accounted
  <2>2. /\ At(v.relationships, Ref(k), at) = At(w.relationships, Ref(k), at) \cap admitted
        /\ At(v.unresolved, Ref(k), at) =
              At(w.unresolved, Ref(k), at) \cup (At(w.relationships, Ref(k), at) \ admitted)
    BY DEF At
  <2>3. CASE (\E r : At(w.relationships, Ref(k), at) = {r}) /\ At(w.unresolved, Ref(k), at) = {}
    <3>1. PICK r : At(w.relationships, Ref(k), at) = {r}
      BY <2>3
    <3>2. CASE r \in admitted
      <4>1. At(v.relationships, Ref(k), at) = {r} /\ At(v.unresolved, Ref(k), at) = {}
        BY <2>2, <2>3, <3>1, <3>2
      <4> QED BY <4>1 DEF AccountedAt
    <3>3. CASE r \notin admitted
      <4>1. At(v.relationships, Ref(k), at) = {} /\ At(v.unresolved, Ref(k), at) = {r}
        BY <2>2, <2>3, <3>1, <3>3
      <4> QED BY <4>1 DEF AccountedAt
    <3> QED BY <3>2, <3>3
  <2>4. CASE At(w.relationships, Ref(k), at) = {} /\ At(w.unresolved, Ref(k), at) # {}
    BY <2>2, <2>4 DEF AccountedAt
  <2> QED BY <2>1, <2>3, <2>4 DEF AccountedAt
<1>4. Accounted(v, D)
  BY <1>3 DEF Accounted
<1>5. \A r \in v.relationships : {r.from, r.to} \subseteq v.known
  OBVIOUS
<1>6. \A r \in v.unresolved : LeftSound(v, r)
  BY DEF Collected10, LeftSound, KeptSound
<1> QED BY <1>1, <1>2, <1>4, <1>5, <1>6 DEF Settled

(***************************************************************************)
(* Operation 1.0 keeps its invariant.                                      *)
(***************************************************************************)
LEMMA InitInv10 == M10!Init => Inv10
<1> SUFFICES ASSUME M10!Init PROVE Inv10
  OBVIOUS
<1>1. pc = "request" /\ work = M10!EmptyWork /\ result = M10!Pending
  BY DEF M10!Init
<1>2. ~ Materialized
  BY <1>1 DEF Materialized, M10!Pending
<1> QED BY <1>1, <1>2 DEF Inv10

LEMMA RefuseStep10 == ASSUME Inv10, M10!Refuse PROVE Inv10'
<1>1. request' = request /\ pc' = "done" /\ result' = M10!RequestRefusal
  BY DEF M10!Refuse
<1>2. ~ Materialized'
  <2>1. M10!RequestRefusal.outcome \in {"Rejected", "Unavailable"}
    BY DEF M10!RequestRefusal, M10!Failed
  <2> QED BY <1>1, <2>1 DEF Materialized
<1> QED BY <1>1, <1>2 DEF Inv10

LEMMA BeginStep10 == ASSUME Inv10, M10!Begin PROVE Inv10'
<1> SUFFICES ASSUME Old' PROVE Inv10'
  BY DEF Inv10
<1>1. /\ request' = request /\ pc' = "artifacts" /\ todo' = DOMAIN request.artifacts
      /\ result' = result /\ pc = "request"
  BY DEF M10!Begin
<1>2. Old /\ work = M10!EmptyWork /\ ~ Materialized
  BY <1>1, SameIdentities DEF Inv10
<1>3. PICK codes : work' = M10!Note(work, codes)
  BY DEF M10!Begin
<1>4. /\ Whole(work) /\ work.known = {} /\ work.entities = {} /\ work.relationships = {}
      /\ work.unresolved = {} /\ work.refs = {}
  BY <1>2 DEF M10!EmptyWork, Whole
<1>5. /\ Whole(work') /\ work'.known = {} /\ work'.entities = {} /\ work'.relationships = {}
      /\ work'.unresolved = {} /\ work'.refs = {}
  BY <1>3, <1>4 DEF M10!Note, Whole
<1>6. Collected10(work', {}) /\ DOMAIN request'.artifacts \ todo' = {}
  BY <1>1, <1>5, NothingCollected
<1>7. Collected10(work, DOMAIN request.artifacts \ todo)'
  BY <1>1, <1>6, SameCollected
<1>8. Sorted(todo')
  BY <1>1 DEF Sorted
<1>9. Sorted(todo)'
  BY <1>1, <1>8, SameCollected
<1>10. Whole(work)'
  BY <1>5 DEF Whole
<1>11. ~ Materialized'
  BY <1>1, <1>2 DEF Materialized
<1>12. (todo \subseteq DOMAIN request.artifacts)'
  BY <1>1
<1> QED BY <1>1, <1>7, <1>9, <1>10, <1>11, <1>12 DEF Inv10

LEMMA ArtifactStep10 == ASSUME request \in Requests, Inv10, M10!NextArtifact PROVE Inv10'
<1> SUFFICES ASSUME Old' PROVE Inv10'
  BY DEF Inv10
<1>1. pc = "artifacts" /\ UNCHANGED <<request, pc, result>>
  BY DEF M10!NextArtifact
<1>2. Old
  BY <1>1, SameIdentities
<1>3. /\ Whole(work) /\ todo \subseteq DOMAIN request.artifacts /\ Sorted(todo)
      /\ work.diags = {} => Collected10(work, DOMAIN request.artifacts \ todo)
      /\ ~ Materialized
  BY <1>1, <1>2 DEF Inv10
<1>4. PICK k \in todo : /\ M10!First(k)
                        /\ work' = M10!MaterializeArtifact(work, request.artifacts[k])
                        /\ todo' = todo \ {k}
  BY DEF M10!NextArtifact
<1>5. \A j \in todo : Ref(k) <= Ref(j)
  <2>1. \A j \in todo : Ref(k) < Ref(j) \/ Ref(k) = Ref(j)
    BY <1>4 DEF M10!First, Ref
  <2>2. \A j \in todo : Ref(j) \in Nat
    BY <1>3, ArtifactTyped
  <2> QED BY <1>4, <2>1, <2>2
<1> DEFINE D == DOMAIN request.artifacts \ todo
<1>6. D \in SUBSET DOMAIN request.artifacts /\ DOMAIN request.artifacts \ D = todo
  BY <1>3
<1>7. Whole(work') /\ (work'.diags = {} => Collected10(work', D \cup {k}))
  <2>1. k \in DOMAIN request.artifacts \ D /\ \A j \in DOMAIN request.artifacts \ D : Ref(k) <= Ref(j)
    BY <1>5, <1>6
  <2> HIDE DEF D
  <2>2. work.diags = {} => Collected10(work, D)
    BY <1>3 DEF D
  <2> QED BY <1>2, <1>3, <1>4, <1>6, <2>1, <2>2, ArtifactCollected
<1>8. DOMAIN request.artifacts \ todo' = D \cup {k}
  BY <1>3, <1>4
<1>9. work'.diags = {} => Collected10(work, DOMAIN request.artifacts \ todo)'
  BY <1>1, <1>7, <1>8, SameCollected
<1>10. Sorted(todo')
  <2> SUFFICES ASSUME NEW i \in DOMAIN request.artifacts \ todo', NEW j \in todo'
               PROVE  Ref(i) <= Ref(j)
    BY DEF Sorted
  <2>1. CASE i = k
    BY <1>4, <1>5, <2>1
  <2>2. CASE i # k
    BY <1>3, <1>4, <2>2 DEF Sorted
  <2> QED BY <2>1, <2>2
<1>11. Sorted(todo)'
  BY <1>1, <1>10, SameCollected
<1>12. (todo \subseteq DOMAIN request.artifacts)'
  BY <1>1, <1>3, <1>4
<1>13. Whole(work)'
  BY <1>7 DEF Whole
<1>14. ~ Materialized'
  BY <1>1, <1>3 DEF Materialized
<1> QED BY <1>1, <1>9, <1>11, <1>12, <1>13, <1>14 DEF Inv10

LEMMA AdmissionStep10 == ASSUME Inv10, M10!AdmitRelationships PROVE Inv10'
<1> SUFFICES ASSUME Old' PROVE Inv10'
  BY DEF Inv10
<1>1. pc = "artifacts" /\ todo = {} /\ pc' = "admit" /\ UNCHANGED <<request, todo, result>>
  BY DEF M10!AdmitRelationships
<1>2. Old
  BY <1>1, SameIdentities
<1>3. /\ Whole(work) /\ ~ Materialized
      /\ work.diags = {} => Collected10(work, DOMAIN request.artifacts \ todo)
  BY <1>1, <1>2 DEF Inv10
<1> DEFINE admitted == {r \in work.relationships : {r.from, r.to} \subseteq work.known}
<1>4. work' = [work EXCEPT !.relationships = admitted,
                           !.unresolved = work.unresolved \cup (work.relationships \ admitted)]
  BY DEF M10!AdmitRelationships, M10!Admitted
<1> HIDE DEF admitted
<1>5. /\ work'.known = work.known /\ work'.entities = work.entities /\ work'.refs = work.refs
      /\ work'.relationships = admitted /\ work'.diags = work.diags
      /\ work'.unresolved = work.unresolved \cup (work.relationships \ admitted)
  BY <1>3, <1>4 DEF Whole
<1>6. ASSUME work'.diags = {} PROVE Settled(work)'
  <2>1. Collected10(work, DOMAIN request.artifacts)
    <3>1. DOMAIN request.artifacts \ todo = DOMAIN request.artifacts
      BY <1>1
    <3> QED BY <1>3, <1>5, <1>6, <3>1
  <2>2. Settled(work')
    BY <1>5, <2>1, AdmissionSettles DEF admitted
  <2> QED BY <1>1, <2>2, SameCollected
<1>7. ~ Materialized'
  BY <1>1, <1>3 DEF Materialized
<1> QED BY <1>1, <1>6, <1>7 DEF Inv10

LEMMA FinishStep10 == ASSUME Inv10, NEW valid \in BOOLEAN, M10!Finish(valid) PROVE Inv10'
<1> SUFFICES ASSUME Old' PROVE Inv10'
  BY DEF Inv10
<1>1. pc = "admit" /\ pc' = "done" /\ UNCHANGED <<request, todo, work>>
  BY DEF M10!Finish
<1>2. Old
  BY <1>1, SameIdentities
<1>3. ASSUME Materialized' PROVE work.diags = {} /\ result' = [outcome |-> "Materialized", codes |-> {}, model |-> M10!ModelOf(work)]
  <2>1. result'.outcome = "Materialized"
    BY <1>3 DEF Materialized
  <2>2. \A codes : M10!Failed("Rejected", codes).outcome # "Materialized"
    BY DEF M10!Failed
  <2> QED BY <2>1, <2>2, Zenon DEF M10!Finish
<1>4. ASSUME Materialized' PROVE Settled(work)' /\ (result.model = M10!ModelOf(work))'
  <2>1. Settled(work)
    BY <1>1, <1>2, <1>3, <1>4 DEF Inv10
  <2>2. Settled(work')
    BY <1>1, <2>1
  <2>3. result'.model = M10!ModelOf(work)
    BY <1>3, <1>4
  <2>4. M10!ModelOf(work)' = M10!ModelOf(work)
    BY <1>1 DEF M10!ModelOf
  <2> QED BY <1>1, <2>2, <2>3, <2>4, SameCollected
<1> QED BY <1>1, <1>4 DEF Inv10

(***************************************************************************)
(* Least elements, and induction over a set of naturals.                   *)
(***************************************************************************)
LEMMA LeastElement ==
    ASSUME NEW T \in SUBSET Nat, T # {}
    PROVE  \E x \in T : \A y \in T : x <= y
<1>1. OpToRel(<, Nat) = {ss \in Nat \X Nat : ss[1] < ss[2]}
  BY Zenon DEF OpToRel
<1>2. IsWellFoundedOn(OpToRel(<, Nat), Nat)
  BY NatLessThanWellFounded, Zenon
<1>3. PICK x \in T : \A y \in T : ~ (<<y, x>> \in OpToRel(<, Nat))
  BY <1>2, WFMin, Zenon
<1>4. ASSUME NEW y \in T PROVE x <= y
  <2>1. ~ (<<y, x>> \in {ss \in Nat \X Nat : ss[1] < ss[2]})
    BY <1>1, <1>3, Zenon
  <2>2. <<y, x>> \in Nat \X Nat
    OBVIOUS
  <2>3. ~ (y < x)
    BY <2>1, <2>2
  <2> QED BY <2>3
<1> QED BY <1>4

LEMMA SetInduction ==
    ASSUME NEW S \in SUBSET Nat, 0 \in S, \A n \in S : n + 1 \in S
    PROVE  S = Nat
<1> SUFFICES ASSUME Nat \ S # {} PROVE FALSE
  OBVIOUS
<1>1. PICK x \in Nat \ S : \A y \in Nat \ S : x <= y
  BY LeastElement
<1>2. x - 1 \in Nat
  BY <1>1
<1>3. x - 1 \in S
  BY <1>1, <1>2
<1>4. (x - 1) + 1 = x
  BY <1>1
<1> QED BY <1>1, <1>3, <1>4

(***************************************************************************)
(* A flattened sequence of sequences holds what they hold.                 *)
(***************************************************************************)
LEMMA ItemsOfConcatenation ==
    ASSUME NEW S, NEW s \in Seq(S), NEW t \in Seq(S)
    PROVE  s \o t \in Seq(S) /\ ItemsOf(s \o t) = ItemsOf(s) \cup ItemsOf(t)
<1>1. s \o t \in Seq(S)
  OBVIOUS
<1>2. /\ DOMAIN s = 1 .. Len(s) /\ DOMAIN t = 1 .. Len(t)
      /\ DOMAIN (s \o t) = 1 .. (Len(s) + Len(t))
      /\ Len(s) \in Nat /\ Len(t) \in Nat
  BY <1>1, Zenon, LenProperties, ConcatProperties
<1>3. ASSUME NEW x \in ItemsOf(s \o t) PROVE x \in ItemsOf(s) \cup ItemsOf(t)
  <2>1. PICK i \in 1 .. (Len(s) + Len(t)) : x = (s \o t)[i]
    BY <1>2 DEF ItemsOf
  <2>2. CASE i <= Len(s)
    BY <2>1, <2>2, <1>2, ConcatProperties DEF ItemsOf
  <2>3. CASE ~ (i <= Len(s))
    BY <2>1, <2>3, <1>2, ConcatProperties DEF ItemsOf
  <2> QED BY <2>2, <2>3
<1>4. ASSUME NEW x \in ItemsOf(s) PROVE x \in ItemsOf(s \o t)
  <2>1. PICK i \in 1 .. Len(s) : x = s[i]
    BY <1>2 DEF ItemsOf
  <2>2. i \in 1 .. (Len(s) + Len(t)) /\ (s \o t)[i] = s[i]
    BY <1>2, ConcatProperties
  <2> QED BY <2>1, <2>2, <1>2 DEF ItemsOf
<1>5. ASSUME NEW x \in ItemsOf(t) PROVE x \in ItemsOf(s \o t)
  <2>1. PICK i \in 1 .. Len(t) : x = t[i]
    BY <1>2 DEF ItemsOf
  <2>2. Len(s) + i \in 1 .. (Len(s) + Len(t)) /\ (s \o t)[Len(s) + i] = t[i]
    BY <1>2, ConcatProperties
  <2> QED BY <2>1, <2>2, <1>2 DEF ItemsOf
<1> QED BY <1>1, <1>3, <1>4, <1>5

LEMMA FlatItems ==
    ASSUME NEW S, NEW n \in Nat, NEW ss, ss = [i \in 1 .. n |-> ss[i]],
           \A i \in 1 .. n : ss[i] \in Seq(S)
    PROVE  /\ M11!ConcatAll(ss) \in Seq(S)
           /\ ItemsOf(M11!ConcatAll(ss)) = UNION {ItemsOf(ss[i]) : i \in 1 .. n}
<1>1. ss \in Seq(Seq(S)) /\ Len(ss) = n
  OBVIOUS
<1>2. CASE n = 0
  <2>1. ss = <<>>
    BY <1>1, <1>2
  <2>2. M11!ConcatAll(ss) = ss
    BY <1>1, <1>2 DEF M11!ConcatAll, M11!SE!FlattenSeq
  <2>3. 1 .. n = {}
    BY <1>2
  <2>4. ItemsOf(ss) = {}
    BY <2>1 DEF ItemsOf
  <2>5. UNION {ItemsOf(ss[i]) : i \in 1 .. n} = {}
    BY <2>3
  <2>6. ss \in Seq(S)
    BY <2>1
  <2> QED BY <2>2, <2>4, <2>5, <2>6
<1>3. CASE n # 0
  <2> DEFINE Flat(g, k) == /\ g = [i \in 1 .. k |-> g[i]]
                           /\ \A i \in 1 .. k : g[i] = IF i = 1 THEN ss[i] ELSE g[i - 1] \o ss[i]
             K == {k \in Nat : \E g : Flat(g, k)}
             f == CHOOSE g : g = [i \in 1 .. n |-> IF i = 1 THEN ss[i] ELSE g[i - 1] \o ss[i]]
  <2>1. 0 \in K
    <3>1. Flat([i \in 1 .. 0 |-> ss], 0)
      OBVIOUS
    <3> QED BY <3>1
  <2>2. ASSUME NEW k \in K PROVE k + 1 \in K
    <3>1. PICK g : Flat(g, k)
      OBVIOUS
    <3> DEFINE h == [i \in 1 .. (k + 1) |-> IF i <= k THEN g[i]
                                             ELSE IF i = 1 THEN ss[i] ELSE g[i - 1] \o ss[i]]
    <3>2. ASSUME NEW i \in 1 .. (k + 1)
          PROVE  h[i] = IF i = 1 THEN ss[i] ELSE h[i - 1] \o ss[i]
      <4>1. CASE i <= k
        <5>1. i \in 1 .. k /\ (i # 1 => i - 1 \in 1 .. k)
          BY <4>1
        <5>2. g[i] = IF i = 1 THEN ss[i] ELSE g[i - 1] \o ss[i]
          BY <3>1, <5>1
        <5>3. h[i] = g[i] /\ (i # 1 => h[i - 1] = g[i - 1])
          BY <4>1, <5>1
        <5> QED BY <5>2, <5>3
      <4>2. CASE ~ (i <= k)
        <5>1. i = k + 1 /\ (i # 1 => i - 1 \in 1 .. k /\ i - 1 <= k)
          BY <4>2
        <5>2. h[i] = IF i = 1 THEN ss[i] ELSE g[i - 1] \o ss[i]
          BY <4>2
        <5>3. i # 1 => h[i - 1] = g[i - 1]
          BY <5>1
        <5> QED BY <5>2, <5>3
      <4> QED BY <4>1, <4>2
    <3>3. h = [i \in 1 .. (k + 1) |-> h[i]]
      OBVIOUS
    <3> HIDE DEF h
    <3>4. Flat(h, k + 1)
      BY <3>2, <3>3
    <3>5. k + 1 \in Nat
      OBVIOUS
    <3> HIDE DEF Flat
    <3>6. \E e : Flat(e, k + 1)
      BY <3>4
    <3> QED BY <3>5, <3>6
  <2>3. n \in K
    <3> HIDE DEF Flat
    <3>1. K \in SUBSET Nat
      OBVIOUS
    <3> HIDE DEF K
    <3>2. K = Nat
      BY <2>1, <2>2, <3>1, SetInduction
    <3> QED BY <3>2
  <2>4. f = [i \in 1 .. n |-> IF i = 1 THEN ss[i] ELSE f[i - 1] \o ss[i]]
    <3>1. PICK g : Flat(g, n)
      BY <2>3
    <3>2. g = [i \in 1 .. n |-> IF i = 1 THEN ss[i] ELSE g[i - 1] \o ss[i]]
      BY <3>1
    <3> QED BY <3>2, Zenon
  <2>5. M11!ConcatAll(ss) = f[n]
    <3>1. n = Len(ss)
      BY <1>1
    <3> QED BY <3>1, <1>3, Zenon DEF M11!ConcatAll, M11!SE!FlattenSeq
  <2> HIDE DEF f
  <2> DEFINE D == {k \in Nat : k \in 1 .. n =>
                       /\ f[k] \in Seq(S)
                       /\ ItemsOf(f[k]) = UNION {ItemsOf(ss[i]) : i \in 1 .. k}}
  <2>6. 0 \in D
    OBVIOUS
  <2>7. ASSUME NEW k \in D PROVE k + 1 \in D
    <3> SUFFICES ASSUME k + 1 \in 1 .. n
                 PROVE  /\ f[k + 1] \in Seq(S)
                        /\ ItemsOf(f[k + 1]) = UNION {ItemsOf(ss[i]) : i \in 1 .. (k + 1)}
      OBVIOUS
    <3>1. CASE k = 0
      <4>1. f[k + 1] = ss[1]
        BY <2>4, <3>1
      <4>2. 1 .. (k + 1) = {1}
        BY <3>1
      <4> QED BY <4>1, <4>2, <3>1
    <3>2. CASE k # 0
      <4>1. f[k + 1] = f[k] \o ss[k + 1]
        <5>1. (k + 1) - 1 = k /\ k + 1 # 1
          BY <3>2
        <5>2. f[k + 1] = IF k + 1 = 1 THEN ss[k + 1] ELSE f[(k + 1) - 1] \o ss[k + 1]
          BY <2>4
        <5> QED BY <5>1, <5>2
      <4>2. /\ f[k] \in Seq(S)
            /\ ItemsOf(f[k]) = UNION {ItemsOf(ss[i]) : i \in 1 .. k}
        BY <3>2
      <4>3. 1 .. (k + 1) = (1 .. k) \cup {k + 1}
        BY <3>2
      <4>4. /\ f[k + 1] \in Seq(S)
            /\ ItemsOf(f[k + 1]) = ItemsOf(f[k]) \cup ItemsOf(ss[k + 1])
        <5> DEFINE a == f[k]
                   b == ss[k + 1]
        <5>1. a \in Seq(S) /\ b \in Seq(S) /\ f[k + 1] = a \o b
          BY <4>1, <4>2
        <5> HIDE DEF a, b
        <5>2. a \o b \in Seq(S) /\ ItemsOf(a \o b) = ItemsOf(a) \cup ItemsOf(b)
          BY <5>1, ItemsOfConcatenation
        <5> QED BY <5>1, <5>2 DEF a, b
      <4> QED BY <4>2, <4>3, <4>4
    <3> QED BY <3>1, <3>2
  <2>8. D = Nat
    <3>1. D \in SUBSET Nat
      OBVIOUS
    <3> HIDE DEF D
    <3> QED BY <2>6, <2>7, <3>1, SetInduction
  <2>9. n \in D /\ n \in 1 .. n
    BY <2>8, <1>3
  <2>10. f[n] \in Seq(S) /\ ItemsOf(f[n]) = UNION {ItemsOf(ss[i]) : i \in 1 .. n}
    BY <2>9
  <2> QED BY <2>5, <2>10
<1> QED BY <1>2, <1>3

(***************************************************************************)
(* Operation 1.1: what one document is interpreted to.                     *)
(***************************************************************************)
Reading(k) == M11!InterpretDocument(Doc(k), Ref(k))

WholeDocument(doc) == <<Root(doc)>> \o M11!Fragments(doc)

LEMMA PartsOfDocument ==
    ASSUME NEW doc \in Document
    PROVE  /\ \E S : WholeDocument(doc) \in Seq(S)
           /\ WholeDocument(doc) = <<M11!Root(doc)>> \o M11!Fragments(doc)
           /\ {x.id : x \in ItemsOf(WholeDocument(doc))} = {doc.id} \cup {x.id : x \in M11!ItemsOf(M11!Fragments(doc))}
<1> DEFINE S == Fragment \cup {Root(doc)}
           root == <<Root(doc)>>
           system == IF \E x \in M11!ItemsOf(doc.system) : x.id = doc.id THEN <<>> ELSE doc.system
           fragments == M11!Fragments(doc)
<1>1. /\ doc.system \in Seq(Fragment) /\ doc.specifications \in Seq(Fragment)
      /\ doc.children \in Seq(Fragment) /\ doc.propositions \in Seq(Fragment)
  BY DEF Document
<1>2. Fragment \subseteq S
  OBVIOUS
<1>3. root \in Seq(S) /\ Len(root) = 1 /\ root[1] = Root(doc)
  OBVIOUS
<1> HIDE DEF S
<1>4. /\ doc.system \in Seq(S) /\ doc.specifications \in Seq(S)
      /\ doc.children \in Seq(S) /\ doc.propositions \in Seq(S)
  BY <1>1, <1>2
<1>5. system \in Seq(S)
  BY <1>4
<1>6. fragments = (M11!PartsAfter(doc) \o system) \o doc.specifications
  BY Zenon DEF M11!Fragments
<1>7. M11!PartsAfter(doc) = doc.children \o doc.propositions
  BY DEF M11!PartsAfter
<1> HIDE DEF root, system, fragments
<1>8. fragments \in Seq(S)
  <2> DEFINE after == M11!PartsAfter(doc)
             specs == doc.specifications
  <2>1. after \in Seq(S) /\ specs \in Seq(S)
    BY <1>4, <1>7
  <2> HIDE DEF after, specs
  <2>2. after \o system \in Seq(S)
    BY <1>5, <2>1
  <2>3. (after \o system) \o specs \in Seq(S)
    BY <2>1, <2>2
  <2> QED BY <1>6, <2>3 DEF after, specs
<1>9. WholeDocument(doc) = root \o fragments
  BY DEF WholeDocument, root, fragments
<1>10. root \o fragments \in Seq(S) /\ ItemsOf(root \o fragments) = ItemsOf(root) \cup ItemsOf(fragments)
  BY <1>3, <1>8, ItemsOfConcatenation
<1>11. ItemsOf(root) = {Root(doc)}
  <2>1. DOMAIN root = {1}
    BY <1>3
  <2> QED BY <1>3, <2>1 DEF ItemsOf
<1>12. Root(doc).id = doc.id
  BY DEF Root
<1>13. {x.id : x \in ItemsOf(WholeDocument(doc))} = {doc.id} \cup {x.id : x \in ItemsOf(fragments)}
  BY <1>9, <1>10, <1>11, <1>12
<1>14. ItemsOf(fragments) = M11!ItemsOf(fragments)
  BY DEF ItemsOf, M11!ItemsOf
<1>15. WholeDocument(doc) = <<M11!Root(doc)>> \o M11!Fragments(doc)
  BY DEF WholeDocument, Root, M11!Root
<1> QED BY <1>9, <1>10, <1>13, <1>14, <1>15 DEF fragments

LEMMA EntityRecord ==
    ASSUME NEW doc
    PROVE  /\ M11!DocumentResult(doc).disposition \in {"accepted", "rejected"}
           /\ M11!DocumentResult(doc).disposition = "accepted" => M11!DocumentResult(doc).record.id = doc.id
           /\ \A x : /\ M11!FragmentResult(x).disposition \in {"accepted", "rejected"}
                     /\ M11!FragmentResult(x).disposition = "accepted" =>
                           M11!FragmentResult(x).record.id = x.id
<1>1. \A r : M11!Accepted(r).disposition = "accepted" /\ M11!Accepted(r).record = r
  BY DEF M11!Accepted
<1>2. \A r : M11!Rejected(r).disposition = "rejected"
  BY DEF M11!Rejected
<1>3. /\ M11!DocumentResult(doc).disposition \in {"accepted", "rejected"}
      /\ M11!DocumentResult(doc).disposition = "accepted" => M11!DocumentResult(doc).record.id = doc.id
  BY <1>1, <1>2 DEF M11!DocumentResult
<1>4. ASSUME NEW x
      PROVE  /\ M11!CustomEntityResult(x).disposition \in {"accepted", "rejected"}
             /\ M11!CustomEntityResult(x).disposition = "accepted" => M11!CustomEntityResult(x).record.id = x.id
  BY <1>1, <1>2 DEF M11!CustomEntityResult
<1>5. ASSUME NEW x
      PROVE  /\ M11!FragmentResult(x).disposition \in {"accepted", "rejected"}
             /\ M11!FragmentResult(x).disposition = "accepted" => M11!FragmentResult(x).record.id = x.id
  BY <1>1, <1>2, <1>4 DEF M11!FragmentResult
<1> QED BY <1>3, <1>5

(* A document that is interpreted emits what it declares, each once.       *)
LEMMA ReadEntities ==
    ASSUME NEW doc \in Document, NEW ref, NEW r, r = M11!InterpretDocument(doc, ref), r.ok
    PROVE  /\ {e.id : e \in r.entities} = {WholeDocument(doc)[p].id : p \in DOMAIN WholeDocument(doc)}
           /\ \A p, q \in DOMAIN WholeDocument(doc) : WholeDocument(doc)[p].id = WholeDocument(doc)[q].id => p = q
<1>1. /\ M11!EntitiesInterpretable(doc)
      /\ r.entities = M11!RecordsOf("accepted", M11!EntityResults(doc))
  BY DEF M11!InterpretDocument, M11!NoInterpretation
<1> DEFINE results == M11!EntityResults(doc)
           parts == WholeDocument(doc)
<1>2. /\ \A q \in results : q.disposition # "rejected"
      /\ M11!Repeats(<<M11!Root(doc)>> \o M11!Fragments(doc)) = {}
  BY <1>1 DEF M11!EntitiesInterpretable, M11!Fails
<1>3. results = {M11!DocumentResult(doc)} \cup {M11!FragmentResult(x) : x \in M11!ItemsOf(M11!Fragments(doc))}
  BY DEF M11!EntityResults
<1> HIDE DEF results, parts
<1>4. {e.id : e \in r.entities} = {q.record.id : q \in results}
  <2>1. \A q \in results : q.disposition = "accepted"
    BY <1>2, <1>3, EntityRecord
  <2>2. r.entities = {q.record : q \in results}
    BY <1>1, <2>1 DEF M11!RecordsOf, results
  <2> QED BY <2>2
<1>5. {q.record.id : q \in results} = {doc.id} \cup {x.id : x \in M11!ItemsOf(M11!Fragments(doc))}
  <2>1. M11!DocumentResult(doc).record.id = doc.id
    BY <1>2, <1>3, EntityRecord
  <2>2. \A x \in M11!ItemsOf(M11!Fragments(doc)) : M11!FragmentResult(x).record.id = x.id
    BY <1>2, <1>3, EntityRecord
  <2> QED BY <1>3, <2>1, <2>2
<1>6. {x.id : x \in ItemsOf(parts)} = {parts[p].id : p \in DOMAIN parts}
  BY DEF ItemsOf
<1>7. {e.id : e \in r.entities} = {parts[p].id : p \in DOMAIN parts}
  <2>1. {x.id : x \in ItemsOf(parts)} = {doc.id} \cup {x.id : x \in M11!ItemsOf(M11!Fragments(doc))}
    BY PartsOfDocument DEF parts
  <2> QED BY <1>4, <1>5, <1>6, <2>1
<1>8. M11!Repeats(parts) = {}
  BY <1>2, PartsOfDocument DEF parts
<1>9. PICK S : parts \in Seq(S)
  BY PartsOfDocument DEF parts
<1>10. \A p, q \in DOMAIN parts : q < p => parts[p].id # parts[q].id
  BY <1>8, <1>9 DEF M11!Repeats
<1>11. \A p, q \in DOMAIN parts : parts[p].id = parts[q].id => p = q
  <2>1. DOMAIN parts \subseteq Nat
    BY <1>9
  <2>2. \A p, q \in DOMAIN parts : p = q \/ p < q \/ q < p
    BY <2>1
  <2> QED BY <1>10, <2>2
<1> QED BY <1>7, <1>11 DEF parts

(* What a reference of a document is interpreted to.                       *)
LEMMA ResultKinds ==
    ASSUME NEW doc, NEW ref, NEW k
    PROVE  LET t == M11!TopologyRelationship(doc, k, ref)
               c == M11!CompositionRelationship(doc, k, ref)
               u == M11!CustomRelationshipResult(doc, k, ref)
           IN  /\ t.disposition \in {"accepted", "unresolved", "rejected"}
               /\ t.disposition = "accepted" => t.record.ref = ref /\ t.record.at = <<"edges", k>>
               /\ t.disposition = "unresolved" =>
                     /\ t.record.at = k
                     /\ t.record.missing \subseteq {doc.edges[k].from, doc.edges[k].to}
               /\ c.disposition \in {"accepted", "rejected"}
               /\ c.disposition = "accepted" => c.record.ref = ref /\ c.record.at = <<"components", k>>
               /\ u.disposition \in {"accepted", "rejected"}
               /\ u.disposition = "accepted" => u.record.ref = ref /\ u.record.at = <<"relations", k>>
<1>1. \A r : M11!Accepted(r).disposition = "accepted" /\ M11!Accepted(r).record = r
  BY DEF M11!Accepted
<1>2. \A r : M11!Rejected(r).disposition = "rejected"
  BY DEF M11!Rejected
<1>3. \A r : M11!Unresolved(r).disposition = "unresolved" /\ M11!Unresolved(r).record = r
  BY DEF M11!Unresolved
<1>4. \A type, kind, from, to, at :
         /\ M11!Edge(type, kind, from, to, ref, at).ref = ref
         /\ M11!Edge(type, kind, from, to, ref, at).at = at
  BY DEF M11!Edge
<1> DEFINE t == M11!TopologyRelationship(doc, k, ref)
           c == M11!CompositionRelationship(doc, k, ref)
           u == M11!CustomRelationshipResult(doc, k, ref)
<1>5. /\ c.disposition \in {"accepted", "rejected"}
      /\ c.disposition = "accepted" => c.record.ref = ref /\ c.record.at = <<"components", k>>
  <2>1. \/ \E reason : c = M11!Rejected(reason)
        \/ \E from, to : c = M11!Accepted(M11!Edge("composed_of", "compatibility", from, to, ref, <<"components", k>>))
    BY DEF M11!CompositionRelationship
  <2> HIDE DEF c
  <2> QED BY <1>1, <1>2, <1>4, <2>1
<1>6. /\ u.disposition \in {"accepted", "rejected"}
      /\ u.disposition = "accepted" => u.record.ref = ref /\ u.record.at = <<"relations", k>>
  BY <1>1, <1>2, <1>4 DEF M11!CustomRelationshipResult
<1>7. /\ t.disposition \in {"accepted", "unresolved", "rejected"}
      /\ t.disposition = "accepted" => t.record.ref = ref /\ t.record.at = <<"edges", k>>
      /\ t.disposition = "unresolved" =>
            /\ t.record.at = k
            /\ t.record.missing \subseteq {doc.edges[k].from, doc.edges[k].to}
  <2> DEFINE missing == {doc.edges[k].from, doc.edges[k].to} \ M11!Keys(doc)
             item == [code |-> "topology_key_unresolved", at |-> k, missing |-> missing]
  <2>1. item.at = k /\ item.missing \subseteq {doc.edges[k].from, doc.edges[k].to}
    OBVIOUS
  <2>2. \/ \E reason : t = M11!Rejected(reason)
        \/ t = M11!Unresolved(item)
        \/ \E type, from, to : t = M11!Accepted(M11!Edge(type, "compatibility", from, to, ref, <<"edges", k>>))
    BY DEF M11!TopologyRelationship
  <2> HIDE DEF item, t
  <2> QED BY <1>1, <1>2, <1>3, <1>4, <2>1, <2>2
<1> QED BY <1>5, <1>6, <1>7

LEMMA ReadRelationships ==
    ASSUME NEW doc, NEW ref, NEW r, r = M11!InterpretDocument(doc, ref), r.ok
    PROVE  /\ r.relationships = M11!RecordsOf("accepted", M11!RelationshipResults(doc, ref))
           /\ r.unresolved = M11!UnresolvedInOrder(doc, ref)
           /\ \A q \in M11!RelationshipResults(doc, ref) : q.disposition # "rejected"
           /\ \A e \in r.relationships : e.ref = ref
<1>1. /\ r.relationships = M11!RecordsOf("accepted", M11!RelationshipResults(doc, ref))
      /\ r.unresolved = M11!UnresolvedInOrder(doc, ref)
      /\ \A q \in M11!RelationshipResults(doc, ref) : q.disposition # "rejected"
  BY DEF M11!InterpretDocument, M11!NoInterpretation, M11!Fails
<1>2. \A q \in M11!RelationshipResults(doc, ref) :
         q.disposition = "accepted" => q.record.ref = ref
  BY ResultKinds DEF M11!RelationshipResults
<1>3. \A e \in r.relationships : e.ref = ref
  BY <1>1, <1>2 DEF M11!RecordsOf
<1> QED BY <1>1, <1>3

(* An accepted result is the only one at its place.                        *)
LEMMA ResultAt ==
    ASSUME NEW doc, NEW ref, NEW field, NEW k,
           NEW q, q \in M11!RelationshipResults(doc, ref),
           \/ field = "edges" /\ q = M11!TopologyRelationship(doc, k, ref)
           \/ field = "components" /\ q = M11!CompositionRelationship(doc, k, ref)
           \/ field = "relations" /\ q = M11!CustomRelationshipResult(doc, k, ref)
    PROVE  At(M11!RecordsOf("accepted", M11!RelationshipResults(doc, ref)), ref, <<field, k>>) =
              IF q.disposition = "accepted" THEN {q.record} ELSE {}
<1> DEFINE results == M11!RelationshipResults(doc, ref)
           records == M11!RecordsOf("accepted", results)
<1>1. ASSUME NEW e \in records, e.at = <<field, k>> PROVE q.disposition = "accepted" /\ e = q.record
  <2>1. PICK p \in results : p.disposition = "accepted" /\ e = p.record
    BY DEF M11!RecordsOf
  <2>2. CASE \E j \in DOMAIN doc.edges : p = M11!TopologyRelationship(doc, j, ref)
    <3>1. PICK j : p = M11!TopologyRelationship(doc, j, ref)
      BY <2>2
    <3>2. e.at = <<"edges", j>>
      BY <2>1, <3>1, ResultKinds
    <3>3. field = "edges" /\ j = k
      BY <1>1, <3>2
    <3> QED BY <2>1, <3>1, <3>3
  <2>3. CASE \E j \in DOMAIN doc.components : p = M11!CompositionRelationship(doc, j, ref)
    <3>1. PICK j : p = M11!CompositionRelationship(doc, j, ref)
      BY <2>3
    <3>2. e.at = <<"components", j>>
      BY <2>1, <3>1, ResultKinds
    <3>3. field = "components" /\ j = k
      BY <1>1, <3>2
    <3> QED BY <2>1, <3>1, <3>3
  <2>4. CASE \E j \in DOMAIN doc.relations : p = M11!CustomRelationshipResult(doc, j, ref)
    <3>1. PICK j : p = M11!CustomRelationshipResult(doc, j, ref)
      BY <2>4
    <3>2. e.at = <<"relations", j>>
      BY <2>1, <3>1, ResultKinds
    <3>3. field = "relations" /\ j = k
      BY <1>1, <3>2
    <3> QED BY <2>1, <3>1, <3>3
  <2> QED BY <2>2, <2>3, <2>4 DEF M11!RelationshipResults
<1>2. ASSUME q.disposition = "accepted"
      PROVE  q.record \in records /\ q.record.ref = ref /\ q.record.at = <<field, k>>
  <2>1. q.record \in records
    BY <1>2 DEF M11!RecordsOf
  <2>2. q.record.ref = ref /\ q.record.at = <<field, k>>
    BY <1>2, ResultKinds
  <2> QED BY <2>1, <2>2
<1> HIDE DEF records
<1>3. At(records, ref, <<field, k>>) = IF q.disposition = "accepted" THEN {q.record} ELSE {}
  BY <1>1, <1>2 DEF At
<1> QED BY <1>3 DEF records

(* The unresolved items of a document, each at its edge.                   *)
LEMMA ReadUnresolved ==
    ASSUME NEW doc \in Document, NEW ref, NEW r, r = M11!InterpretDocument(doc, ref), r.ok
    PROVE  /\ \E S : r.unresolved \in Seq(S) /\ \A u \in S : u.at \in DOMAIN doc.edges
           /\ \A k \in DOMAIN doc.edges :
                 LET t == M11!TopologyRelationship(doc, k, ref)
                 IN  t.disposition = "unresolved" => t.record \in ItemsOf(r.unresolved)
<1> DEFINE results == M11!RelationshipResults(doc, ref)
           records == M11!RecordsOf("unresolved", results)
           n == Len(doc.edges)
           ss == [k \in DOMAIN doc.edges |->
                    IF \E u \in records : u.at = k
                    THEN <<CHOOSE u \in records : u.at = k>> ELSE <<>>]
<1>1. r.unresolved = M11!ConcatAll(ss)
  <2>1. M11!UnresolvedInOrder(doc, ref) = M11!ConcatAll(ss)
    BY Zenon DEF M11!UnresolvedInOrder
  <2> HIDE DEF ss
  <2> QED BY <2>1, ReadRelationships
<1>2. n \in Nat /\ DOMAIN doc.edges = 1 .. n
  BY DEF Document
<1>3. ASSUME NEW u \in records
      PROVE  \E k \in DOMAIN doc.edges : /\ u = M11!TopologyRelationship(doc, k, ref).record /\ u.at = k
  <2>1. PICK q \in results : q.disposition = "unresolved" /\ u = q.record
    BY DEF M11!RecordsOf
  <2>2. \A j : /\ M11!CompositionRelationship(doc, j, ref).disposition # "unresolved"
               /\ M11!CustomRelationshipResult(doc, j, ref).disposition # "unresolved"
    <3> SUFFICES ASSUME NEW j
                 PROVE  /\ M11!CompositionRelationship(doc, j, ref).disposition # "unresolved"
                        /\ M11!CustomRelationshipResult(doc, j, ref).disposition # "unresolved"
      OBVIOUS
    <3>1. /\ M11!CompositionRelationship(doc, j, ref).disposition \in {"accepted", "rejected"}
          /\ M11!CustomRelationshipResult(doc, j, ref).disposition \in {"accepted", "rejected"}
      BY ResultKinds
    <3> QED BY <3>1
  <2>3. PICK k \in DOMAIN doc.edges : q = M11!TopologyRelationship(doc, k, ref)
    BY <2>1, <2>2 DEF M11!RelationshipResults
  <2> QED BY <2>1, <2>3, ResultKinds
<1> HIDE DEF records, n
<1> DEFINE R(k) == IF \E u \in records : u.at = k THEN <<CHOOSE u \in records : u.at = k>> ELSE <<>>
<1>4. ASSUME NEW k \in 1 .. n PROVE ss[k] \in Seq(records)
  <2>1. CASE \E u \in records : u.at = k
    <3> DEFINE u == CHOOSE u \in records : u.at = k
    <3>1. u \in records
      BY <2>1
    <3>2. ss[k] = <<u>>
      BY <1>2, <2>1
    <3> HIDE DEF u, ss
    <3> QED BY <3>1, <3>2
  <2>2. CASE ~ \E u \in records : u.at = k
    <3>1. ss[k] = <<>>
      BY <1>2, <2>2
    <3> HIDE DEF ss
    <3> QED BY <3>1
  <2> QED BY <2>1, <2>2
<1>5. ss = [k \in 1 .. n |-> ss[k]]
  BY <1>2
<1>6. /\ M11!ConcatAll(ss) \in Seq(records)
      /\ ItemsOf(M11!ConcatAll(ss)) = UNION {ItemsOf(ss[i]) : i \in 1 .. n}
  <2> HIDE DEF ss
  <2> QED BY <1>2, <1>4, <1>5, FlatItems DEF n
<1>7. ASSUME NEW k \in DOMAIN doc.edges,
             M11!TopologyRelationship(doc, k, ref).disposition = "unresolved"
      PROVE  M11!TopologyRelationship(doc, k, ref).record \in ItemsOf(r.unresolved)
  <2> DEFINE t == M11!TopologyRelationship(doc, k, ref)
             u == CHOOSE v \in records : v.at = k
  <2>1. t.record \in records /\ t.record.at = k
    <3>1. t \in results
      BY DEF M11!RelationshipResults
    <3>2. t.record.at = k
      BY <1>7, ResultKinds
    <3> QED BY <1>7, <3>1, <3>2 DEF M11!RecordsOf, records
  <2>2. u \in records /\ u.at = k
    BY <2>1
  <2>3. u = t.record
    BY <1>3, <2>1, <2>2
  <2>4. ss[k] = <<u>>
    BY <2>1
  <2> HIDE DEF u, ss, t
  <2>5. u \in ItemsOf(ss[k])
    <3> DEFINE s == ss[k]
    <3>1. 1 \in DOMAIN s /\ s[1] = u
      BY <2>4
    <3> HIDE DEF s
    <3>2. u \in ItemsOf(s)
      BY <3>1 DEF ItemsOf
    <3> QED BY <3>2 DEF s
  <2> QED BY <1>1, <1>2, <1>6, <2>3, <2>5 DEF t
<1>8. \A u \in records : u.at \in DOMAIN doc.edges
  BY <1>3
<1> QED BY <1>1, <1>6, <1>7, <1>8

(***************************************************************************)
(* The items of a model, in the order of their places.                     *)
(***************************************************************************)
LEMMA GreatestPlace ==
    ASSUME NEW S, NEW s \in Seq(S), \A x \in S : x.at \in Nat
    PROVE  LET places == {x.at : x \in ItemsOf(s)}
           IN  \E n \in places \cup {0} : \A m \in places : m <= n
<1> DEFINE Greatest(k, n) == /\ n \in {s[i].at : i \in 1 .. k} \cup {0}
                             /\ \A i \in 1 .. k : s[i].at <= n
           T == {k \in Nat : k <= Len(s) => \E n : Greatest(k, n)}
<1>1. Len(s) \in Nat /\ DOMAIN s = 1 .. Len(s) /\ \A i \in 1 .. Len(s) : s[i].at \in Nat
  OBVIOUS
<1>2. 0 \in T
  <2>1. Greatest(0, 0)
    OBVIOUS
  <2> QED BY <2>1
<1>3. ASSUME NEW k \in T PROVE k + 1 \in T
  <2> SUFFICES ASSUME k + 1 <= Len(s) PROVE \E n : Greatest(k + 1, n)
    OBVIOUS
  <2>1. k \in Nat /\ k + 1 \in 1 .. Len(s) /\ 1 .. (k + 1) = (1 .. k) \cup {k + 1}
    BY <1>1
  <2>2. PICK n : Greatest(k, n)
    BY <1>1, <2>1
  <2>3. n \in Nat /\ \A i \in 1 .. k : s[i].at \in Nat
    BY <1>1, <2>1, <2>2
  <2> DEFINE at == s[k + 1].at
  <2>4. at \in Nat
    BY <1>1, <2>1
  <2>5. CASE at <= n
    <3>1. Greatest(k + 1, n)
      BY <2>1, <2>2, <2>5
    <3> QED BY <3>1
  <2>6. CASE ~ (at <= n)
    <3>1. \A i \in 1 .. k : s[i].at <= at
      BY <2>2, <2>3, <2>4, <2>6
    <3>2. Greatest(k + 1, at)
      BY <2>1, <2>4, <3>1
    <3> QED BY <3>2
  <2> QED BY <2>5, <2>6
<1>4. T = Nat
  <2> HIDE DEF T
  <2>1. T \in SUBSET Nat
    BY DEF T
  <2> QED BY <1>2, <1>3, <2>1, SetInduction
<1>5. PICK n : Greatest(Len(s), n)
  <2> HIDE DEF T, Greatest
  <2>1. Len(s) \in T /\ Len(s) <= Len(s)
    BY <1>1, <1>4
  <2> QED BY <2>1 DEF T
<1>6. ItemsOf(s) = {s[i] : i \in 1 .. Len(s)}
  BY <1>1 DEF ItemsOf
<1>7. {x.at : x \in ItemsOf(s)} = {s[i].at : i \in 1 .. Len(s)}
  BY <1>6
<1> QED BY <1>5, <1>7

LEMMA InOrderKeeps ==
    ASSUME NEW S, NEW items \in Seq(S), \A x \in S : x.at \in Nat \ {0}
    PROVE  ItemsOf(items) \subseteq ItemsOf(M11!InOrder(items))
<1> DEFINE At1(at, p) == IF items[p].at = at THEN <<items[p]>> ELSE <<>>
           here(at) == [p \in DOMAIN items |-> At1(at, p)]
           Placed(at) == M11!ConcatAll(here(at))
           places == {x.at : x \in M11!ItemsOf(items)}
           top == CHOOSE n \in places \cup {0} : \A m \in places : m <= n
           ordered == [at \in 1 .. top |-> Placed(at)]
<1>1. M11!InOrder(items) = M11!ConcatAll(ordered)
  BY Zenon DEF M11!InOrder
<1>2. top \in Nat /\ \A x \in ItemsOf(items) : x.at \in 1 .. top
  <2>1. M11!ItemsOf(items) = ItemsOf(items)
    BY DEF ItemsOf, M11!ItemsOf
  <2>2. \A x \in S : x.at \in Nat
    OBVIOUS
  <2>3. \E n \in places \cup {0} : \A m \in places : m <= n
    BY <2>1, <2>2, GreatestPlace
  <2> DEFINE good(n) == n \in places \cup {0} /\ \A m \in places : m <= n
  <2>4. top \in places \cup {0} /\ \A m \in places : m <= top
    <3> HIDE DEF places
    <3> QED BY <2>3
  <2> HIDE DEF top
  <2>5. \A x \in ItemsOf(items) : x \in S
    BY DEF ItemsOf
  <2>6. places \subseteq Nat \ {0}
    BY <2>1, <2>5
  <2> QED BY <2>1, <2>4, <2>6
<1>3. Len(items) \in Nat /\ DOMAIN items = 1 .. Len(items)
  OBVIOUS
<1> HIDE DEF top
<1>4. ASSUME NEW at \in 1 .. top
      PROVE  /\ Placed(at) \in Seq(S)
             /\ ItemsOf(Placed(at)) = UNION {ItemsOf(At1(at, p)) : p \in 1 .. Len(items)}
  <2> DEFINE ss == here(at)
  <2>1. \A p \in 1 .. Len(items) : ss[p] = At1(at, p) /\ At1(at, p) \in Seq(S)
    BY <1>3
  <2>2. ss = [p \in 1 .. Len(items) |-> ss[p]]
    BY <1>3
  <2> HIDE DEF At1
  <2>3. \A p \in 1 .. Len(items) : ss[p] \in Seq(S)
    BY <2>1
  <2>4. {ItemsOf(ss[p]) : p \in 1 .. Len(items)} = {ItemsOf(At1(at, p)) : p \in 1 .. Len(items)}
    BY <2>1
  <2>5. Placed(at) = M11!ConcatAll(ss)
    OBVIOUS
  <2> HIDE DEF ss, Placed
  <2>6. /\ M11!ConcatAll(ss) \in Seq(S)
        /\ ItemsOf(M11!ConcatAll(ss)) = UNION {ItemsOf(ss[p]) : p \in 1 .. Len(items)}
    BY <1>3, <2>2, <2>3, FlatItems
  <2> QED BY <2>4, <2>5, <2>6
<1> HIDE DEF Placed
<1>5. /\ M11!ConcatAll(ordered) \in Seq(S)
      /\ ItemsOf(M11!ConcatAll(ordered)) = UNION {ItemsOf(ordered[at]) : at \in 1 .. top}
  <2>1. ordered = [at \in 1 .. top |-> ordered[at]] /\ \A at \in 1 .. top : ordered[at] \in Seq(S)
    BY <1>4
  <2> HIDE DEF ordered
  <2> QED BY <1>2, <2>1, FlatItems
<1>6. ASSUME NEW x \in ItemsOf(items) PROVE x \in ItemsOf(M11!ConcatAll(ordered))
  <2>1. PICK p \in 1 .. Len(items) : x = items[p]
    BY <1>3 DEF ItemsOf
  <2>2. x.at \in 1 .. top
    BY <1>2
  <2>3. x \in ItemsOf(At1(x.at, p))
    <3> DEFINE s == At1(x.at, p)
    <3>1. s = <<x>>
      BY <2>1
    <3> HIDE DEF s
    <3>2. 1 \in DOMAIN s /\ s[1] = x
      BY <3>1
    <3>3. x \in ItemsOf(s)
      BY <3>2 DEF ItemsOf
    <3> QED BY <3>3 DEF s
  <2>4. x \in ItemsOf(Placed(x.at))
    BY <1>4, <2>2, <2>3
  <2>5. x \in ItemsOf(ordered[x.at])
    BY <2>2, <2>4
  <2> HIDE DEF ordered
  <2> QED BY <1>5, <2>2, <2>5
<1> QED BY <1>1, <1>6

LEMMA AssembledOpen ==
    ASSUME NEW n \in Nat, NEW readings, readings = [k \in 1 .. n |-> readings[k]],
           \A k \in 1 .. n :
              \E S : readings[k].unresolved \in Seq(S) /\ \A u \in S : u.at \in Nat \ {0}
    PROVE  \A k \in 1 .. n :
              ItemsOf(readings[k].unresolved) \subseteq ItemsOf(M11!Assemble(readings).unresolved)
<1> DEFINE open == [k \in DOMAIN readings |-> readings[k].unresolved]
           S == UNION {ItemsOf(open[k]) : k \in 1 .. n}
           items == M11!ConcatAll(open)
<1>1. DOMAIN readings = 1 .. n
  OBVIOUS
<1>2. open = [k \in 1 .. n |-> open[k]] /\ \A k \in 1 .. n : open[k] = readings[k].unresolved
  BY <1>1
<1> HIDE DEF open
<1>3. ASSUME NEW k \in 1 .. n
      PROVE  open[k] \in Seq(S) /\ \A u \in ItemsOf(open[k]) : u.at \in Nat \ {0}
  <2>1. PICK R : open[k] \in Seq(R) /\ \A u \in R : u.at \in Nat \ {0}
    BY <1>2
  <2> DEFINE s == open[k]
  <2>2. s \in Seq(R)
    BY <2>1
  <2>3. ItemsOf(s) \subseteq S
    OBVIOUS
  <2> HIDE DEF s, S
  <2>4. \A i \in 1 .. Len(s) : s[i] \in S /\ s[i] \in R
    BY <2>2, <2>3 DEF ItemsOf
  <2>5. Len(s) \in Nat /\ s = [i \in 1 .. Len(s) |-> s[i]] /\ DOMAIN s = 1 .. Len(s)
    BY <2>2
  <2>6. s \in Seq(S)
    BY <2>4, <2>5
  <2>7. ItemsOf(s) \subseteq R
    BY <2>4, <2>5 DEF ItemsOf
  <2> QED BY <2>1, <2>6, <2>7 DEF s
<1>4. \A x \in S : x.at \in Nat \ {0}
  BY <1>3
<1> HIDE DEF S
<1>5. items \in Seq(S) /\ ItemsOf(items) = UNION {ItemsOf(open[k]) : k \in 1 .. n}
  <2>1. \A k \in 1 .. n : open[k] \in Seq(S)
    BY <1>3
  <2>2. open = [k \in 1 .. n |-> open[k]]
    BY <1>2
  <2>3. n \in Nat
    OBVIOUS
  <2> HIDE DEF items
  <2>4. /\ M11!ConcatAll(open) \in Seq(S)
        /\ ItemsOf(M11!ConcatAll(open)) = UNION {ItemsOf(open[i]) : i \in 1 .. n}
    BY ONLY <2>1, <2>2, <2>3, FlatItems
  <2> QED BY <2>4 DEF items
<1>6. M11!Assemble(readings).unresolved = M11!InOrder(items)
  BY DEF M11!Assemble, open
<1> HIDE DEF items
<1>7. ItemsOf(items) \subseteq ItemsOf(M11!InOrder(items))
  BY <1>4, <1>5, InOrderKeeps
<1> QED BY <1>2, <1>5, <1>6, <1>7

(***************************************************************************)
(* Operation 1.1: the artifacts are read in the order of the request, and  *)
(* an undiagnosed prefix of them is read whole.                            *)
(***************************************************************************)
ReadWhole(readings, m) ==
    /\ readings = [k \in 1 .. m |-> Reading(k)]
    /\ \A k \in 1 .. m : Reading(k).ok

LeftAfter(left, m) ==
    /\ left \in Seq(Basis)
    /\ m + Len(left) = Len(request.artifacts)
    /\ \A i \in 1 .. Len(left) : left[i] = request.artifacts[m + i]

Inv11 ==
    ~Old =>
        /\ pc = "artifacts" =>
              /\ DOMAIN work = {"readings", "diags"}
              /\ \E m \in 0 .. Len(request.artifacts) :
                    /\ LeftAfter(todo, m)
                    /\ work.diags = {} => ReadWhole(work.readings, m)
        /\ Materialized =>
              /\ pc = "done"
              /\ ReadWhole(work.readings, Len(request.artifacts))
              /\ ~M11!AssemblyFails(work.readings)
              /\ result.model = M11!Assemble(work.readings)

LEMMA BasisTyped ==
    ASSUME request \in Requests
    PROVE  /\ request.artifacts \in Seq(Basis)
           /\ Len(request.artifacts) \in Nat
           /\ DOMAIN request.artifacts = 1 .. Len(request.artifacts)
<1>1. request.artifacts \in Seq(Basis)
  BY RequestsAssumption DEF Basis
<1> QED BY <1>1

LEMMA SameReadings ==
    ASSUME request' = request
    PROVE  /\ Old' <=> Old
           /\ \A readings, m : ReadWhole(readings, m)' <=> ReadWhole(readings, m)
           /\ \A left, m : LeftAfter(left, m)' <=> LeftAfter(left, m)
<1>1. \A k : Reading(k)' = Reading(k)
  BY DEF Reading, Doc, Ref
<1> QED BY <1>1 DEF Old, ReadWhole, LeftAfter, Basis

LEMMA InitInv11 == M10!Init => Inv11
<1> SUFFICES ASSUME M10!Init PROVE Inv11
  OBVIOUS
<1>1. pc = "request" /\ result = M10!Pending
  BY DEF M10!Init
<1>2. ~ Materialized
  BY <1>1 DEF Materialized, M10!Pending
<1> QED BY <1>1, <1>2 DEF Inv11

LEMMA RefuseStep11 == ASSUME M11!Refuse PROVE Inv11'
<1>1. pc' = "done" /\ result' = M11!Failed({"request"})
  BY DEF M11!Refuse
<1>2. ~ Materialized'
  BY <1>1 DEF Materialized, M11!Failed
<1> QED BY <1>1, <1>2 DEF Inv11

LEMMA BeginStep11 == ASSUME request \in Requests, ~Old, Inv11, M11!Begin PROVE Inv11'
<1>1. /\ request' = request /\ pc' = "artifacts" /\ todo' = request.artifacts
      /\ work' = [readings |-> <<>>, diags |-> {}] /\ result' = result /\ pc = "request"
  BY DEF M11!Begin
<1>2. ~ Materialized'
  BY <1>1 DEF Inv11, Materialized
<1>3. LeftAfter(todo', 0)
  BY <1>1, BasisTyped DEF LeftAfter
<1>4. DOMAIN work' = {"readings", "diags"} /\ work'.readings = <<>>
  BY <1>1
<1>5. ReadWhole(work'.readings, 0)
  <2>1. [k \in 1 .. 0 |-> Reading(k)] = <<>>
    OBVIOUS
  <2> QED BY <1>4, <2>1 DEF ReadWhole
<1>6. LeftAfter(todo, 0)' /\ ReadWhole(work.readings, 0)'
  BY <1>1, <1>3, <1>5, SameReadings
<1>7. 0 \in 0 .. Len(request.artifacts)'
  BY <1>1, BasisTyped
<1> QED BY <1>1, <1>2, <1>4, <1>6, <1>7 DEF Inv11

LEMMA ArtifactStep11 ==
    ASSUME request \in Requests, ~Old, Inv11, M11!NextArtifact PROVE Inv11'
<1> DEFINE n == Len(request.artifacts)
<1>1. /\ pc = "artifacts" /\ todo # <<>> /\ UNCHANGED <<request, pc, result>>
      /\ work' = M11!ReadArtifact(work, Head(todo)) /\ todo' = Tail(todo)
  BY DEF M11!NextArtifact
<1>2. PICK m \in 0 .. n : /\ LeftAfter(todo, m)
                          /\ work.diags = {} => ReadWhole(work.readings, m)
  BY <1>1 DEF Inv11
<1>3. DOMAIN work = {"readings", "diags"} /\ ~ Materialized
  BY <1>1 DEF Inv11
<1>4. n \in Nat /\ DOMAIN request.artifacts = 1 .. n
  BY BasisTyped
<1>5. /\ todo \in Seq(Basis) /\ m + Len(todo) = n
      /\ \A i \in 1 .. Len(todo) : todo[i] = request.artifacts[m + i]
  BY <1>2 DEF LeftAfter
<1> HIDE DEF n
<1>6. /\ Len(todo) >= 1 /\ Head(todo) = request.artifacts[m + 1] /\ m + 1 \in 0 .. n
      /\ Tail(todo) \in Seq(Basis) /\ Len(Tail(todo)) = Len(todo) - 1
      /\ \A i \in 1 .. Len(Tail(todo)) : Tail(todo)[i] = todo[i + 1]
  BY <1>1, <1>4, <1>5
<1>7. LeftAfter(todo', m + 1)
  <2>1. \A i \in 1 .. Len(Tail(todo)) : Tail(todo)[i] = request.artifacts[(m + 1) + i]
    BY <1>2, <1>4, <1>5, <1>6
  <2>2. (m + 1) + Len(Tail(todo)) = n
    BY <1>2, <1>4, <1>5, <1>6
  <2>3. LeftAfter(Tail(todo), m + 1)
    BY <1>6, <2>1, <2>2 DEF LeftAfter, n
  <2> QED BY <1>1, <2>3
<1>8. DOMAIN work' = {"readings", "diags"} /\ (work'.diags = {} => ReadWhole(work'.readings, m + 1))
  <2> DEFINE a == Head(todo)
             reading == M11!InterpretDocument(a.document, a.ref)
  <2>1. reading = Reading(m + 1)
    BY <1>6 DEF Reading, Doc, Ref
  <2> HIDE DEF reading
  <2>2. CASE M11!ArtifactCodes(a) = {} /\ reading.ok
    <3>1. work' = [work EXCEPT !.readings = Append(work.readings, reading)]
      BY <1>1, <2>2 DEF M11!ReadArtifact, reading
    <3>2. /\ DOMAIN work' = {"readings", "diags"} /\ work'.diags = work.diags
          /\ work'.readings = Append(work.readings, reading)
      BY <1>3, <3>1
    <3>3. ASSUME ReadWhole(work.readings, m) PROVE ReadWhole(Append(work.readings, reading), m + 1)
      <4> DEFINE F == [k \in 1 .. m |-> Reading(k)]
                 G == [k \in 1 .. (m + 1) |-> Reading(k)]
      <4>1. work.readings = F /\ \A k \in 1 .. m : Reading(k).ok
        BY <3>3 DEF ReadWhole
      <4>2. Append(F, Reading(m + 1)) = G
        <5>1. m \in Nat
          BY <1>2
        <5> QED BY <5>1
      <4>3. \A k \in 1 .. (m + 1) : Reading(k).ok
        BY <1>2, <2>1, <2>2, <4>1
      <4> QED BY <2>1, <4>1, <4>2, <4>3 DEF ReadWhole
    <3> QED BY <1>2, <3>2, <3>3
  <2>3. CASE ~ (M11!ArtifactCodes(a) = {} /\ reading.ok)
    <3>1. PICK codes : codes # {} /\ work' = [work EXCEPT !.diags = work.diags \cup codes]
      <4>1. CASE M11!ArtifactCodes(a) # {}
        BY <1>1, <4>1 DEF M11!ReadArtifact
      <4>2. CASE M11!ArtifactCodes(a) = {} /\ ~ reading.ok
        BY <1>1, <4>2 DEF M11!ReadArtifact, reading
      <4> QED BY <2>3, <4>1, <4>2
    <3>2. DOMAIN work' = {"readings", "diags"} /\ work'.diags # {}
      BY <1>3, <3>1
    <3> QED BY <3>2
  <2> QED BY <2>2, <2>3
<1>9. LeftAfter(todo, m + 1)' /\ (work'.diags = {} => ReadWhole(work.readings, m + 1)')
  BY <1>1, <1>7, <1>8, SameReadings
<1>10. m + 1 \in (0 .. Len(request.artifacts))'
  BY <1>1, <1>6 DEF n
<1>11. ~ Materialized'
  BY <1>1, <1>3 DEF Materialized
<1> QED BY <1>1, <1>8, <1>9, <1>10, <1>11 DEF Inv11

LEMMA FinishStep11 ==
    ASSUME request \in Requests, ~Old, Inv11, NEW valid \in BOOLEAN, M11!Finish(valid) PROVE Inv11'
<1>1. pc = "artifacts" /\ todo = <<>> /\ pc' = "done" /\ UNCHANGED <<request, todo, work>>
  BY DEF M11!Finish
<1>2. ASSUME Materialized'
      PROVE  /\ work.diags = {} /\ ~ M11!AssemblyFails(work.readings)
             /\ result' = [outcome |-> "Materialized", codes |-> {}, model |-> M11!Assemble(work.readings)]
  <2>1. result'.outcome = "Materialized"
    BY <1>2 DEF Materialized
  <2>2. \A codes : M11!Failed(codes).outcome # "Materialized"
    BY DEF M11!Failed
  <2> QED BY <2>1, <2>2, Zenon DEF M11!Finish
<1>3. PICK m \in 0 .. Len(request.artifacts) : /\ LeftAfter(todo, m)
                                               /\ work.diags = {} => ReadWhole(work.readings, m)
  BY <1>1 DEF Inv11
<1>4. m = Len(request.artifacts)
  BY <1>1, <1>3, BasisTyped DEF LeftAfter
<1>5. ASSUME Materialized'
      PROVE  /\ ReadWhole(work.readings, Len(request.artifacts))'
             /\ ~ M11!AssemblyFails(work.readings)'
             /\ (result.model = M11!Assemble(work.readings))'
  <2>1. ReadWhole(work.readings, Len(request.artifacts))'
    BY <1>1, <1>2, <1>3, <1>4, <1>5, SameReadings
  <2>2. work'.readings = work.readings
    BY <1>1
  <2>3. result'.model = M11!Assemble(work.readings)
    BY <1>2, <1>5
  <2> QED BY <1>1, <1>2, <1>5, <2>1, <2>2, <2>3
<1> QED BY <1>1, <1>5 DEF Inv11

(***************************************************************************)
(* The invariant of the specification: the operation that the protocol     *)
(* selects keeps its own, and the other never runs.                        *)
(***************************************************************************)
Inv == request \in Requests /\ Inv10 /\ Inv11

LEMMA OldStep ==
    ASSUME Inv, Old, M10!Next PROVE Inv'
<1>1. request \in Requests /\ Inv10
  BY DEF Inv
<1>2. request' = request /\ Inv10'
  <2>1. CASE M10!Refuse
    BY <1>1, <2>1, RefuseStep10 DEF M10!Refuse
  <2>2. CASE M10!Begin
    BY <1>1, <2>2, BeginStep10 DEF M10!Begin
  <2>3. CASE M10!NextArtifact
    BY <1>1, <2>3, ArtifactStep10 DEF M10!NextArtifact
  <2>4. CASE M10!AdmitRelationships
    BY <1>1, <2>4, AdmissionStep10 DEF M10!AdmitRelationships
  <2>5. CASE \E valid \in BOOLEAN : M10!Finish(valid)
    BY <1>1, <2>5, FinishStep10 DEF M10!Finish
  <2> QED BY <2>1, <2>2, <2>3, <2>4, <2>5 DEF M10!Next
<1>3. Old'
  BY <1>2, SameReadings
<1> QED BY <1>1, <1>2, <1>3 DEF Inv, Inv11

LEMMA ForwardStep ==
    ASSUME Inv, ~Old, M11!Next PROVE Inv'
<1>1. request \in Requests /\ Inv11
  BY DEF Inv
<1>2. request' = request /\ Inv11'
  <2>1. CASE M11!Refuse
    BY <1>1, <2>1, RefuseStep11 DEF M11!Refuse
  <2>2. CASE M11!Begin
    BY <1>1, <2>2, BeginStep11 DEF M11!Begin
  <2>3. CASE M11!NextArtifact
    BY <1>1, <2>3, ArtifactStep11 DEF M11!NextArtifact
  <2>4. CASE \E valid \in BOOLEAN : M11!Finish(valid)
    BY <1>1, <2>4, FinishStep11 DEF M11!Finish
  <2> QED BY <2>1, <2>2, <2>3, <2>4 DEF M11!Next
<1>3. ~ Old'
  BY <1>2, SameReadings
<1> QED BY <1>1, <1>2, <1>3 DEF Inv, Inv10

LEMMA StutterStep ==
    ASSUME Inv, UNCHANGED vars PROVE Inv'
<1>1. /\ request' = request /\ pc' = pc /\ todo' = todo /\ work' = work /\ result' = result
  BY DEF vars
<1>2. request' \in Requests
  BY <1>1 DEF Inv
<1>3. Inv10'
  <2>1. /\ Whole(work)' <=> Whole(work)
        /\ Collected10(work, DOMAIN request.artifacts \ todo)' <=>
              Collected10(work, DOMAIN request.artifacts \ todo)
        /\ Settled(work)' <=> Settled(work)
        /\ Sorted(todo)' <=> Sorted(todo)
    BY <1>1, SameCollected DEF Whole
  <2>2. M10!ModelOf(work)' = M10!ModelOf(work) /\ M10!EmptyWork' = M10!EmptyWork
    BY <1>1 DEF M10!ModelOf, M10!EmptyWork
  <2>3. (Materialized' <=> Materialized) /\ (Old' <=> Old)
    BY <1>1, SameReadings DEF Materialized
  <2> QED BY <1>1, <2>1, <2>2, <2>3 DEF Inv, Inv10
<1>4. Inv11'
  <2>1. \A m : /\ LeftAfter(todo, m)' <=> LeftAfter(todo, m)
               /\ ReadWhole(work.readings, m)' <=> ReadWhole(work.readings, m)
    BY <1>1, SameReadings
  <2>2. (Materialized' <=> Materialized) /\ (Old' <=> Old)
    BY <1>1, SameReadings DEF Materialized
  <2>3. ReadWhole(work.readings, Len(request.artifacts))' <=>
            ReadWhole(work.readings, Len(request.artifacts))
    BY <1>1, SameReadings
  <2> QED BY <1>1, <2>1, <2>2, <2>3 DEF Inv, Inv11
<1> QED BY <1>2, <1>3, <1>4 DEF Inv

(* The invariant holds of every behaviour of the two operations.           *)
THEOREM InvariantHolds == Spec => []Inv
<1>1. Init => Inv
  BY InitInv10, InitInv11 DEF Init, Inv
<1>2. Inv /\ [Next]_vars => Inv'
  BY OldStep, ForwardStep, StutterStep DEF Next
<1> QED BY <1>1, <1>2, PTL DEF Spec

(***************************************************************************)
(* What the invariant says of a materialized model.                        *)
(***************************************************************************)
LEMMA OldModel ==
    ASSUME Inv, Old, Materialized
    PROVE  /\ Settled(work)
           /\ result.model.entities = work.known
           /\ result.model.relationships = work.relationships
           /\ result.model.unresolved = work.unresolved
<1>1. Settled(work) /\ result.model = M10!ModelOf(work)
  BY DEF Inv, Inv10
<1>2. EntityIds(work) = work.known
  BY <1>1 DEF Settled, EntitiesCollected
<1> QED BY <1>1, <1>2 DEF M10!ModelOf, EntityIds

LEMMA ForwardModel ==
    ASSUME Inv, ~Old, Materialized
    PROVE  LET n == Len(request.artifacts)
               model == result.model
           IN  /\ n \in Nat /\ DOMAIN request.artifacts = 1 .. n
               /\ \A k \in 1 .. n : Reading(k).ok
               /\ model.entities = UNION {{e.id : e \in Reading(k).entities} : k \in 1 .. n}
               /\ model.relationships = UNION {Reading(k).relationships : k \in 1 .. n}
               /\ \A j, k \in 1 .. n : \A d \in Reading(j).entities, e \in Reading(k).entities :
                     d.id = e.id => j = k
               /\ \A k \in 1 .. n : ItemsOf(Reading(k).unresolved) \subseteq ItemsOf(model.unresolved)
<1> DEFINE n == Len(request.artifacts)
           readings == work.readings
           model == result.model
<1>1. n \in Nat /\ DOMAIN request.artifacts = 1 .. n
  BY BasisTyped DEF Inv
<1>2. /\ readings = [k \in 1 .. n |-> Reading(k)] /\ \A k \in 1 .. n : Reading(k).ok
      /\ ~ M11!AssemblyFails(readings) /\ model = M11!Assemble(readings)
  BY DEF Inv, Inv11, ReadWhole
<1> HIDE DEF n, readings, model
<1>3. DOMAIN readings = 1 .. n /\ \A k \in 1 .. n : readings[k] = Reading(k)
  BY <1>2
<1>4. M11!ItemsOf(readings) = {Reading(k) : k \in 1 .. n}
  BY <1>3 DEF M11!ItemsOf
<1>5. /\ model.entities = UNION {{e.id : e \in Reading(k).entities} : k \in 1 .. n}
      /\ model.relationships = UNION {Reading(k).relationships : k \in 1 .. n}
  <2>1. /\ model.entities = UNION {{e.id : e \in r.entities} : r \in M11!ItemsOf(readings)}
        /\ model.relationships = UNION {r.relationships : r \in M11!ItemsOf(readings)}
    BY <1>2 DEF M11!Assemble
  <2> QED BY <1>4, <2>1
<1>6. ASSUME NEW j \in 1 .. n, NEW k \in 1 .. n,
             NEW d \in Reading(j).entities, NEW e \in Reading(k).entities, d.id = e.id
      PROVE  j = k
  <2>1. \A p, q \in 1 .. n :
           p < q => {x.id : x \in Reading(p).entities} \cap {x.id : x \in Reading(q).entities} = {}
    BY <1>2, <1>3 DEF M11!AssemblyFails
  <2>2. d.id \in {x.id : x \in Reading(j).entities} \cap {x.id : x \in Reading(k).entities}
    BY <1>6
  <2>3. ~ (j < k) /\ ~ (k < j)
    BY <2>1, <2>2
  <2> QED BY <1>1, <2>3
<1>7. \A k \in 1 .. n : ItemsOf(Reading(k).unresolved) \subseteq ItemsOf(model.unresolved)
  <2>1. ASSUME NEW k \in 1 .. n
        PROVE  \E S : readings[k].unresolved \in Seq(S) /\ \A u \in S : u.at \in Nat \ {0}
    <3>1. Doc(k) \in Document
      BY <1>1, ArtifactTyped DEF Inv, n
    <3>2. PICK S : Reading(k).unresolved \in Seq(S) /\ \A u \in S : u.at \in DOMAIN Doc(k).edges
      BY <1>2, <3>1, ReadUnresolved DEF Reading
    <3>3. DOMAIN Doc(k).edges \subseteq Nat \ {0}
      BY <3>1 DEF Document
    <3> QED BY <1>3, <3>2, <3>3
  <2>2. readings = [k \in 1 .. n |-> readings[k]]
    BY <1>2
  <2>3. \A k \in 1 .. n :
           ItemsOf(readings[k].unresolved) \subseteq ItemsOf(M11!Assemble(readings).unresolved)
    BY <1>1, <2>1, <2>2, AssembledOpen
  <2> QED BY <1>2, <1>3, <2>3
<1> QED BY <1>1, <1>2, <1>5, <1>6, <1>7 DEF n, model

LEMMA DeclaredFromInv == Inv => DeclaredOnce
<1> SUFFICES ASSUME Inv, Materialized
             PROVE  /\ result.model.entities =
                          UNION {{IdAt(k, p) : p \in Declares(k)} : k \in DOMAIN request.artifacts}
                    /\ \A j, k \in DOMAIN request.artifacts : \A p \in Declares(j), q \in Declares(k) :
                          IdAt(j, p) = IdAt(k, q) => j = k /\ p = q
  BY DEF DeclaredOnce
<1>1. CASE Old
  <2>1. \A k : Declares(k) = Positions(k) /\ \A p : IdAt(k, p) = SourceId(k, p)
    BY <1>1 DEF Declares, Positions, IdAt, SourceId, Parts, Mapped, Doc
  <2>2. EntitiesCollected(work, DOMAIN request.artifacts) /\ result.model.entities = work.known
    BY <1>1, OldModel DEF Settled
  <2>3. work.known = UNION {SourceIds(Declarations(Doc(k))) : k \in DOMAIN request.artifacts}
    BY <2>2 DEF EntitiesCollected
  <2>4. \A k : SourceIds(Declarations(Doc(k))) = {IdAt(k, p) : p \in Declares(k)}
    BY <2>1 DEF SourceIds, SourceId, Positions
  <2>5. result.model.entities = UNION {{IdAt(k, p) : p \in Declares(k)} : k \in DOMAIN request.artifacts}
    BY <2>2, <2>3, <2>4
  <2>6. \A j, k \in DOMAIN request.artifacts : \A p \in Declares(j), q \in Declares(k) :
           IdAt(j, p) = IdAt(k, q) => j = k /\ p = q
    BY <2>1, <2>2 DEF EntitiesCollected
  <2> QED BY <2>5, <2>6
<1>2. CASE ~Old
  <2> DEFINE n == Len(request.artifacts)
  <2>1. /\ DOMAIN request.artifacts = 1 .. n
        /\ \A k \in 1 .. n : Reading(k).ok
        /\ result.model.entities = UNION {{e.id : e \in Reading(k).entities} : k \in 1 .. n}
        /\ \A j, k \in 1 .. n : \A d \in Reading(j).entities, e \in Reading(k).entities :
              d.id = e.id => j = k
    BY <1>2, ForwardModel
  <2> HIDE DEF n
  <2>2. \A k : /\ Declares(k) = DOMAIN WholeDocument(Doc(k))
               /\ \A p : IdAt(k, p) = WholeDocument(Doc(k))[p].id
    BY <1>2 DEF Declares, IdAt, Parts, Mapped, Doc, WholeDocument
  <2>3. ASSUME NEW k \in 1 .. n
        PROVE  /\ {e.id : e \in Reading(k).entities} = {IdAt(k, p) : p \in Declares(k)}
               /\ \A p, q \in Declares(k) : IdAt(k, p) = IdAt(k, q) => p = q
    <3>1. Doc(k) \in Document
      BY <2>1, ArtifactTyped DEF Inv
    <3> DEFINE r == Reading(k)
    <3>2. r = M11!InterpretDocument(Doc(k), Ref(k)) /\ r.ok
      BY <2>1 DEF Reading
    <3> HIDE DEF r
    <3>3. /\ {e.id : e \in r.entities} = {WholeDocument(Doc(k))[p].id : p \in DOMAIN WholeDocument(Doc(k))}
          /\ \A p, q \in DOMAIN WholeDocument(Doc(k)) :
                WholeDocument(Doc(k))[p].id = WholeDocument(Doc(k))[q].id => p = q
      BY <3>1, <3>2, ReadEntities
    <3> QED BY <2>2, <3>3 DEF r
  <2>4. result.model.entities = UNION {{IdAt(k, p) : p \in Declares(k)} : k \in DOMAIN request.artifacts}
    <3> DEFINE emitted(k) == {e.id : e \in Reading(k).entities}
               declared(k) == {IdAt(k, p) : p \in Declares(k)}
    <3>1. \A k \in 1 .. n : emitted(k) = declared(k)
      BY <2>3
    <3>2. result.model.entities = UNION {emitted(k) : k \in 1 .. n}
      BY <2>1
    <3> HIDE DEF emitted, declared
    <3>3. result.model.entities = UNION {declared(k) : k \in 1 .. n}
      BY <3>1, <3>2
    <3> QED BY <2>1, <3>3 DEF declared
  <2>5. ASSUME NEW j \in 1 .. n, NEW k \in 1 .. n, NEW p \in Declares(j), NEW q \in Declares(k),
               IdAt(j, p) = IdAt(k, q)
        PROVE  j = k /\ p = q
    <3>1. PICK d \in Reading(j).entities : d.id = IdAt(j, p)
      BY <2>3
    <3>2. PICK e \in Reading(k).entities : e.id = IdAt(k, q)
      BY <2>3
    <3>3. j = k
      BY <2>1, <2>5, <3>1, <3>2
    <3> QED BY <2>3, <2>5, <3>3
  <2> QED BY <2>1, <2>4, <2>5
<1> QED BY <1>1, <1>2

(***************************************************************************)
(* References, in both operations.                                         *)
(***************************************************************************)
LEMMA OldAccounts ==
    ASSUME Inv, Old, Materialized, NEW a \in Basis, NEW at \in Authored(a.document)
    PROVE  LET kept == At(result.model.relationships, a.ref, at)
               open == At(result.model.unresolved, a.ref, at)
           IN  \/ Cardinality(kept) = 1 /\ open = {}
               \/ kept = {} /\ open # {}
<1>1. PICK k \in DOMAIN request.artifacts : a = request.artifacts[k]
  BY DEF Basis, ItemsOf
<1>2. Accounted(work, DOMAIN request.artifacts)
  BY OldModel DEF Settled
<1>3. AccountedAt(work, a.ref, at)
  BY <1>1, <1>2 DEF Accounted, Doc, Ref
<1>4. \A r : Cardinality({r}) = 1
  BY FS_Singleton
<1> QED BY <1>3, <1>4, OldModel DEF AccountedAt

LEMMA ForwardAccounts ==
    ASSUME Inv, ~Old, Materialized, NEW a \in Basis, HasOwnRef(a), NEW at \in Authored(a.document)
    PROVE  LET kept == At(result.model.relationships, a.ref, at)
               open == {u \in ItemsOf(result.model.unresolved) :
                           at = <<"edges", u.at>>
                           /\ u.missing \subseteq {a.document.edges[u.at].from,
                                                   a.document.edges[u.at].to}}
           IN  \/ Cardinality(kept) = 1
               \/ kept = {} /\ open # {}
<1> DEFINE n == Len(request.artifacts)
           doc == a.document
           results == M11!RelationshipResults(doc, a.ref)
           kept == At(result.model.relationships, a.ref, at)
<1>1. /\ DOMAIN request.artifacts = 1 .. n
      /\ \A k \in 1 .. n : Reading(k).ok
      /\ result.model.relationships = UNION {Reading(k).relationships : k \in 1 .. n}
      /\ \A k \in 1 .. n : ItemsOf(Reading(k).unresolved) \subseteq ItemsOf(result.model.unresolved)
  BY ForwardModel
<1>2. PICK k \in 1 .. n : a = request.artifacts[k]
  BY <1>1 DEF Basis, ItemsOf
<1> HIDE DEF n
<1>3. \A j \in 1 .. n : Reading(j) = M11!InterpretDocument(Doc(j), Ref(j))
  BY DEF Reading
<1>4. Doc(k) = doc /\ Ref(k) = a.ref /\ doc \in Document
  <2>1. Doc(k) = doc /\ Ref(k) = a.ref
    BY <1>2 DEF Doc, Ref
  <2>2. Doc(k) \in Document
    BY <1>1, ArtifactTyped DEF Inv
  <2> QED BY <2>1, <2>2
<1>5. ASSUME NEW j \in 1 .. n, NEW r \in Reading(j).relationships, r.ref = a.ref
      PROVE  r \in Reading(k).relationships
  <2>1. r.ref = Ref(j)
    BY <1>1, <1>3, ReadRelationships
  <2>2. request.artifacts[j] \in Basis /\ request.artifacts[j].ref = a.ref
    BY <1>1, <1>5, <2>1 DEF Basis, ItemsOf, Ref
  <2>3. request.artifacts[j] = a
    BY <2>2 DEF HasOwnRef
  <2>4. Reading(j) = Reading(k)
    BY <1>2, <2>3 DEF Reading, Doc, Ref
  <2> QED BY <2>4
<1>6. Reading(k).relationships = M11!RecordsOf("accepted", results)
  BY <1>1, <1>3, <1>4, ReadRelationships
<1>7. kept = At(M11!RecordsOf("accepted", results), a.ref, at)
  <2>1. \A r : r \in result.model.relationships <=> \E j \in 1 .. n : r \in Reading(j).relationships
    BY <1>1
  <2> QED BY <1>5, <1>6, <2>1 DEF At
<1> HIDE DEF kept
<1>8. PICK field, p, q :
         /\ at = <<field, p>> /\ q \in results
         /\ \/ field = "edges" /\ p \in DOMAIN doc.edges /\ q = M11!TopologyRelationship(doc, p, a.ref)
            \/ field = "components" /\ q = M11!CompositionRelationship(doc, p, a.ref)
            \/ field = "relations" /\ q = M11!CustomRelationshipResult(doc, p, a.ref)
  <2>1. CASE at \in {<<"edges", p>> : p \in DOMAIN doc.edges}
    BY <2>1 DEF M11!RelationshipResults
  <2>2. CASE at \in {<<"components", p>> : p \in DOMAIN doc.components}
    BY <2>2 DEF M11!RelationshipResults
  <2>3. CASE at \in {<<"relations", p>> : p \in DOMAIN doc.relations}
    BY <2>3 DEF M11!RelationshipResults
  <2> QED BY <2>1, <2>2, <2>3 DEF Authored
<1>9. kept = IF q.disposition = "accepted" THEN {q.record} ELSE {}
  BY <1>7, <1>8, ResultAt
<1>10. q.disposition # "rejected"
  BY <1>1, <1>3, <1>4, <1>8, ReadRelationships
<1>11. CASE q.disposition = "accepted"
  <2>1. Cardinality({q.record}) = 1
    BY FS_Singleton
  <2> QED BY <1>9, <1>11, <2>1 DEF kept
<1>12. CASE q.disposition # "accepted"
  <2>1. /\ field = "edges" /\ p \in DOMAIN doc.edges /\ q = M11!TopologyRelationship(doc, p, a.ref)
        /\ q.disposition = "unresolved"
    BY <1>8, <1>10, <1>12, ResultKinds
  <2>2. q.record.at = p /\ q.record.missing \subseteq {doc.edges[p].from, doc.edges[p].to}
    BY <2>1, ResultKinds
  <2>3. q.record \in ItemsOf(Reading(k).unresolved)
    <3> DEFINE r == Reading(k)
    <3>1. r = M11!InterpretDocument(doc, a.ref) /\ r.ok
      BY <1>1, <1>3, <1>4
    <3> HIDE DEF r, doc
    <3>2. q.record \in ItemsOf(r.unresolved)
      BY <1>4, <2>1, <3>1, ReadUnresolved
    <3> QED BY <3>2 DEF r
  <2>4. q.record \in ItemsOf(result.model.unresolved)
    BY <1>1, <2>3
  <2>5. at = <<"edges", q.record.at>>
    BY <1>8, <2>1, <2>2
  <2> QED BY <1>9, <1>12, <2>2, <2>4, <2>5 DEF kept
<1> QED BY <1>11, <1>12

LEMMA AccountedFromInv == Inv => ReferencesAccounted
<1> SUFFICES ASSUME Inv, Materialized, NEW a \in Basis, HasOwnRef(a), NEW at \in Authored(a.document)
             PROVE  LET kept == {r \in result.model.relationships : r.ref = a.ref /\ r.at = at}
                        open == IF Old THEN {r \in result.model.unresolved :
                                                r.ref = a.ref /\ r.at = at}
                                ELSE {u \in ItemsOf(result.model.unresolved) :
                                        at = <<"edges", u.at>>
                                        /\ u.missing \subseteq {a.document.edges[u.at].from,
                                                                a.document.edges[u.at].to}}
                    IN  \/ Cardinality(kept) = 1 /\ (Old => open = {})
                        \/ kept = {} /\ open # {}
  BY DEF ReferencesAccounted
<1>1. CASE Old
  BY <1>1, OldAccounts DEF At
<1>2. CASE ~Old
  BY <1>2, ForwardAccounts DEF At
<1> QED BY <1>1, <1>2

(* What the documents of the basis declare is in the identity index that   *)
(* related_adrs are looked up in.                                          *)
LEMMA KnownIndexed ==
    ASSUME NEW w, EntitiesCollected(w, DOMAIN request.artifacts)
    PROVE  w.known \subseteq M10!IdentityIndex /\ NONE \notin w.known
<1> SUFFICES ASSUME NEW id \in w.known PROVE id # NONE /\ id \in M10!IdentityIndex
  OBVIOUS
<1>1. PICK k \in DOMAIN request.artifacts : id \in SourceIds(Declarations(Doc(k)))
  BY DEF EntitiesCollected
<1>2. PICK p \in Positions(k) : id = SourceId(k, p)
  BY <1>1 DEF SourceIds, SourceId, Positions
<1>3. id # NONE
  BY <1>2 DEF EntitiesCollected
<1> DEFINE x == Declarations(Doc(k))[p]
           a == request.artifacts[k]
<1>4. id = M10!Indexed(x.id)
  BY <1>2, <1>3, SourceIdMapped DEF SourceId
<1>5. M10!Declarations(a.document) = Declarations(Doc(k))
  BY DEF Doc, Declarations, Root, PartsBefore, PartsAfter, M10!Declarations, M10!Root, M10!PartsBefore,
         M10!PartsAfter
<1>6. x \in M10!ItemsOf(M10!Declarations(a.document)) /\ a \in M10!ItemsOf(request.artifacts)
  BY <1>5 DEF M10!ItemsOf, Positions
<1> HIDE DEF x, a
<1>7. id \in UNION {{M10!Indexed(y.id) : y \in M10!ItemsOf(M10!Declarations(b.document))} :
                       b \in M10!ItemsOf(request.artifacts)}
  BY <1>4, <1>6
<1> QED BY <1>3, <1>7 DEF M10!IdentityIndex

LEMMA ResolvedFromInv == Inv => ResolvedWhenDeclared
<1> SUFFICES ASSUME Inv, Old, Materialized, NEW r \in result.model.unresolved
             PROVE  CASE r.at[1] = "components" -> r.to \notin EarlierIds(r)
                      [] r.at[1] = "related" -> M10!Indexed(r.to) \notin result.model.entities
                      [] OTHER -> ~({r.from, r.to} \subseteq result.model.entities)
  BY DEF ResolvedWhenDeclared
<1>1. LeftSound(work, r) /\ result.model.entities = work.known
  BY OldModel DEF Settled
<1>2. work.known \subseteq M10!IdentityIndex /\ NONE \notin work.known
  BY OldModel, KnownIndexed DEF Settled
<1>3. CASE r.at[1] = "components"
  BY <1>1, <1>3 DEF LeftSound, OpenSound
<1>4. CASE r.at[1] = "related"
  BY <1>1, <1>2, <1>4 DEF LeftSound, OpenSound
<1>5. CASE r.at[1] \notin {"components", "related"}
  <2>1. NONE \in {r.from, r.to} \/ ~ ({r.from, r.to} \subseteq work.known)
    BY <1>1, <1>5 DEF LeftSound, OpenSound
  <2> QED BY <1>1, <1>2, <1>5, <2>1
<1> QED BY <1>3, <1>4, <1>5

(* A materialized model holds what its basis declares, once: no artifact   *)
(* is skipped and no two declarations meet in one entity, whatever the     *)
(* documents and their order, in both operations.                          *)
THEOREM DeclaredOnceHolds == Spec => []DeclaredOnce
BY InvariantHolds, DeclaredFromInv, PTL

(* Every reference of every document of a materialized basis is one        *)
(* relationship of the model or unresolved in it, and never both.          *)
THEOREM ReferencesAccountedHolds == Spec => []ReferencesAccounted
BY InvariantHolds, AccountedFromInv, PTL

(* An unresolved item of operation 1.0 has an end that nothing declares; a *)
(* topology member, one that no earlier artifact declares.                 *)
THEOREM ResolvedWhenDeclaredHolds == Spec => []ResolvedWhenDeclared
BY InvariantHolds, ResolvedFromInv, PTL
=============================================================================
