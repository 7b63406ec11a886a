------------------------- MODULE IdentityMigration -------------------------
(***************************************************************************)
(* IdentityV13Migrator: a map from every legacy identifier of the corpus   *)
(* to a UUID is planned, reviewed and sealed, and applied to all documents *)
(* at once.  Commands run one at a time, days apart, while people add,     *)
(* remove and revise; an apply may be killed in its commit, and its        *)
(* journal recovered.  AuthorityTransaction shows what a kill leaves: some *)
(* of the writes, in order, and a backup of every document.                *)
(***************************************************************************)
EXTENDS Naturals, FiniteSets, Functions

CONSTANTS
    Doc, Entity, Alias, Reference,
    Home,          \* the document that declares an entity
    Root,          \* the entity that is the document itself
    AliasOf,       \* the legacy identifier of an entity
    NameOf,        \* the alias name proposed for it
    From, To,      \* the document a reference stands in, the entity it names
    Place,         \* the place of an entity in the order of paths and pointers
    Absent, Deleted, None, Dropped,
    MaxPlans,      \* bound: identity maps ever planned
    Replacements,  \* bound: UUIDs that people may write into a map
    LegacyOnly,    \* whether no document is written in schema 1.3 before the migration
    RecoverFirst   \* whether an interrupted apply is recovered before anything else

ASSUME ShapeAssumption ==
    /\ Home \in [Entity -> Doc] /\ Root \in [Doc -> Entity]
    /\ \A d \in Doc : Home[Root[d]] = d
    /\ AliasOf \in [Entity -> Alias]
    /\ From \in [Reference -> Doc] /\ To \in [Reference -> Entity]
    /\ Place \in [Entity -> Nat]
ASSUME SwitchAssumption == LegacyOnly \in BOOLEAN /\ RecoverFirst \in BOOLEAN

VARIABLES
    docs,       \* the documents
    maps,       \* the maps planned so far, candidates or sealed
    mapFile,    \* adrs/migrations/canonical-identity-v13-map.yaml
    journals    \* the backups of the applies that were killed

vars == <<docs, maps, mapFile, journals>>

(* A UUID is named after the plan that minted it and the entity it was      *)
(* minted for; people's own are of plan 0, new ones they write into map k   *)
(* of MaxPlans + k.                                                         *)
UUID == (0 .. 2 * MaxPlans) \X Entity

ASSUME BoundAssumption == MaxPlans \in Nat /\ Replacements \subseteq UUID

EntitiesOf(d) == {e \in Entity : Home[e] = d}
ReferencesOf(d) == {r \in Reference : From[r] = d}

Present(d) == docs[d] \notin {Absent, Deleted}
Written == {d \in Doc : Present(d)}
Id(e) == docs[Home[e]].id[e]

(* Mutant: nested entities are not found. *)
BaselineOfRoots == [e \in {Root[d] : d \in Written} |-> Id(e)]

(* What _inventory finds: the occurrences, and the identifier of each. Its   *)
(* fingerprint is the baseline; the rest of a document is not part of it.   *)
Baseline == [e \in {x \in Entity : Present(Home[x])} |-> Id(e)]

(* Mutant: duplicates are not looked for. *)
PreflightAny == TRUE

(* No identifier occurs twice. *)
Preflight == IsInjective(Baseline)

-----------------------------------------------------------------------------
(* Maps.  An entry's alias_id is the identifier found at planning, base[e].  *)

(* Names proposed twice go to review, the first in path order does not.     *)
ToReview(base) ==
    {e \in DOMAIN base : \E f \in DOMAIN base :
        /\ NameOf[f] = NameOf[e] /\ base[f] # base[e]
        /\ Place[f] < Place[e]}

Intent(m) == [base |-> m.base, uuid |-> m.uuid, accepted |-> m.accepted]

(* Mutant: the fingerprint of the seal is not compared. *)
VerifiedUnprinted(m) == m.seal # None /\ m.accepted = DOMAIN m.base

(* verify_sealed *)
Verified(m) == m.seal = Intent(m) /\ m.accepted = DOMAIN m.base

Known(m) == {m.base[e] : e \in DOMAIN m.base}
EntryOf(m, i) == CHOOSE e \in DOMAIN m.base : m.base[e] = i

(* Mutant: a document's references are rewritten to its own entities only.  *)
RewrittenLocally(m, d) ==
    LET doc == docs[d]
        new == {e \in EntitiesOf(d) : doc.id[e] \in Known(m) /\ (e = Root[d] \/ doc.alias[e] = None)}
    IN IF doc.id[Root[d]] \notin Known(m) THEN doc
       ELSE [v13 |-> TRUE,
             id |-> [e \in EntitiesOf(d) |->
                        IF e \in new THEN m.uuid[EntryOf(m, doc.id[e])] ELSE doc.id[e]],
             alias |-> [e \in EntitiesOf(d) |-> IF e \in new THEN doc.id[e] ELSE doc.alias[e]],
             ref |-> [r \in ReferencesOf(d) |->
                        CASE doc.ref[r] \in {doc.id[e] : e \in new} -> m.uuid[EntryOf(m, doc.ref[r])]
                          [] doc.ref[r] \in Alias -> Dropped
                          [] OTHER -> doc.ref[r]]]

(* _build_writes: the document's own identity, that of every nested entity  *)
(* that has no alias_id yet, and the references; a legacy identifier that   *)
(* nothing declares is dropped.                                             *)
Rewritten(m, d) ==
    LET doc == docs[d]
        new == {e \in EntitiesOf(d) : doc.id[e] \in Known(m) /\ (e = Root[d] \/ doc.alias[e] = None)}
        Target(i) == CASE i \in Known(m) -> m.uuid[EntryOf(m, i)]
                       [] i \in Alias \ Known(m) -> Dropped
                       [] OTHER -> i
    IN IF doc.id[Root[d]] \notin Known(m) THEN doc
       ELSE [v13 |-> TRUE,
             id |-> [e \in EntitiesOf(d) |->
                        IF e \in new THEN m.uuid[EntryOf(m, doc.id[e])] ELSE doc.id[e]],
             alias |-> [e \in EntitiesOf(d) |-> IF e \in new THEN doc.id[e] ELSE doc.alias[e]],
             ref |-> [r \in ReferencesOf(d) |-> Target(doc.ref[r])]]

-----------------------------------------------------------------------------
Init ==
    /\ docs = [d \in Doc |-> Absent]
    /\ maps = [k \in 1..MaxPlans |-> None]
    /\ mapFile = Absent
    /\ journals = {}

Free == RecoverFirst => journals = {}

(* plan mints a UUID for every occurrence. *)
Plan(k) ==
    /\ Free /\ maps[k] = None /\ Preflight
    /\ \A j \in 1..(k - 1) : maps[j] # None
    /\ maps' = [maps EXCEPT ![k] =
                  [base |-> Baseline, uuid |-> [e \in DOMAIN Baseline |-> <<k, e>>],
                   accepted |-> DOMAIN Baseline \ ToReview(Baseline), seal |-> None]]
    /\ UNCHANGED <<docs, mapFile, journals>>

(* seal: a person accepts what is to review, and may turn the rest down.    *)
Seal(k) ==
    /\ Free /\ maps[k] # None /\ maps[k].seal = None
    /\ \E turned \in {{}, DOMAIN maps[k].base \ ToReview(maps[k].base)} :
          LET m == [maps[k] EXCEPT !.accepted = DOMAIN maps[k].base \ turned]
          IN maps' = [maps EXCEPT ![k] = [m EXCEPT !.seal = Intent(m)]]
    /\ UNCHANGED <<docs, mapFile, journals>>

(* A person edits a map, sealed or not; one entry at most.  Any UUID will    *)
(* do: nothing asks whether another entry, map or document has it already.  *)
Revise(k) ==
    /\ Free /\ maps[k] # None
    /\ \A e \in DOMAIN maps[k].uuid : maps[k].uuid[e] = <<k, e>>
    /\ \E e \in DOMAIN maps[k].uuid, u \in Replacements :
          maps' = [maps EXCEPT ![k].uuid[e] = u]
    /\ UNCHANGED <<docs, mapFile, journals>>

Admitted(k) == Free /\ maps[k] # None /\ Verified(maps[k]) /\ maps[k].base = Baseline

(* Mutant: the map is written over one that exists. *)
ApplyOver(k) ==
    /\ Admitted(k)
    /\ docs' = [d \in Doc |-> IF Present(d) THEN Rewritten(maps[k], d) ELSE docs[d]]
    /\ mapFile' = maps[k]
    /\ UNCHANGED <<maps, journals>>

(* apply: the map is a create write, so the transaction aborts if there is   *)
(* one.  An apply that is refused, or rolled back, changes nothing.         *)
Apply(k) ==
    /\ Admitted(k) /\ mapFile = Absent
    /\ docs' = [d \in Doc |-> IF Present(d) THEN Rewritten(maps[k], d) ELSE docs[d]]
    /\ mapFile' = maps[k]
    /\ UNCHANGED <<maps, journals>>

(* Killed after the documents up to a place in path order, and perhaps the  *)
(* map, which comes last.                                                   *)
ApplyDies(k) ==
    /\ Admitted(k) /\ mapFile = Absent
    /\ \E done \in {{d \in Written : Place[Root[d]] < Place[Root[f]]} : f \in Written} \cup {Written} :
          /\ docs' = [d \in Doc |-> IF d \in done THEN Rewritten(maps[k], d) ELSE docs[d]]
          /\ mapFile' \in {Absent} \cup (IF done = Written THEN {maps[k]} ELSE {})
    /\ journals' = journals \cup {[d \in Written |-> docs[d]]}
    /\ UNCHANGED maps

(* recover puts every backup back and removes the map.                      *)
Recover(j) ==
    /\ docs' = [d \in Doc |-> IF d \in DOMAIN j THEN j[d] ELSE docs[d]]
    /\ mapFile' = Absent
    /\ journals' = journals \ {j}
    /\ UNCHANGED maps

(* Mutant: only the schema versions are looked at. *)
CheckVersions(m) == Verified(m) /\ \A d \in Written : docs[d].v13

(* check, which reads the identity of the documents, not of nested entities. *)
CheckPasses(m) ==
    /\ Verified(m)
    /\ \A d \in Written :
          /\ docs[d].v13
          /\ docs[d].alias[Root[d]] \in Known(m) =>
                docs[d].id[Root[d]] = m.uuid[EntryOf(m, docs[d].alias[Root[d]])]

-----------------------------------------------------------------------------
(* A document as a person writes it, in schema 1.3 or not: its references    *)
(* are what their targets are called at the time.                           *)
Authored(d, v) ==
    LET id == [e \in EntitiesOf(d) |-> IF v THEN <<0, e>> ELSE AliasOf[e]]
        Name(e) == CASE Home[e] = d -> id[e]
                     [] Home[e] # d /\ Present(Home[e]) -> Id(e)
                     [] OTHER -> AliasOf[e]
    IN [v13 |-> v, id |-> id,
        alias |-> [e \in EntitiesOf(d) |-> IF v THEN AliasOf[e] ELSE None],
        ref |-> [r \in ReferencesOf(d) |-> Name(To[r])]]

(* People add and remove documents. *)
Add(d) ==
    /\ Free /\ docs[d] = Absent
    /\ \E v \in BOOLEAN :
          /\ v /\ LegacyOnly => mapFile # Absent
          /\ docs' = [docs EXCEPT ![d] = Authored(d, v)]
    /\ UNCHANGED <<maps, mapFile, journals>>

Remove(d) ==
    /\ Free /\ Present(d)
    /\ docs' = [docs EXCEPT ![d] = Deleted]
    /\ UNCHANGED <<maps, mapFile, journals>>

Next ==
    \/ \E k \in 1..MaxPlans : Plan(k) \/ Seal(k) \/ Revise(k) \/ Apply(k) \/ ApplyDies(k)
    \/ \E j \in journals : Recover(j)
    \/ \E d \in Doc : Add(d) \/ Remove(d)

Spec == Init /\ [][Next]_vars

-----------------------------------------------------------------------------
Identifier == Alias \cup UUID

DocumentOf(d) ==
    [v13 : BOOLEAN, id : [EntitiesOf(d) -> Identifier],
     alias : [EntitiesOf(d) -> Identifier \cup {None}],
     ref : [ReferencesOf(d) -> Identifier \cup {Dropped}]]

(* Maps of the entities E. *)
ContentOn(E) == [base : [E -> Identifier], uuid : [E -> UUID], accepted : SUBSET E]
MapOn(E) ==
    [base : [E -> Identifier], uuid : [E -> UUID], accepted : SUBSET E,
     seal : ContentOn(E) \cup {None}]

ASSUME DistinctAssumption ==
    /\ Alias \cap UUID = {}
    /\ None \notin Identifier /\ Absent # Deleted
    /\ \A E \in SUBSET Entity : Absent \notin MapOn(E) /\ None \notin MapOn(E) \cup ContentOn(E)
    /\ \A d \in Doc : Absent \notin DocumentOf(d) /\ Deleted \notin DocumentOf(d)

(* Variables keep their types; a document of schema 1.3 has an alias for    *)
(* every identity, and a legacy document has none.                          *)
MigrationTypeOK ==
    /\ \A d \in Doc : docs[d] \in DocumentOf(d) \cup {Absent, Deleted}
    /\ \A d \in Written : \A e \in EntitiesOf(d) :
          docs[d].v13 <=> docs[d].alias[e] # None
    /\ \A k \in 1..MaxPlans : maps[k] # None =>
          /\ DOMAIN maps[k].base \subseteq Entity
          /\ maps[k] \in MapOn(DOMAIN maps[k].base)

(* "Never silently remints recorded v1.3 identities": only recovery takes a  *)
(* UUID back.                                                               *)
MintedOnce ==
    [][\A d \in Doc : \A e \in EntitiesOf(d) :
          Present(d) /\ Present(d)' /\ Id(e) \in UUID =>
             Id(e)' = Id(e) \/ \E j \in journals : Recover(j)]_vars

(* A person who replaces a UUID of a map writes one that nobody has.  The    *)
(* code does not look: what is sealed and applied may say anything.         *)
RevisedAfresh ==
    \A k \in 1..MaxPlans : maps[k] # None =>
        \A e \in DOMAIN maps[k].uuid : maps[k].uuid[e] \in {<<k, e>>, <<MaxPlans + k, e>>}

(* No two entities share a UUID, unless people wrote one into a map twice.   *)
IdentitiesDistinct ==
    RevisedAfresh => \A e, f \in Entity :
        e # f /\ Present(Home[e]) /\ Present(Home[f]) /\ Id(e) \in UUID => Id(e) # Id(f)

Resolves(r) ==
    Present(From[r]) /\ Present(Home[To[r]]) /\ docs[From[r]].ref[r] = Id(To[r])

(* "No retargeting or new dangling references": a reference that names its   *)
(* entity still does after every step but a kill, which recovery follows.   *)
ReferencesKept ==
    [][journals' = {} => \A r \in Reference :
          Resolves(r) /\ Present(From[r])' /\ Present(Home[To[r]])' => Resolves(r)']_vars

(* Between migrations the identity map on disk is what was sealed, and the   *)
(* documents it covers have the UUIDs that it records.                      *)
MapDescribesCorpus ==
    journals = {} /\ mapFile # Absent =>
        \A e \in DOMAIN mapFile.base :
            Present(Home[e]) => Id(e) = mapFile.seal.uuid[e]

(* What check accepts of an interrupted or finished migration, given a map   *)
(* planned for a legacy corpus, is complete: nested entities, which check   *)
(* does not read, have the identities of the map too, unless people copied  *)
(* a UUID from one map to another.                                          *)
CheckIsSound ==
    RevisedAfresh => \A k \in 1..MaxPlans :
        maps[k] # None /\ Known(maps[k]) \subseteq Alias /\ CheckPasses(maps[k]) =>
        \A e \in DOMAIN maps[k].base :
            Present(Home[e]) => Id(e) = maps[k].uuid[e]
=============================================================================
