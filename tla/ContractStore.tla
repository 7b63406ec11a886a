---------------------------- MODULE ContractStore ----------------------------
(***************************************************************************)
(* A retained corpus and the hosts that add sets to it.  The records of    *)
(* governance (definitions, qualifications, catalog, policy, pointer) are  *)
(* files their owners edit; a set artifact is a file the host writes: it   *)
(* asks the core to assemble the set and, approved, writes the file if it  *)
(* does not exist.  The write is in place, and hosts do not lock.          *)
(***************************************************************************)
EXTENDS ContractSet, Naturals

CONSTANTS Hosts,
          Starts,        \* [governance, written]: where to start from
          Names,         \* the compositions a file may be written for, by file name
          Requests,      \* [profile, members, operation, direction]
          Additions,     \* [kind, value]: what an owner may add to a record
          Pointers,      \* what the pointer may be set to
          MaxEdits       \* bound on the owners' edits

(* Members are parsed into records of these three fields, and a file name  *)
(* stands for one composition.  Manifests, the dependencies of their       *)
(* entries, and resources are parsed into lists.                           *)
IsMember(m) == m = [family |-> m.family, version |-> m.version, fingerprint |-> m.fingerprint]

IsComposition(members) == IsFiniteSet(members) /\ \A m \in members : IsMember(m)

IsList(s) == s \in Seq(ToSet(s))

IsRecords(x) ==
    /\ x = [governed |-> x.governed, revision |-> x.revision, entries |-> x.entries]
    /\ IsList(x.entries)

IsGovernance(g) ==
    /\ g = [definitions |-> g.definitions, qualifications |-> g.qualifications,
            catalog |-> g.catalog, policy |-> g.policy, current |-> g.current]
    /\ IsList(g.definitions) /\ IsList(g.qualifications)
    /\ IsRecords(g.catalog) /\ IsRecords(g.policy)

IsBundle(b) ==
    /\ IsList(b.definition.manifest) /\ IsList(b.resources)
    /\ \A e \in ToSet(b.definition.manifest) :
           /\ e = [key |-> e.key, digest |-> e.digest, role |-> e.role, deps |-> e.deps]
           /\ IsList(e.deps)

Bundles ==
    (UNION {ToSet(start.governance.definitions) : start \in Starts})
    \cup {x.value : x \in {y \in Additions : y.kind = "definitions"}}

ASSUME ContractStoreAssumption ==
    /\ DOMAIN Names \subseteq Nat
    /\ \A i, j \in DOMAIN Names : Names[i] = Names[j] => i = j
    /\ \A i \in DOMAIN Names : IsComposition(Names[i])
    /\ \A r \in Requests : IsComposition(r.members)
    /\ \A start \in Starts : /\ IsGovernance(start.governance)
                             /\ \A members \in start.written : IsComposition(members)
    /\ \A b \in Bundles : IsBundle(b)

VARIABLES governance,  \* [definitions, qualifications, catalog, policy, current]
          files,       \* set id -> NONE, "torn" or the artifact in its file
          host,        \* Hosts -> [pc, id, artifact, on]
          edits

vars == <<governance, files, host, edits>>

Absent == [file |-> "absent"]

Torn == [file |-> "torn"]

Written(artifact) == [file |-> "whole", artifact |-> artifact]

Ids == {ContractSetId(Names[i]) : i \in DOMAIN Names}

Idle == [pc |-> "idle"]

Init == /\ \E start \in Starts :
               /\ governance = start.governance
               /\ files = [id \in Ids |->
                              IF \E members \in start.written : ContractSetId(members) = id
                              THEN Written(ArtifactFor(CHOOSE members \in start.written :
                                                          ContractSetId(members) = id))
                              ELSE Absent]
        /\ host = [h \in Hosts |-> Idle]
        /\ edits = 0

(***************************************************************************)
(* The corpus a caller sends: the artifacts that can be read, by name.     *)
(***************************************************************************)
RetainedArtifacts ==
    [i \in {j \in DOMAIN Names : files[ContractSetId(Names[j])].file = "whole"} |->
        files[ContractSetId(Names[i])].artifact]

Corpus(profile) ==
    [profile |-> profile, definitions |-> governance.definitions, sets |-> RetainedArtifacts,
     qualifications |-> governance.qualifications, catalog |-> governance.catalog,
     policy |-> governance.policy, current |-> governance.current]

(***************************************************************************)
(* Applying an assembly.  A refused one and a no-op change nothing; the    *)
(* record sent with the request is one of the retained ones.               *)
(***************************************************************************)
Preview(h) ==
    /\ host[h].pc = "idle"
    /\ \E r \in Requests, q \in ToSet(governance.qualifications) :
           LET a == [members |-> r.members, operation |-> r.operation,
                     direction |-> r.direction, qualification |-> q]
               c == Corpus(r.profile)
           IN  /\ Assemble(c, a) = {}
               /\ Emitted(c, a) # NONE
               /\ host' = [host EXCEPT ![h] =
                              [pc |-> "approved", artifact |-> Emitted(c, a), on |-> c]]
    /\ UNCHANGED <<governance, files, edits>>

Target(h) == host[h].artifact.id

(* The file exists: equal it is a no-op, different the host raises.        *)
FindTarget(h) ==
    /\ host[h].pc = "approved"
    /\ files[Target(h)] # Absent
    /\ host' = [host EXCEPT ![h] = Idle]
    /\ UNCHANGED <<governance, files, edits>>

MissTarget(h) ==
    /\ host[h].pc = "approved"
    /\ files[Target(h)] = Absent
    /\ host' = [host EXCEPT ![h].pc = "writing"]
    /\ UNCHANGED <<governance, files, edits>>

OpenTarget(h) ==
    /\ host[h].pc = "writing"
    /\ files' = [files EXCEPT ![Target(h)] = Torn]
    /\ host' = [host EXCEPT ![h].pc = "open"]
    /\ UNCHANGED <<governance, edits>>

FillTarget(h) ==
    /\ host[h].pc = "open"
    /\ files' = [files EXCEPT ![Target(h)] = Written(host[h].artifact)]
    /\ host' = [host EXCEPT ![h] = Idle]
    /\ UNCHANGED <<governance, edits>>

Kill(h) ==
    /\ host[h].pc # "idle"
    /\ host' = [host EXCEPT ![h] = Idle]
    /\ UNCHANGED <<governance, files, edits>>

(***************************************************************************)
(* The owners: a record is appended, with the revision of the file it is   *)
(* in; the pointer is set.                                                 *)
(***************************************************************************)
Add(kind) ==
    /\ edits < MaxEdits
    /\ edits' = edits + 1
    /\ \E x \in Additions :
           /\ x.kind = kind
           /\ governance' =
                  IF kind \in {"catalog", "policy"}
                  THEN [governance EXCEPT ![kind].entries = Append(@, x.value),
                                          ![kind].revision = @ + 1]
                  ELSE [governance EXCEPT ![kind] = Append(@, x.value)]
    /\ UNCHANGED <<files, host>>

Point ==
    /\ edits < MaxEdits
    /\ edits' = edits + 1
    /\ \E p \in Pointers :
           governance' = [governance EXCEPT !.current =
                             [p EXCEPT !.catalogRevision = governance.catalog.revision,
                                       !.policyRevision = governance.policy.revision]]
    /\ UNCHANGED <<files, host>>

(* A set file edited by hand: other members under its name.                *)
Tamper ==
    /\ edits < MaxEdits
    /\ edits' = edits + 1
    /\ \E id \in Ids, i \in DOMAIN Names :
           /\ files[id].file = "whole"
           /\ files[id].artifact.members # Names[i]
           /\ files' = [files EXCEPT ![id].artifact.members = Names[i]]
    /\ UNCHANGED <<governance, host>>

Next == \/ \E h \in Hosts : \/ Preview(h)
                            \/ FindTarget(h)
                            \/ MissTarget(h)
                            \/ OpenTarget(h)
                            \/ FillTarget(h)
                            \/ Kill(h)
        \/ Add("definitions")
        \/ Add("qualifications")
        \/ Add("catalog")
        \/ Add("policy")
        \/ Point
        \/ Tamper

Spec == Init /\ [][Next]_vars
-----------------------------------------------------------------------------
Profiles == {r.profile : r \in Requests}

ExactRequests ==
    [set : Ids, operation : {r.operation : r \in Requests}, direction : {"none"},
     mode : {"new", "historical"}]

(* A definition that verifies with its resources is sealed: dependencies   *)
(* never lead back to where they started, and any other bundle that        *)
(* verifies under the same fingerprint has the same contents and binds     *)
(* them to the same projections.                                           *)
Contents(b) == [key \in Keys(b.resources) |-> Entry(b.resources, key).content]

Projections(b) ==
    [key \in Keys(b.resources) |-> BindConformance(b.definition, b.resources, key)]

DependsOn(b, key, other) == other \in Keys(Entry(b.definition.manifest, key).deps)

(* A set of keys, each with a dependency among them: somewhere it goes round. *)
LeadsBack(b) ==
    \E part \in (SUBSET Keys(b.definition.manifest)) \ {{}} :
        \A key \in part : \E other \in part : DependsOn(b, key, other)

VerifiedIsSealed ==
    \A b \in ToSet(governance.definitions) :
        VerifyBundle(b) = {} =>
            /\ ~ LeadsBack(b)
            /\ \A c \in Bundles :
                   VerifyBundle(c) = {} /\ c.definition.declared = b.definition.declared =>
                       Contents(b) = Contents(c) /\ Projections(b) = Projections(c)

(* Under one profile a corpus has at most one set that resolves exactly,   *)
(* whatever the operation and the use: no choice is left to the caller.    *)
OneSetPerProfile ==
    \A p \in Profiles :
        LET Resolves(id) == \E r \in ExactRequests : r.set = id /\ ResolveExact(Corpus(p), r) # NONE
        IN  \A id, other \in {i \in Ids : files[i].file = "whole"} :
                id # other => ~ (Resolves(id) /\ Resolves(other))

(* Where nothing is wrong with corpus and pointer, and the pointer's set   *)
(* is one of the profile's, what the pointer resolves to is what exact     *)
(* resolution of that set answers, by the same record.                     *)
CurrentIsExact ==
    \A p \in {q \in Profiles : q.id = "am@1.0"}, r \in Requests :
        LET c == Corpus(p)
            current == ResolveCurrent(c, r.operation, r.direction)
        IN  (/\ current # NONE
             /\ current.problems = {}
             /\ ProfileDeclares(p, r.operation)
             /\ ProfileMembersMatch(p, KnownMembers(c.sets, current.set)) = {}) =>
                LET asked == [set |-> current.set, operation |-> r.operation,
                              direction |-> r.direction, mode |-> "new"]
                IN  /\ ExactProblems(c, asked) = {}
                    /\ ResolveExact(c, asked).record = current.record

(* A pointer that resolves was set for the revisions of catalog and policy *)
(* it is resolved against, as the core's diagnostic for it says.           *)
CurrentRevisionsMatch ==
    \A p \in Profiles, r \in Requests :
        LET current == ResolveCurrent(Corpus(p), r.operation, r.direction)
        IN  current # NONE => "pointer_revisions" \notin current.problems

Meaning(p, r) ==
    LET exact == ResolveExact(Corpus(p), r)
    IN  IF exact = NONE THEN NONE ELSE <<exact.members, exact.definitions>>

MeaningStays ==
    \A p \in Profiles, r \in ExactRequests :
        (/\ files[r.set].file = "whole"
         /\ files'[r.set].file = "whole"
         /\ \E q \in ToSet(governance.qualifications) : q.set = r.set /\ q.profile = p.id
         /\ <<governance, files>>' # <<governance, files>>) =>
            LET before == Meaning(p, r)
                after == Meaning(p, r)'
            IN  /\ before = NONE \/ after = NONE \/ before = after
                /\ after # NONE => Cardinality(after[2]) = Cardinality(after[1])

(* An exact identity keeps its meaning: while the corpus grows, pointers   *)
(* move and files are damaged, a request that resolved before and resolves *)
(* after gets the same members and the same definitions, one of each       *)
(* member.                                                                 *)
ExactIsStable == [][MeaningStays]_vars

Described(c) ==
    \A q \in ToSet(c.qualifications) :
        IsKnown(c.sets, q.set) /\ q.members = KnownMembers(c.sets, q.set)

AppliedIsValid ==
    \A h \in Hosts :
        (FillTarget(h) /\ edits' = edits) =>
            \A p \in Profiles \cap {host[h].on.profile} :
                LET c == Corpus(p)'
                IN  (/\ c = [host[h].on EXCEPT !.sets = c.sets]
                     /\ ToSet(c.sets) = ToSet(host[h].on.sets) \cup {host[h].artifact}
                     /\ Described(c)) => ValidateCorpus(c) = {}

(* An applied assembly leaves a corpus that validates, if the records were *)
(* not edited since it was approved, the set files are exactly those it    *)
(* was approved on and the new one, and every qualification is of a set    *)
(* that is there now, with that set's members.                             *)
AssembledStaysValid == [][AppliedIsValid]_vars
=============================================================================
