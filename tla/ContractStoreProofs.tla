------------------------- MODULE ContractStoreProofs -------------------------
(***************************************************************************)
(* What resolution and assembly answer, for all corpora, hosts, owners'    *)
(* edits and requests: under one profile one set resolves exactly, it      *)
(* keeps its meaning, a clean pointer resolves to it, an applied assembly  *)
(* leaves a valid corpus, and a verified definition has no cycle and is    *)
(* sealed, with its contents, by its fingerprint.                          *)
(***************************************************************************)
EXTENDS ContractStore, FunctionTheorems, FiniteSetTheorems, SequenceTheorems,
        WellFoundedInduction, TLAPS

(***************************************************************************)
(* The inductive invariant.  An artifact is a composition, a file holds    *)
(* what was written under its own name (its members may have been edited), *)
(* the records of governance stay lists, and what a host is about to write *)
(* was assembled against the corpus it remembers.                          *)
(***************************************************************************)
IsArtifact(a) ==
    /\ a = [id |-> a.id, members |-> a.members, governed |-> a.governed]
    /\ IsComposition(a.members)

IsFile(f, id) ==
    \/ f = Absent
    \/ f = Torn
    \/ f = Written(f.artifact) /\ IsArtifact(f.artifact) /\ f.artifact.id = id

Request(r, q) ==
    [members |-> r.members, operation |-> r.operation, direction |-> r.direction,
     qualification |-> q]

Approved(x) ==
    \E r \in Requests, q \in ToSet(x.on.qualifications) :
        /\ Assemble(x.on, Request(r, q)) = {}
        /\ x.artifact = ArtifactFor(r.members)

IsHost(x) ==
    \/ x = Idle
    \/ /\ x = [pc |-> x.pc, artifact |-> x.artifact, on |-> x.on]
       /\ IsArtifact(x.artifact)
       /\ Approved(x)

IInv ==
    /\ IsGovernance(governance)
    /\ DOMAIN files = Ids
    /\ \A id \in Ids : IsFile(files[id], id)
    /\ DOMAIN host = Hosts
    /\ \A h \in Hosts : IsHost(host[h])

(***************************************************************************)
(* What a corpus that resolves a set says of the members of that set.      *)
(***************************************************************************)
LEMMA NoProblem ==
    ASSUME NEW condition \in BOOLEAN, NEW code, Problem(condition, code) = {}
    PROVE  ~ condition
  BY DEF Problem

LEMMA CorpusChecksSets ==
    ASSUME NEW c, ValidateCorpus(c) = {}
    PROVE  ValidateSets(c.sets, c.definitions) = {}
  BY Zenon DEF ValidateCorpus

(* A set is kept under one identity once, and that is its members' digest. *)
LEMMA ArtifactIsItsMembers ==
    ASSUME NEW sets, NEW bundles, DOMAIN sets \subseteq Nat,
           ValidateSets(sets, bundles) = {},
           NEW id, IsKnown(sets, id)
    PROVE  \E j \in DOMAIN sets : /\ KnownMembers(sets, id) = sets[j].members
                                  /\ id = ContractSetId(sets[j].members)
                                  /\ sets[j] \in Indexed(sets) /\ sets[j].id = id
<1>1. /\ \A s \in ToSet(sets) : ValidateSetArtifact(s) = {}
      /\ Problem(\E s \in Indexed(sets) : \E i, j \in Positions(sets, s.id) : i < j,
                 "duplicate_or_conflicting_set") = {}
  BY DEF ValidateSets
<1>2. \A s \in Indexed(sets) : \A i, j \in Positions(sets, s.id) : ~(i < j)
  BY <1>1, NoProblem
<1>3. PICK j \in DOMAIN sets : sets[j].members # {} /\ sets[j].id = id
  BY DEF IsKnown, Positions
<1>4. sets[j] \in ToSet(sets) /\ sets[j] \in Indexed(sets)
  BY <1>3 DEF Indexed, ToSet
<1>5. \A i \in Positions(sets, id) : i = j
  <2> SUFFICES ASSUME NEW i \in Positions(sets, id)
               PROVE  i = j
    OBVIOUS
  <2>1. j \in Positions(sets, sets[j].id) /\ i \in Positions(sets, sets[j].id)
    BY <1>3 DEF Positions
  <2>2. i \in Nat /\ j \in Nat
    BY DEF Positions
  <2> QED BY <1>2, <1>4, <2>1, <2>2
<1>6. Max(Positions(sets, id)) = j
  <2>1. j \in Positions(sets, id) /\ j \in Nat
    BY <1>3 DEF Positions
  <2>2. \A k \in Positions(sets, id) : j >= k
    BY <1>5, <2>1
  <2> QED BY <1>5, <2>1, <2>2 DEF Max
<1>7. KnownMembers(sets, id) = sets[j].members
  BY <1>6, Zenon DEF KnownMembers
<1>8. sets[j].id = ContractSetId(sets[j].members)
  <2>1. ValidateSetArtifact(sets[j]) = {}
    BY <1>1, <1>4
  <2>2. Problem(sets[j].members # {} /\ sets[j].id # ContractSetId(sets[j].members),
                "scs_id_mismatch") = {}
    BY <2>1 DEF ValidateSetArtifact
  <2> QED BY <1>3, <2>2, NoProblem
<1> QED BY <1>3, <1>4, <1>7, <1>8

LEMMA ExactChecks ==
    ASSUME NEW c, NEW r, ResolveExact(c, r) # NONE
    PROVE  /\ ValidateSets(c.sets, c.definitions) = {}
           /\ IsKnown(c.sets, r.set)
           /\ ProfileMembersMatch(c.profile, KnownMembers(c.sets, r.set)) = {}
           /\ ValidateSetDefinitionRefs(KnownMembers(c.sets, r.set), c.definitions) = {}
<1>1. ExactProblems(c, r) = {}
  BY DEF ResolveExact
<1>2. ValidateCorpus(c) = {}
  BY <1>1 DEF ExactProblems
<1>3. IsKnown(c.sets, r.set)
  BY <1>1 DEF ExactProblems
<1>4. /\ ProfileMembersMatch(c.profile, KnownMembers(c.sets, r.set)) = {}
      /\ ValidateSetDefinitionRefs(KnownMembers(c.sets, r.set), c.definitions) = {}
  BY <1>1, <1>3 DEF ExactProblems
<1> QED BY <1>2, <1>3, <1>4, CorpusChecksSets

(* The profile names the versions, and of each version there is one        *)
(* definition: the members are decided.                                    *)
LEMMA MembersAreDecided ==
    ASSUME NEW p, NEW bundles, NEW left, NEW right,
           \A m \in left \cup right : IsMember(m),
           ProfileMembersMatch(p, left) = {}, ProfileMembersMatch(p, right) = {},
           ValidateSetDefinitionRefs(left, bundles) = {},
           ValidateSetDefinitionRefs(right, bundles) = {}
    PROVE  left \subseteq right
<1>1. Problem({<<m.family, m.version>> : m \in left} # ExpectedFamilies(p.id),
              "profile_family_mismatch") = {}
  BY DEF ProfileMembersMatch
<1>2. Problem({<<m.family, m.version>> : m \in right} # ExpectedFamilies(p.id),
              "profile_family_mismatch") = {}
  BY DEF ProfileMembersMatch
<1>3. {<<m.family, m.version>> : m \in left} = {<<m.family, m.version>> : m \in right}
  BY <1>1, <1>2, NoProblem
<1>4. ASSUME NEW members, ValidateSetDefinitionRefs(members, bundles) = {}, NEW m \in members
      PROVE  FamilyVersion(bundles, m.family, m.version).definition.declared = m.fingerprint
  <2>1. Problem(\E n \in members : ~ Retained(bundles, n), "missing_definition") = {}
    BY <1>4 DEF ValidateSetDefinitionRefs
  <2>2. Problem(\E n \in members :
                    /\ Retained(bundles, n)
                    /\ FamilyVersion(bundles, n.family, n.version).definition.declared
                           # n.fingerprint,
                "member_fingerprint_mismatch") = {}
    BY <1>4 DEF ValidateSetDefinitionRefs
  <2>3. Retained(bundles, m)
    BY <1>4, <2>1, NoProblem
  <2> QED BY <1>4, <2>2, <2>3, NoProblem
<1> SUFFICES ASSUME NEW m \in left
             PROVE  m \in right
  OBVIOUS
<1>5. PICK n \in right : <<n.family, n.version>> = <<m.family, m.version>>
  <2>1. <<m.family, m.version>> \in {<<n.family, n.version>> : n \in left}
    OBVIOUS
  <2>2. <<m.family, m.version>> \in {<<n.family, n.version>> : n \in right}
    BY <1>3, <2>1
  <2> QED BY <2>2
<1>6. n.family = m.family /\ n.version = m.version
  BY <1>5
<1>7. n.fingerprint = m.fingerprint
  BY <1>4, <1>6
<1>8. m = n
  BY <1>6, <1>7 DEF IsMember
<1> QED BY <1>8

(* Two sets that resolve in one corpus, for whatever requests, are one.    *)
THEOREM OneSetResolves ==
    ASSUME NEW c, DOMAIN c.sets \subseteq Nat,
           \A i \in DOMAIN c.sets : \A m \in c.sets[i].members : IsMember(m),
           NEW r, ResolveExact(c, r) # NONE,
           NEW s, ResolveExact(c, s) # NONE
    PROVE  r.set = s.set
<1>1. PICK i \in DOMAIN c.sets : /\ KnownMembers(c.sets, r.set) = c.sets[i].members
                                 /\ r.set = ContractSetId(c.sets[i].members)
  BY ExactChecks, ArtifactIsItsMembers
<1>2. PICK j \in DOMAIN c.sets : /\ KnownMembers(c.sets, s.set) = c.sets[j].members
                                 /\ s.set = ContractSetId(c.sets[j].members)
  BY ExactChecks, ArtifactIsItsMembers
<1>3. \A m \in c.sets[i].members \cup c.sets[j].members : IsMember(m)
  OBVIOUS
<1>4. /\ ProfileMembersMatch(c.profile, c.sets[i].members) = {}
      /\ ProfileMembersMatch(c.profile, c.sets[j].members) = {}
      /\ ValidateSetDefinitionRefs(c.sets[i].members, c.definitions) = {}
      /\ ValidateSetDefinitionRefs(c.sets[j].members, c.definitions) = {}
  BY <1>1, <1>2, ExactChecks
<1>5. c.sets[i].members \subseteq c.sets[j].members
  BY <1>3, <1>4, MembersAreDecided
<1>6. c.sets[j].members \subseteq c.sets[i].members
  BY <1>3, <1>4, MembersAreDecided
<1>7. c.sets[i].members = c.sets[j].members
  BY <1>5, <1>6
<1> QED BY <1>1, <1>2, <1>7

(***************************************************************************)
(* The steps.                                                              *)
(***************************************************************************)
LEMMA Appended ==
    ASSUME NEW s, IsList(s), NEW x
    PROVE  /\ IsList(Append(s, x))
           /\ DOMAIN s \subseteq DOMAIN Append(s, x)
           /\ \A i \in DOMAIN s : Append(s, x)[i] = s[i]
<1>1. s \in Seq(ToSet(s))
  BY DEF IsList
<1>2. /\ DOMAIN s \subseteq DOMAIN Append(s, x)
      /\ \A i \in DOMAIN s : Append(s, x)[i] = s[i]
  BY <1>1
<1>3. Append(s, x) \in Seq(ToSet(s) \cup {x})
  BY <1>1
<1>4. \A i \in DOMAIN Append(s, x) : Append(s, x)[i] \in ToSet(Append(s, x))
  BY DEF ToSet
<1>5. Append(s, x) \in Seq(ToSet(Append(s, x)))
  <2>1. PICK n \in Nat : Append(s, x) \in [1 .. n -> ToSet(s) \cup {x}]
    <3>1. Append(s, x) \in UNION {[1 .. n -> ToSet(s) \cup {x}] : n \in Nat}
      BY <1>3, SeqDef, Zenon
    <3> QED BY <3>1, Zenon
  <2>2. Append(s, x) \in [1 .. n -> ToSet(Append(s, x))]
    BY <1>4, <2>1
  <2> QED BY <2>2, SeqDef
<1> QED BY <1>2, <1>5 DEF IsList

LEMMA ArtifactForMembers ==
    ASSUME NEW members, IsComposition(members)
    PROVE  IsArtifact(ArtifactFor(members))
  BY DEF IsArtifact, ArtifactFor

LEMMA Initially == Init => IInv
<1> SUFFICES ASSUME Init PROVE IInv
  OBVIOUS
<1> USE ContractStoreAssumption DEF ContractStoreAssumption
<1>1. PICK start \in Starts :
          /\ governance = start.governance
          /\ files = [id \in Ids |->
                         IF \E members \in start.written : ContractSetId(members) = id
                         THEN Written(ArtifactFor(CHOOSE members \in start.written :
                                                     ContractSetId(members) = id))
                         ELSE Absent]
  BY DEF Init
<1>2. ASSUME NEW id \in Ids PROVE IsFile(files[id], id)
  <2>1. CASE \E members \in start.written : ContractSetId(members) = id
    <3> DEFINE members == CHOOSE ms \in start.written : ContractSetId(ms) = id
    <3>1. members \in start.written /\ ContractSetId(members) = id
      BY <2>1
    <3>2. files[id] = Written(ArtifactFor(members))
      BY <1>1, <2>1
    <3>3. IsArtifact(ArtifactFor(members))
      BY <3>1, ArtifactForMembers
    <3>4. ArtifactFor(members).id = id
      BY <3>1 DEF ArtifactFor
    <3> HIDE DEF members
    <3> QED BY <3>2, <3>3, <3>4 DEF IsFile, Written
  <2>2. CASE ~ \E members \in start.written : ContractSetId(members) = id
    BY <1>1, <2>2 DEF IsFile
  <2> QED BY <2>1, <2>2
<1>3. IsGovernance(governance)
  BY <1>1
<1> QED BY <1>1, <1>2, <1>3 DEF IInv, IsHost, Init

(* An owner's edit keeps the lists, and takes no definition away.          *)
Grows(s, t) == DOMAIN s \subseteq DOMAIN t /\ \A i \in DOMAIN s : t[i] = s[i]

LEMMA GovernanceStep ==
    ASSUME IsGovernance(governance), [Next]_vars
    PROVE  IsGovernance(governance)' /\ Grows(governance.definitions, governance'.definitions)
<1> DEFINE g == governance
<1>1. CASE governance' = governance
  BY <1>1 DEF Grows, IsGovernance, IsRecords, IsList
<1>2. ASSUME NEW x, governance' = [g EXCEPT !.definitions = Append(@, x)]
      PROVE  IsGovernance(governance') /\ Grows(g.definitions, governance'.definitions)
  <2>1. governance' = [definitions |-> Append(g.definitions, x),
                       qualifications |-> g.qualifications, catalog |-> g.catalog,
                       policy |-> g.policy, current |-> g.current]
    BY <1>2 DEF IsGovernance
  <2>2. IsList(g.definitions)
    BY DEF IsGovernance
  <2> QED BY <2>1, <2>2, Appended DEF IsGovernance, Grows
<1>3. ASSUME NEW x, governance' = [g EXCEPT !.qualifications = Append(@, x)]
      PROVE  IsGovernance(governance') /\ Grows(g.definitions, governance'.definitions)
  <2>1. governance' = [definitions |-> g.definitions,
                       qualifications |-> Append(g.qualifications, x), catalog |-> g.catalog,
                       policy |-> g.policy, current |-> g.current]
    BY <1>3 DEF IsGovernance
  <2>2. IsList(g.qualifications)
    BY DEF IsGovernance
  <2> QED BY <2>1, <2>2, Appended DEF IsGovernance, Grows
<1>4. ASSUME NEW records, IsRecords(records), NEW x
      PROVE  IsRecords([records EXCEPT !.entries = Append(@, x), !.revision = @ + 1])
  <2>1. ASSUME NEW e, NEW n
        PROVE  [records EXCEPT !.entries = e, !.revision = n]
                   = [governed |-> records.governed, revision |-> n, entries |-> e]
    <3>1. PICK gd, v, es : records = [governed |-> gd, revision |-> v, entries |-> es]
      BY <1>4 DEF IsRecords
    <3>2. [records EXCEPT !.entries = e] = [governed |-> gd, revision |-> v, entries |-> e]
      BY <3>1
    <3>3. [records EXCEPT !.entries = e] = [entries |-> e, governed |-> gd, revision |-> v]
      BY <3>2
    <3>4. ASSUME NEW w, w = [entries |-> e, governed |-> gd, revision |-> v]
          PROVE  [w EXCEPT !.revision = n] = [entries |-> e, governed |-> gd, revision |-> n]
      BY <3>4
    <3>5. [[records EXCEPT !.entries = e] EXCEPT !.revision = n]
              = [entries |-> e, governed |-> gd, revision |-> n]
      BY <3>3, <3>4
    <3> QED BY <3>1, <3>5
  <2>2. [records EXCEPT !.entries = Append(@, x), !.revision = @ + 1]
            = [governed |-> records.governed, revision |-> records.revision + 1,
               entries |-> Append(records.entries, x)]
    BY <2>1
  <2> QED BY <1>4, <2>2, Appended DEF IsRecords
<1>5. ASSUME NEW x, governance' = [g EXCEPT !.catalog.entries = Append(@, x),
                                            !.catalog.revision = @ + 1]
      PROVE  IsGovernance(governance') /\ Grows(g.definitions, governance'.definitions)
  <2> DEFINE added == [g.catalog EXCEPT !.entries = Append(@, x), !.revision = @ + 1]
  <2>1. IsRecords(added)
    BY <1>4 DEF IsGovernance
  <2>2. governance' = [definitions |-> g.definitions, qualifications |-> g.qualifications,
                       catalog |-> added, policy |-> g.policy, current |-> g.current]
    BY <1>5 DEF IsGovernance
  <2> HIDE DEF added
  <2> QED BY <2>1, <2>2 DEF IsGovernance, Grows
<1>6. ASSUME NEW x, governance' = [g EXCEPT !.policy.entries = Append(@, x),
                                            !.policy.revision = @ + 1]
      PROVE  IsGovernance(governance') /\ Grows(g.definitions, governance'.definitions)
  <2> DEFINE added == [g.policy EXCEPT !.entries = Append(@, x), !.revision = @ + 1]
  <2>1. IsRecords(added)
    BY <1>4 DEF IsGovernance
  <2>2. governance' = [definitions |-> g.definitions, qualifications |-> g.qualifications,
                       catalog |-> g.catalog, policy |-> added, current |-> g.current]
    BY <1>6 DEF IsGovernance
  <2> HIDE DEF added
  <2> QED BY <2>1, <2>2 DEF IsGovernance, Grows
<1>7. ASSUME NEW p, governance' = [g EXCEPT !.current = p]
      PROVE  IsGovernance(governance') /\ Grows(g.definitions, governance'.definitions)
  <2>1. governance' = [definitions |-> g.definitions, qualifications |-> g.qualifications,
                       catalog |-> g.catalog, policy |-> g.policy, current |-> p]
    BY <1>7 DEF IsGovernance
  <2> QED BY <2>1 DEF IsGovernance, Grows
<1>8. CASE Add("definitions")
  BY <1>2, <1>8 DEF Add
<1>9. CASE Add("qualifications")
  BY <1>3, <1>9 DEF Add
<1>10. CASE Add("catalog")
  BY <1>5, <1>10 DEF Add
<1>11. CASE Add("policy")
  BY <1>6, <1>11 DEF Add
<1>12. CASE Point
  BY <1>7, <1>12 DEF Point
<1>13. ASSUME NEW h \in Hosts,
              Preview(h) \/ FindTarget(h) \/ MissTarget(h) \/ OpenTarget(h) \/ FillTarget(h)
                  \/ Kill(h)
       PROVE  governance' = governance
  BY <1>13 DEF Preview, FindTarget, MissTarget, OpenTarget, FillTarget, Kill
<1>14. Tamper \/ UNCHANGED vars => governance' = governance
  BY DEF Tamper, vars
<1> QED BY <1>1, <1>8, <1>9, <1>10, <1>11, <1>12, <1>13, <1>14 DEF Next

LEMMA Stepwise == IInv /\ [Next]_vars => IInv'
<1> SUFFICES ASSUME IInv, [Next]_vars PROVE IInv'
  OBVIOUS
<1>0. IsGovernance(governance)'
  BY GovernanceStep DEF IInv
<1> USE ContractStoreAssumption DEF ContractStoreAssumption
<1>1. ASSUME NEW h \in Hosts, Preview(h) PROVE IInv'
  <2>1. PICK r \in Requests, q \in ToSet(governance.qualifications) :
            /\ Assemble(Corpus(r.profile), Request(r, q)) = {}
            /\ Emitted(Corpus(r.profile), Request(r, q)) # NONE
            /\ host' = [host EXCEPT ![h] =
                           [pc |-> "approved",
                            artifact |-> Emitted(Corpus(r.profile), Request(r, q)),
                            on |-> Corpus(r.profile)]]
    BY <1>1 DEF Preview, Request
  <2> DEFINE x == [pc |-> "approved", artifact |-> ArtifactFor(r.members), on |-> Corpus(r.profile)]
  <2>2. Emitted(Corpus(r.profile), Request(r, q)) = ArtifactFor(r.members)
    BY <2>1 DEF Emitted, Request
  <2>3. IsArtifact(ArtifactFor(r.members))
    BY ArtifactForMembers
  <2>4. host' = [host EXCEPT ![h] = x]
    BY <2>1, <2>2
  <2>5. IsHost(x)
    <3>1. q \in ToSet(x.on.qualifications)
      BY DEF Corpus
    <3>2. Approved(x)
      BY <2>1, <3>1 DEF Approved
    <3> QED BY <2>3, <3>2 DEF IsHost
  <2> HIDE DEF x
  <2>6. \A g \in Hosts : IsHost(host'[g])
    BY <2>4, <2>5 DEF IInv
  <2>7. UNCHANGED files
    BY <1>1 DEF Preview
  <2> QED BY <1>0, <2>4, <2>6, <2>7 DEF IInv
<1>2. ASSUME NEW h \in Hosts, FindTarget(h) \/ Kill(h) PROVE IInv'
  BY <1>0, <1>2 DEF IInv, FindTarget, Kill, IsHost
<1>3. ASSUME NEW h \in Hosts, host[h].pc # "idle", NEW pc,
             host' = [host EXCEPT ![h].pc = pc]
      PROVE  /\ DOMAIN host' = Hosts
             /\ \A g \in Hosts : IsHost(host'[g])
  <2> DEFINE x == host[h]
  <2>1. x = [pc |-> x.pc, artifact |-> x.artifact, on |-> x.on]
        /\ IsArtifact(x.artifact) /\ Approved(x)
    BY <1>3 DEF IInv, IsHost, Idle
  <2>2. [x EXCEPT !.pc = pc] = [pc |-> pc, artifact |-> x.artifact, on |-> x.on]
    BY <2>1
  <2>3. Approved([x EXCEPT !.pc = pc])
    BY <2>1, <2>2 DEF Approved
  <2>4. IsHost([x EXCEPT !.pc = pc])
    BY <2>1, <2>2, <2>3 DEF IsHost
  <2>5. host' = [host EXCEPT ![h] = [x EXCEPT !.pc = pc]]
    BY <1>3
  <2> HIDE DEF x
  <2> QED BY <2>4, <2>5 DEF IInv
<1>4. ASSUME NEW h \in Hosts, MissTarget(h) PROVE IInv'
  BY <1>0, <1>3, <1>4 DEF IInv, MissTarget
<1>5. ASSUME NEW h \in Hosts, OpenTarget(h) PROVE IInv'
  <2>1. DOMAIN host' = Hosts /\ \A g \in Hosts : IsHost(host'[g])
    BY <1>3, <1>5 DEF OpenTarget
  <2>2. DOMAIN files' = Ids /\ \A id \in Ids : IsFile(files'[id], id)
    BY <1>5 DEF OpenTarget, IInv, IsFile
  <2> QED BY <1>0, <2>1, <2>2 DEF IInv
<1>6. ASSUME NEW h \in Hosts, FillTarget(h) PROVE IInv'
  <2>1. IsArtifact(host[h].artifact)
    BY <1>6 DEF FillTarget, IInv, IsHost, Idle
  <2>2. files' = [files EXCEPT ![host[h].artifact.id] = Written(host[h].artifact)]
    BY <1>6 DEF FillTarget, Target
  <2>3. DOMAIN files' = Ids /\ \A id \in Ids : IsFile(files'[id], id)
    BY <2>1, <2>2 DEF IInv, IsFile, Written
  <2>4. DOMAIN host' = Hosts /\ \A g \in Hosts : IsHost(host'[g])
    BY <1>6 DEF FillTarget, IInv, IsHost
  <2> QED BY <1>0, <2>3, <2>4 DEF IInv
<1>7. ASSUME Tamper PROVE IInv'
  <2>1. PICK id \in Ids, i \in DOMAIN Names :
            /\ files[id].file = "whole"
            /\ files' = [files EXCEPT ![id].artifact.members = Names[i]]
    BY <1>7 DEF Tamper
  <2> DEFINE a == files[id].artifact
             b == [id |-> a.id, members |-> Names[i], governed |-> a.governed]
  <2>2. files[id] = Written(a) /\ IsArtifact(a) /\ a.id = id
    BY <2>1 DEF IInv, IsFile, Absent, Torn
  <2>3. files' = [files EXCEPT ![id] = Written(b)]
    <3>1. [a EXCEPT !.members = Names[i]] = b
      BY <2>2 DEF IsArtifact
    <3>2. [files[id] EXCEPT !.artifact = b] = Written(b)
      BY <2>2 DEF Written
    <3>3. files' = [files EXCEPT ![id] = [files[id] EXCEPT !.artifact = b]]
      BY <2>1, <3>1
    <3> QED BY <3>2, <3>3
  <2>4. IsArtifact(b)
    BY <2>2 DEF IsArtifact
  <2>5. b.id = id
    BY <2>2
  <2> HIDE DEF a, b
  <2>6. IsFile(Written(b), id)
    BY <2>4, <2>5 DEF IsFile, Written
  <2>7. DOMAIN files' = Ids /\ \A x \in Ids : IsFile(files'[x], x)
    BY <2>3, <2>6 DEF IInv
  <2> QED BY <1>0, <1>7, <2>7 DEF IInv, Tamper
<1>8. ASSUME (\E kind \in {"definitions", "qualifications", "catalog", "policy"} : Add(kind))
                 \/ Point \/ UNCHANGED vars
      PROVE  IInv'
  BY <1>0, <1>8 DEF IInv, Add, Point, vars
<1> QED BY <1>1, <1>2, <1>4, <1>5, <1>6, <1>7, <1>8 DEF Next

(* What the hosts read of the retained sets.                               *)
LEMMA SetsOfACorpus ==
    ASSUME IInv, NEW p
    PROVE  /\ DOMAIN Corpus(p).sets \subseteq Nat
           /\ \A i \in DOMAIN Corpus(p).sets : IsComposition(Corpus(p).sets[i].members)
           /\ \A i, j \in DOMAIN Corpus(p).sets :
                  Corpus(p).sets[i].id = Corpus(p).sets[j].id => i = j
<1> DEFINE sets == Corpus(p).sets
<1>1. /\ DOMAIN sets \subseteq DOMAIN Names
      /\ \A i \in DOMAIN sets : /\ files[ContractSetId(Names[i])].file = "whole"
                               /\ sets[i] = files[ContractSetId(Names[i])].artifact
  BY DEF Corpus, RetainedArtifacts
<1>2. DOMAIN sets \subseteq Nat
  BY <1>1, ContractStoreAssumption DEF ContractStoreAssumption
<1>3. ASSUME NEW i \in DOMAIN sets
      PROVE  IsArtifact(sets[i]) /\ sets[i].id = ContractSetId(Names[i])
  <2>1. ContractSetId(Names[i]) \in Ids
    BY <1>1 DEF Ids
  <2> QED BY <1>1, <2>1 DEF IInv, IsFile, Absent, Torn
<1>4. ASSUME NEW i \in DOMAIN sets, NEW j \in DOMAIN sets, sets[i].id = sets[j].id
      PROVE  i = j
  <2>1. [scs |-> Names[i]].scs = [scs |-> Names[j]].scs
    BY <1>3, <1>4, Zenon DEF ContractSetId
  <2>2. Names[i] = Names[j]
    BY <2>1
  <2> QED BY <1>1, <2>2, ContractStoreAssumption DEF ContractStoreAssumption
<1>5. \A i \in DOMAIN sets : IsComposition(sets[i].members)
  BY <1>3 DEF IsArtifact
<1> HIDE DEF sets
<1> QED BY <1>2, <1>4, <1>5 DEF sets

(* In every corpus that the hosts read, at most one set of a profile       *)
(* resolves exactly, whatever operation and use are asked for.             *)
THEOREM OneSetOfAProfile == Spec => []OneSetPerProfile
<1>1. IInv => OneSetPerProfile
  <2> SUFFICES ASSUME IInv, NEW p \in Profiles,
                      NEW id, NEW other, NEW r, NEW s,
                      r.set = id, ResolveExact(Corpus(p), r) # NONE,
                      s.set = other, ResolveExact(Corpus(p), s) # NONE
               PROVE  id = other
    BY DEF OneSetPerProfile
  <2> DEFINE c == Corpus(p)
  <2>1. /\ DOMAIN c.sets \subseteq Nat
        /\ \A i \in DOMAIN c.sets : \A m \in c.sets[i].members : IsMember(m)
    BY SetsOfACorpus DEF IsComposition
  <2> HIDE DEF c
  <2> QED BY <2>1, OneSetResolves DEF c
<1> QED BY <1>1, Initially, Stepwise, PTL DEF Spec

(***************************************************************************)
(* A clean pointer.                                                        *)
(***************************************************************************)
LEMMA TheOnlyOne ==
    ASSUME NEW S \in SUBSET Nat, NEW i \in S, \A j \in S : j = i
    PROVE  Min(S) = i /\ Max(S) = i
<1>1. i \in Nat /\ \A x \in S : x = i
  OBVIOUS
<1>2. Min(S) = i
  <2>1. i \in S /\ \A y \in S : i =< y
    BY <1>1
  <2> QED BY <1>1, <2>1 DEF Min
<1>3. Max(S) = i
  <2>1. i \in S /\ \A y \in S : i >= y
    BY <1>1
  <2> QED BY <1>1, <2>1 DEF Max
<1> QED BY <1>2, <1>3

(* In a valid corpus a set has one catalog entry, and an operation on it   *)
(* one policy entry, so that any supporting entry is the first one.        *)
LEMMA FirstEntryDecides ==
    ASSUME NEW catalog, NEW policy, IsRecords(catalog), IsRecords(policy), NEW known,
           ValidateCatalogPolicy(catalog, policy, known) = {},
           NEW id, NEW operation, NEW direction,
           CatalogSupports(catalog, id), PolicySupports(policy, id, operation, direction)
    PROVE  /\ ExactCatalogSupports(catalog, id, "new")
           /\ ExactPolicySupports(policy, id, operation, direction, "new")
<1>1. /\ Problem(Repeats(catalog.entries, SetOf), "duplicate_catalog_entry") = {}
      /\ Problem(Repeats(policy.entries, PolicyKey), "conflicting_policy") = {}
  BY DEF ValidateCatalogPolicy
<1>2. /\ DOMAIN catalog.entries \subseteq Nat
      /\ DOMAIN policy.entries \subseteq Nat
  BY DEF IsRecords, IsList
<1>3. \A i, j \in DOMAIN catalog.entries :
          catalog.entries[i].set = catalog.entries[j].set => i = j
  <2>1. ~ Repeats(catalog.entries, SetOf)
    BY <1>1 DEF Problem
  <2> QED BY <1>2, <2>1 DEF Repeats, SetOf
<1>4. \A i, j \in DOMAIN policy.entries :
          PolicyKey(policy.entries[i]) = PolicyKey(policy.entries[j]) => i = j
  <2>1. ~ Repeats(policy.entries, PolicyKey)
    BY <1>1 DEF Problem
  <2> QED BY <1>2, <2>1 DEF Repeats
<1>5. ExactCatalogSupports(catalog, id, "new")
  <2> DEFINE found == {i \in DOMAIN catalog.entries : catalog.entries[i].set = id}
  <2>1. PICK i \in DOMAIN catalog.entries :
            /\ catalog.entries[i].set = id
            /\ catalog.entries[i].catalogued
            /\ catalog.entries[i].lifecycle = "active"
    BY DEF CatalogSupports, ToSet
  <2>2. i \in found /\ \A j \in found : j = i
    BY <1>3, <2>1
  <2>3. Min(found) = i
    BY <1>2, <2>2, TheOnlyOne
  <2> QED BY <2>1, <2>2, <2>3 DEF ExactCatalogSupports
<1>6. ExactPolicySupports(policy, id, operation, direction, "new")
  <2> DEFINE found == {i \in DOMAIN policy.entries :
                          PolicyKey(policy.entries[i]) = <<id, operation, direction>>}
  <2>1. PICK i \in DOMAIN policy.entries :
            /\ PolicyKey(policy.entries[i]) = <<id, operation, direction>>
            /\ policy.entries[i].newUse
            /\ policy.entries[i].installed
    BY DEF PolicySupports, ToSet
  <2>2. i \in found /\ \A j \in found : j = i
    BY <1>4, <2>1
  <2>3. Min(found) = i
    BY <1>2, <2>2, TheOnlyOne
  <2> QED BY <2>1, <2>2, <2>3 DEF ExactPolicySupports
<1> QED BY <1>5, <1>6

LEMMA CleanPointerResolvesExactly ==
    ASSUME NEW c, DOMAIN c.sets \subseteq Nat, IsRecords(c.catalog), IsRecords(c.policy),
           c.profile.id = "am@1.0",
           NEW operation, NEW direction,
           ResolveCurrent(c, operation, direction) # NONE,
           ResolveCurrent(c, operation, direction).problems = {},
           ProfileDeclares(c.profile, operation),
           ProfileMembersMatch(c.profile, KnownMembers(c.sets, c.current.set)) = {},
           NEW asked, asked = [set |-> c.current.set, operation |-> operation,
                               direction |-> direction, mode |-> "new"]
    PROVE  /\ ResolveCurrent(c, operation, direction).set = c.current.set
           /\ ExactProblems(c, asked) = {}
           /\ ResolveExact(c, asked).record = ResolveCurrent(c, operation, direction).record
<1> DEFINE id == c.current.set
           members == KnownMembers(c.sets, id)
           records == Qualified(c.qualifications, id, operation, direction, "new", "am@1.0", members)
<1>1. /\ IsKnown(c.sets, id)
      /\ records # {}
      /\ c.qualifications[Min(records)].id = c.current.record
      /\ CatalogSupports(c.catalog, id)
      /\ PolicySupports(c.policy, id, operation, direction)
      /\ ResolveCurrent(c, operation, direction)
             = [set |-> id, record |-> c.current.record,
                problems |-> CurrentProblems(c, operation, direction)]
  BY DEF ResolveCurrent
<1>2. ValidateCorpus(c) = {}
  <2>1. \E s \in ToSet(c.sets) : s.id = id
    BY <1>1 DEF IsKnown, Positions, ToSet
  <2>2. CurrentProblems(c, operation, direction) = {}
    BY <1>1
  <2>3. Problem(ValidateCorpus(c) # {} /\ (\E s \in ToSet(c.sets) : s.id = c.current.set),
                "retained_corpus_invalid") = {}
    BY <2>2, Zenon DEF CurrentProblems
  <2> QED BY <2>1, <2>3 DEF Problem
<1>3. ValidateSetDefinitionRefs(members, c.definitions) = {}
  <2>1. ValidateSets(c.sets, c.definitions) = {}
    BY <1>2, CorpusChecksSets
  <2>2. PICK j \in DOMAIN c.sets : members = c.sets[j].members /\ c.sets[j] \in Indexed(c.sets)
    BY <1>1, <2>1, ArtifactIsItsMembers
  <2>3. \A s \in Indexed(c.sets) : ValidateSetDefinitionRefs(s.members, c.definitions) = {}
    BY <2>1 DEF ValidateSets
  <2> QED BY <2>2, <2>3
<1>4. /\ ExactCatalogSupports(c.catalog, id, "new")
      /\ ExactPolicySupports(c.policy, id, operation, direction, "new")
  <2>1. ValidateCatalogPolicy(c.catalog, c.policy, {s.id : s \in Indexed(c.sets)}) = {}
    BY <1>2, Zenon DEF ValidateCorpus
  <2> QED BY <1>1, <2>1, FirstEntryDecides
<1>5. ValidateProfile(c.profile) = {}
  BY Zenon DEF ProfileMembersMatch
<1>6. Qualified(c.qualifications, asked.set, asked.operation, asked.direction, asked.mode,
                c.profile.id, members) = records
  OBVIOUS
<1> HIDE DEF records, members
<1>7. ExactProblems(c, asked) = {}
  <2>1. /\ asked.set = id /\ asked.operation = operation
        /\ asked.direction = direction /\ asked.mode = "new"
    OBVIOUS
  <2>2. ASSUME NEW code PROVE Problem(FALSE, code) = {}
    BY DEF Problem
  <2>3. members = KnownMembers(c.sets, asked.set)
    BY <2>1 DEF members
  <2>4. /\ Problem(~ ProfileDeclares(c.profile, asked.operation), "profile_operation_mismatch") = {}
        /\ Problem(Qualified(c.qualifications, asked.set, asked.operation, asked.direction,
                             asked.mode, c.profile.id, members) = {},
                   "missing_whole_tuple_qualification") = {}
        /\ Problem(~ ExactCatalogSupports(c.catalog, asked.set, asked.mode),
                   "exact_resolution_catalog_failure") = {}
        /\ Problem(~ ExactPolicySupports(c.policy, asked.set, asked.operation, asked.direction,
                                         asked.mode), "exact_resolution_policy_failure") = {}
    BY <1>1, <1>4, <1>6, <2>1 DEF Problem
  <2>5. ProfileMembersMatch(c.profile, members) = {}
    BY DEF members
  <2> QED BY <1>1, <1>2, <1>3, <1>5, <2>1, <2>3, <2>4, <2>5 DEF ExactProblems
<1>8. ResolveExact(c, asked).record = c.qualifications[Min(records)].id
  BY <1>6, <1>7 DEF ResolveExact, members
<1> QED BY <1>1, <1>7, <1>8

(* Where nothing is wrong with corpus and pointer, the pointer's set       *)
(* resolves exactly, and by the pointer's record.                          *)
THEOREM CurrentAgrees == Spec => []CurrentIsExact
<1>1. IInv => CurrentIsExact
  <2> SUFFICES ASSUME IInv, NEW p \in {q \in Profiles : q.id = "am@1.0"}, NEW r \in Requests,
                      ResolveCurrent(Corpus(p), r.operation, r.direction) # NONE,
                      ResolveCurrent(Corpus(p), r.operation, r.direction).problems = {},
                      ProfileDeclares(p, r.operation),
                      ProfileMembersMatch(p, KnownMembers(Corpus(p).sets,
                          ResolveCurrent(Corpus(p), r.operation, r.direction).set)) = {},
                      NEW asked,
                      asked = [set |-> ResolveCurrent(Corpus(p), r.operation, r.direction).set,
                               operation |-> r.operation, direction |-> r.direction,
                               mode |-> "new"]
               PROVE  /\ ExactProblems(Corpus(p), asked) = {}
                      /\ ResolveExact(Corpus(p), asked).record
                             = ResolveCurrent(Corpus(p), r.operation, r.direction).record
    BY DEF CurrentIsExact
  <2> DEFINE c == Corpus(p)
  <2>1. ResolveCurrent(c, r.operation, r.direction).set = c.current.set
    BY DEF ResolveCurrent
  <2>2. c.profile = p /\ IsRecords(c.catalog) /\ IsRecords(c.policy)
    BY DEF Corpus, IInv, IsGovernance
  <2>3. DOMAIN c.sets \subseteq Nat
    BY SetsOfACorpus
  <2> HIDE DEF c
  <2> QED BY <2>1, <2>2, <2>3, CleanPointerResolvesExactly DEF c
<1> QED BY <1>1, Initially, Stepwise, PTL DEF Spec

(***************************************************************************)
(* The meaning of an exact identity.                                       *)
(***************************************************************************)
IsCorpus(c) ==
    /\ DOMAIN c.sets \subseteq Nat
    /\ \A i \in DOMAIN c.sets : IsComposition(c.sets[i].members)
    /\ IsList(c.definitions)

NamedBy(members, bundles) == {j \in DOMAIN bundles : MemberOf(bundles[j]) \in members}

(* What resolves exactly is the composition its identity was taken from,   *)
(* with one definition for each member.                                    *)
LEMMA ExactMeaning ==
    ASSUME NEW c, IsCorpus(c), NEW r, ResolveExact(c, r) # NONE
    PROVE  /\ r.set = ContractSetId(ResolveExact(c, r).members)
           /\ IsComposition(ResolveExact(c, r).members)
           /\ ResolveExact(c, r).definitions =
                  {c.definitions[i] : i \in NamedBy(ResolveExact(c, r).members, c.definitions)}
           /\ \A m \in ResolveExact(c, r).members :
                  \E i \in DOMAIN c.definitions : MemberOf(c.definitions[i]) = m
           /\ \A i, j \in DOMAIN c.definitions :
                  MemberOf(c.definitions[i]) = MemberOf(c.definitions[j]) => i = j
<1> DEFINE members == KnownMembers(c.sets, r.set)
           bundles == c.definitions
<1>1. /\ ValidateSets(c.sets, bundles) = {}
      /\ IsKnown(c.sets, r.set)
      /\ ValidateSetDefinitionRefs(members, bundles) = {}
  BY ExactChecks
<1>2. ResolveExact(c, r).members = members
  BY DEF ResolveExact
<1>3. ResolveExact(c, r).definitions =
          {bundles[Max(Exact(bundles, m))] : m \in {n \in members : Exact(bundles, n) # {}}}
  BY DEF ResolveExact
<1>4. r.set = ContractSetId(members) /\ IsComposition(members)
  BY <1>1, ArtifactIsItsMembers DEF IsCorpus
<1>5. DOMAIN bundles \subseteq Nat
  BY DEF IsCorpus, IsList
<1>6. \A i, j \in DOMAIN bundles :
          FamilyAndVersion(bundles[i]) = FamilyAndVersion(bundles[j]) => i = j
  <2>1. ExactProblems(c, r) = {}
    BY DEF ResolveExact
  <2>2. ValidateCorpus(c) = {}
    BY <2>1 DEF ExactProblems
  <2>3. VerifyDefinitionBundles(c.definitions) = {}
    BY <2>2, Zenon DEF ValidateCorpus
  <2>4. Problem(Repeats(bundles, FamilyAndVersion), "duplicate_or_conflicting_definition") = {}
    BY <2>3, Zenon DEF VerifyDefinitionBundles
  <2>5. ~ Repeats(bundles, FamilyAndVersion)
    BY <2>4 DEF Problem
  <2> QED BY <1>5, <2>5 DEF Repeats
<1>7. ASSUME NEW i \in DOMAIN bundles, NEW j \in DOMAIN bundles,
             MemberOf(bundles[i]) = MemberOf(bundles[j])
      PROVE  i = j
  <2>1. FamilyAndVersion(bundles[i]) = FamilyAndVersion(bundles[j])
    BY <1>7 DEF MemberOf, FamilyAndVersion
  <2> QED BY <1>6, <2>1
<1>8. ASSUME NEW m \in members
      PROVE  \E i \in DOMAIN bundles : MemberOf(bundles[i]) = m
  <2>1. Problem(\E n \in members : ~ Retained(bundles, n), "missing_definition") = {}
        /\ Problem(\E n \in members :
                       /\ Retained(bundles, n)
                       /\ FamilyVersion(bundles, n.family, n.version).definition.declared
                              # n.fingerprint,
                   "member_fingerprint_mismatch") = {}
    BY <1>1 DEF ValidateSetDefinitionRefs
  <2>2. Retained(bundles, m)
        /\ FamilyVersion(bundles, m.family, m.version).definition.declared = m.fingerprint
    BY <1>8, <2>1 DEF Problem
  <2>3. PICK i \in DOMAIN bundles : FamilyAndVersion(bundles[i]) = <<m.family, m.version>>
    BY <2>2 DEF Retained, ToSet
  <2> DEFINE found == {k \in DOMAIN bundles : FamilyAndVersion(bundles[k]) = <<m.family, m.version>>}
  <2>4. i \in found /\ \A k \in found : k = i
    BY <1>6, <2>3
  <2>5. Max(found) = i
    BY <1>5, <2>4, TheOnlyOne
  <2>6. bundles[i].definition.declared = m.fingerprint
    BY <2>2, <2>5 DEF FamilyVersion
  <2>7. MemberOf(bundles[i]) = m
    <3>1. m = [family |-> m.family, version |-> m.version, fingerprint |-> m.fingerprint]
      BY <1>4, <1>8 DEF IsComposition, IsMember
    <3>2. bundles[i].definition.family = m.family /\ bundles[i].definition.version = m.version
      BY <2>3 DEF FamilyAndVersion
    <3> QED BY <2>6, <3>1, <3>2 DEF MemberOf
  <2> QED BY <2>7
<1>9. ASSUME NEW i \in DOMAIN bundles
      PROVE  Exact(bundles, MemberOf(bundles[i])) # {} /\ Max(Exact(bundles, MemberOf(bundles[i]))) = i
  <2>1. i \in Exact(bundles, MemberOf(bundles[i]))
        /\ \A j \in Exact(bundles, MemberOf(bundles[i])) : j = i
    BY <1>7 DEF Exact
  <2>2. Exact(bundles, MemberOf(bundles[i])) \in SUBSET Nat
    BY <1>5 DEF Exact
  <2> QED BY <2>1, <2>2, TheOnlyOne
<1>10. {bundles[Max(Exact(bundles, m))] : m \in {n \in members : Exact(bundles, n) # {}}}
           = {bundles[i] : i \in NamedBy(members, bundles)}
  <2> DEFINE left == {bundles[Max(Exact(bundles, m))] : m \in {n \in members : Exact(bundles, n) # {}}}
             right == {bundles[i] : i \in NamedBy(members, bundles)}
  <2>1. ASSUME NEW b \in left PROVE b \in right
    <3>1. PICK m \in members : b = bundles[Max(Exact(bundles, m))]
      OBVIOUS
    <3>2. PICK i \in DOMAIN bundles : MemberOf(bundles[i]) = m
      BY <1>8
    <3>3. b = bundles[i] /\ i \in NamedBy(members, bundles)
      BY <1>9, <3>1, <3>2 DEF NamedBy
    <3> QED BY <3>3
  <2>2. ASSUME NEW b \in right PROVE b \in left
    <3>1. PICK i \in DOMAIN bundles : b = bundles[i] /\ MemberOf(bundles[i]) \in members
      BY DEF NamedBy
    <3> QED BY <1>9, <3>1
  <2> HIDE DEF left, right
  <2>3. left = right
    BY <2>1, <2>2
  <2> QED BY <2>3 DEF left, right
<1> HIDE DEF members, bundles
<1> QED BY <1>2, <1>3, <1>4, <1>7, <1>8, <1>10 DEF bundles

(* As definitions are added, a set that resolves again gets the same ones. *)
LEMMA SameMeaning ==
    ASSUME NEW c, IsCorpus(c), NEW d, IsCorpus(d), Grows(c.definitions, d.definitions),
           NEW r, ResolveExact(c, r) # NONE, ResolveExact(d, r) # NONE
    PROVE  /\ ResolveExact(c, r).members = ResolveExact(d, r).members
           /\ ResolveExact(c, r).definitions = ResolveExact(d, r).definitions
<1> DEFINE before == ResolveExact(c, r)
           after == ResolveExact(d, r)
<1>1. before.members = after.members
  <2>1. [scs |-> before.members].scs = [scs |-> after.members].scs
    BY ExactMeaning, Zenon DEF ContractSetId
  <2> QED BY <2>1
<1>2. /\ before.definitions = {c.definitions[i] : i \in NamedBy(before.members, c.definitions)}
      /\ \A m \in before.members : \E i \in DOMAIN c.definitions : MemberOf(c.definitions[i]) = m
  BY ExactMeaning
<1>3. /\ after.definitions = {d.definitions[i] : i \in NamedBy(after.members, d.definitions)}
      /\ \A i, j \in DOMAIN d.definitions :
             MemberOf(d.definitions[i]) = MemberOf(d.definitions[j]) => i = j
  BY ExactMeaning
<1> HIDE DEF before, after
<1>4. NamedBy(before.members, c.definitions) = NamedBy(after.members, d.definitions)
  <2>1. ASSUME NEW i \in NamedBy(before.members, c.definitions)
        PROVE  i \in NamedBy(after.members, d.definitions)
    BY <1>1, <2>1 DEF NamedBy, Grows
  <2>2. ASSUME NEW j \in NamedBy(after.members, d.definitions)
        PROVE  j \in NamedBy(before.members, c.definitions)
    <3>1. PICK i \in DOMAIN c.definitions : MemberOf(c.definitions[i]) = MemberOf(d.definitions[j])
      BY <1>1, <1>2 DEF NamedBy
    <3>2. i = j
      BY <1>3, <3>1 DEF Grows, NamedBy
    <3> QED BY <1>1, <3>1, <3>2 DEF NamedBy
  <2> QED BY <2>1, <2>2
<1>5. \A i \in NamedBy(before.members, c.definitions) : c.definitions[i] = d.definitions[i]
  BY DEF NamedBy, Grows
<1>6. before.definitions = after.definitions
  BY <1>2, <1>3, <1>4, <1>5
<1> QED BY <1>1, <1>6 DEF before, after

(* One definition of each member.                                          *)
LEMMA AsManyDefinitions ==
    ASSUME NEW c, IsCorpus(c), NEW r, ResolveExact(c, r) # NONE
    PROVE  Cardinality(ResolveExact(c, r).definitions) = Cardinality(ResolveExact(c, r).members)
<1> DEFINE e == ResolveExact(c, r)
           member == [b \in e.definitions |-> MemberOf(b)]
<1>1. /\ IsFiniteSet(e.members)
      /\ e.definitions = {c.definitions[i] : i \in NamedBy(e.members, c.definitions)}
      /\ \A m \in e.members : \E i \in DOMAIN c.definitions : MemberOf(c.definitions[i]) = m
      /\ \A i, j \in DOMAIN c.definitions :
             MemberOf(c.definitions[i]) = MemberOf(c.definitions[j]) => i = j
  BY ExactMeaning DEF IsComposition
<1> HIDE DEF e
<1>2. member \in [e.definitions -> e.members]
  BY <1>1 DEF NamedBy
<1>3. \A b, d \in e.definitions : member[b] = member[d] => b = d
  BY <1>1 DEF NamedBy
<1>4. \A m \in e.members : \E b \in e.definitions : member[b] = m
  BY <1>1 DEF NamedBy
<1>5. ExistsBijection(e.definitions, e.members)
  <2> HIDE DEF member
  <2>1. member \in Bijection(e.definitions, e.members)
    BY <1>2, <1>3, <1>4 DEF Bijection, Injection, Surjection, IsInjective
  <2> QED BY <2>1 DEF ExistsBijection
<1>6. ExistsBijection(e.members, e.definitions)
  BY <1>5, Fun_ExistsBijSymmetric
<1> QED BY <1>1, <1>6, FS_Bijection DEF e

LEMMA HostsReadCorpora == IInv => \A p : IsCorpus(Corpus(p))
<1> SUFFICES ASSUME IInv, NEW p PROVE IsCorpus(Corpus(p))
  OBVIOUS
<1>1. IsList(Corpus(p).definitions)
  BY DEF IInv, IsGovernance, Corpus
<1> QED BY <1>1, SetsOfACorpus DEF IsCorpus

(* While corpora grow, pointers move and files are damaged, an exact       *)
(* request that resolves keeps the members and definitions it resolved to, *)
(* and has one definition of each member.                                  *)
THEOREM MeaningKept == Spec => ExactIsStable
<1>1. IInv' => (\A p : IsCorpus(Corpus(p)))'
  BY HostsReadCorpora, PTL
<1>2. IInv /\ IInv' /\ [Next]_vars => MeaningStays
  <2> SUFFICES ASSUME IInv, IInv', [Next]_vars, NEW p \in Profiles, NEW r \in ExactRequests
               PROVE  /\ Meaning(p, r) = NONE \/ Meaning(p, r)' = NONE \/ Meaning(p, r) = Meaning(p, r)'
                      /\ Meaning(p, r)' # NONE =>
                             Cardinality(Meaning(p, r)'[2]) = Cardinality(Meaning(p, r)'[1])
    BY DEF MeaningStays
  <2> DEFINE c == Corpus(p)
             d == Corpus(p)'
             before == ResolveExact(c, r)
             after == ResolveExact(d, r)
  <2>1. IsCorpus(c) /\ IsCorpus(d)
    BY <1>1, HostsReadCorpora
  <2>2. Grows(c.definitions, d.definitions)
    BY GovernanceStep DEF IInv, Corpus
  <2>3. Meaning(p, r) = IF before = NONE THEN NONE ELSE <<before.members, before.definitions>>
    BY DEF Meaning
  <2>4. Meaning(p, r)' = IF after = NONE THEN NONE ELSE <<after.members, after.definitions>>
    BY DEF Meaning
  <2> HIDE DEF c, d
  <2>5. before # NONE /\ after # NONE =>
            before.members = after.members /\ before.definitions = after.definitions
    BY <2>1, <2>2, SameMeaning
  <2>6. after # NONE => Cardinality(after.definitions) = Cardinality(after.members)
    BY <2>1, AsManyDefinitions
  <2> HIDE DEF before, after
  <2>7. Meaning(p, r) = NONE \/ Meaning(p, r)' = NONE \/ Meaning(p, r) = Meaning(p, r)'
    BY <2>3, <2>4, <2>5
  <2>8. Meaning(p, r)' # NONE => Cardinality(Meaning(p, r)'[2]) = Cardinality(Meaning(p, r)'[1])
    BY <2>4, <2>6
  <2> QED BY <2>7, <2>8
<1> QED BY <1>2, Initially, Stepwise, PTL DEF Spec, ExactIsStable

(***************************************************************************)
(* An applied assembly.                                                    *)
(***************************************************************************)
LEMMA NothingWrong ==
    ASSUME NEW condition, ~ condition, NEW code
    PROVE  Problem(condition, code) = {}
  BY DEF Problem

(* Assembly checks the requested members as a retained set would be, and   *)
(* a profile that accepts them names at least one family.                  *)
LEMMA RequestedMembers ==
    ASSUME NEW c, NEW a, Assemble(c, a) = {}
    PROVE  /\ ValidateSetArtifact(ArtifactFor(a.members)) = {}
           /\ ValidateSetDefinitionRefs(a.members, c.definitions) = {}
           /\ a.members # {}
<1>1. /\ ParseMembers(a.members) = {}
      /\ ProfileMembersMatch(c.profile, a.members) = {}
      /\ RequestedDefinitions(a.members, c.definitions) = {}
  BY Zenon DEF Assemble
<1>2. ValidateSetArtifact(ArtifactFor(a.members)) = {}
  BY <1>1 DEF ValidateSetArtifact, ArtifactFor, Problem
<1>3. ValidateSetDefinitionRefs(a.members, c.definitions) = {}
  <2>1. /\ Problem(\E m \in a.members : ~ Retained(c.definitions, m), "missing_definition") = {}
        /\ Problem(\E m \in a.members :
                       /\ Retained(c.definitions, m)
                       /\ MemberOf(FamilyVersion(c.definitions, m.family, m.version)) # m,
                   "member_fingerprint_mismatch") = {}
    BY <1>1, Zenon DEF RequestedDefinitions
  <2>2. \A m \in a.members : MemberOf(FamilyVersion(c.definitions, m.family, m.version)) = m
    BY <2>1 DEF Problem
  <2>3. \A m \in a.members :
            FamilyVersion(c.definitions, m.family, m.version).definition.declared = m.fingerprint
    BY <2>2 DEF MemberOf
  <2>4. Problem(\E m \in a.members :
                    /\ Retained(c.definitions, m)
                    /\ FamilyVersion(c.definitions, m.family, m.version).definition.declared
                           # m.fingerprint,
                "member_fingerprint_mismatch") = {}
    BY <2>3, NothingWrong
  <2> QED BY <2>1, <2>4 DEF ValidateSetDefinitionRefs
<1>4. a.members # {}
  <2>1. {<<m.family, m.version>> : m \in a.members} = ExpectedFamilies(c.profile.id)
    BY <1>1 DEF ProfileMembersMatch, Problem
  <2>2. c.profile.id \in {"am@1.0", "am@1.1"}
    BY <1>1 DEF ProfileMembersMatch, ValidateProfile, Problem
  <2>3. ExpectedFamilies(c.profile.id) # {}
    BY <2>2 DEF ExpectedFamilies
  <2> QED BY <2>1, <2>3
<1> QED BY <1>2, <1>3, <1>4

LEMMA AppliedValidates ==
    ASSUME NEW on, NEW a, Assemble(on, a) = {},
           NEW c, c.profile = on.profile, c.definitions = on.definitions,
           c.qualifications = on.qualifications, c.catalog = on.catalog, c.policy = on.policy,
           DOMAIN c.sets \subseteq Nat,
           \A i, j \in DOMAIN c.sets : c.sets[i].id = c.sets[j].id => i = j,
           ToSet(c.sets) = ToSet(on.sets) \cup {ArtifactFor(a.members)},
           Described(c)
    PROVE  ValidateCorpus(c) = {}
<1> DEFINE id == ContractSetId(a.members)
<1>1. /\ ProfileMembersMatch(on.profile, a.members) = {}
      /\ VerifyDefinitionBundles(on.definitions) = {}
      /\ RetainedSets(on.sets, on.definitions) = {}
      /\ RetainedQualifications(on, a, id) = {}
      /\ ValidateCatalogPolicy(on.catalog, on.policy, {s.id : s \in Indexed(on.sets)} \cup {id}) = {}
  BY Zenon DEF Assemble
<1>2. ValidateProfile(c.profile) = {}
  BY <1>1 DEF ProfileMembersMatch
<1>3. Indexed(c.sets) = Indexed(on.sets) \cup {ArtifactFor(a.members)}
  <2>1. ArtifactFor(a.members).members # {}
    BY RequestedMembers DEF ArtifactFor
  <2> QED BY <2>1 DEF Indexed
<1>4. {s.id : s \in Indexed(c.sets)} = {s.id : s \in Indexed(on.sets)} \cup {id}
  <2> DEFINE artifact == ArtifactFor(a.members)
  <2>1. artifact.id = id
    BY DEF ArtifactFor
  <2> HIDE DEF artifact, id
  <2>2. {s.id : s \in Indexed(on.sets) \cup {artifact}} = {s.id : s \in Indexed(on.sets)} \cup {id}
    BY <2>1
  <2> QED BY <1>3, <2>2 DEF artifact
<1>4a. /\ (UNION {ValidateSetArtifact(s) : s \in ToSet(on.sets)}) = {}
       /\ (UNION {ValidateSetDefinitionRefs(s.members, on.definitions) : s \in Indexed(on.sets)}) = {}
  BY <1>1, Zenon DEF RetainedSets
<1>5. ValidateSets(c.sets, c.definitions) = {}
  <2>1. ASSUME NEW s \in ToSet(c.sets) PROVE ValidateSetArtifact(s) = {}
    <3>1. \A t \in ToSet(on.sets) : ValidateSetArtifact(t) = {}
      BY <1>4a
    <3> QED BY <3>1, RequestedMembers
  <2>2. ASSUME NEW s \in Indexed(c.sets)
        PROVE  ValidateSetDefinitionRefs(s.members, c.definitions) = {}
    <3>1. \A t \in Indexed(on.sets) : ValidateSetDefinitionRefs(t.members, on.definitions) = {}
      BY <1>4a
    <3>2. ArtifactFor(a.members).members = a.members
      BY DEF ArtifactFor
    <3> QED BY <1>3, <3>1, <3>2, RequestedMembers
  <2>3. ~ \E s \in Indexed(c.sets) : \E i, j \in Positions(c.sets, s.id) : i < j
    BY DEF Positions
  <2>4. Problem(\E s \in Indexed(c.sets) : \E i, j \in Positions(c.sets, s.id) : i < j,
                "duplicate_or_conflicting_set") = {}
    BY <2>3, NothingWrong
  <2> QED BY <2>1, <2>2, <2>4 DEF ValidateSets
<1>6. /\ Problem(Repeats(c.qualifications, RecordIdOf), "conflicting_qualification") = {}
      /\ \A q \in ToSet(c.qualifications) :
             ValidateQualification(c.profile, q, q.set,
                 IF IsKnown(on.sets, q.set) THEN KnownMembers(on.sets, q.set) ELSE NONE,
                 NONE, NONE) = {}
  BY <1>1 DEF RetainedQualifications
<1>7. ASSUME NEW q \in ToSet(c.qualifications) PROVE RetainedQualification(c, q) = {}
  <2>1. IsKnown(c.sets, q.set) /\ q.members = KnownMembers(c.sets, q.set)
    BY DEF Described
  <2>2. Problem(~ IsKnown(c.sets, q.set), "dangling_qualification_set") = {}
    BY <2>1, NothingWrong
  <2>3. \A members : members \in {NONE, q.members} =>
            ValidateQualification(c.profile, q, NONE, members, NONE, NONE) = {}
    BY <1>6 DEF ValidateQualification, Problem
  <2> QED BY <2>1, <2>2, <2>3 DEF RetainedQualification
<1>8. ValidateCatalogPolicy(c.catalog, c.policy, {s.id : s \in Indexed(c.sets)}) = {}
  BY <1>1, <1>4
<1> QED BY <1>1, <1>2, <1>5, <1>6, <1>7, <1>8 DEF ValidateCorpus

(* An applied assembly leaves a corpus that validates, if the records were *)
(* not edited since it was approved and every qualification describes a    *)
(* set that is there now.                                                  *)
THEOREM AssemblyKeepsValid == Spec => AssembledStaysValid
<1>1. IInv' => (\A p : IsCorpus(Corpus(p)))'
  BY HostsReadCorpora, PTL
<1>2. IInv => \A p : \A i, j \in DOMAIN Corpus(p).sets :
                         Corpus(p).sets[i].id = Corpus(p).sets[j].id => i = j
  BY SetsOfACorpus
<1>3. IInv' => (\A p : \A i, j \in DOMAIN Corpus(p).sets :
                          Corpus(p).sets[i].id = Corpus(p).sets[j].id => i = j)'
  BY <1>2, PTL
<1>4. IInv /\ IInv' => AppliedIsValid
  <2> SUFFICES ASSUME IInv, IInv', NEW h \in Hosts, FillTarget(h), NEW p,
                      p = host[h].on.profile, NEW c, c = Corpus(p)',
                      c = [host[h].on EXCEPT !.sets = c.sets],
                      ToSet(c.sets) = ToSet(host[h].on.sets) \cup {host[h].artifact},
                      Described(c)
               PROVE  ValidateCorpus(c) = {}
    BY DEF AppliedIsValid
  <2> DEFINE on == host[h].on
  <2>1. PICK r \in Requests, q \in ToSet(on.qualifications) :
            Assemble(on, Request(r, q)) = {} /\ host[h].artifact = ArtifactFor(r.members)
    BY DEF FillTarget, IInv, IsHost, Idle, Approved
  <2>2. Request(r, q).members = r.members
    BY DEF Request
  <2>3. /\ c.profile = on.profile /\ c.definitions = on.definitions
        /\ c.qualifications = on.qualifications /\ c.catalog = on.catalog
        /\ c.policy = on.policy
    <3>1. \A field \in {"profile", "definitions", "qualifications", "catalog", "policy"} :
              c[field] = on[field]
      <4>1. {"profile", "definitions", "qualifications", "catalog", "policy"} \subseteq DOMAIN c
        BY DEF Corpus
      <4>2. DOMAIN c = DOMAIN on
        OBVIOUS
      <4> HIDE DEF on
      <4> QED BY <4>1, <4>2 DEF on
    <3> QED BY <3>1
  <2>4. /\ DOMAIN c.sets \subseteq Nat
        /\ \A i, j \in DOMAIN c.sets : c.sets[i].id = c.sets[j].id => i = j
    BY <1>1, <1>3 DEF IsCorpus
  <2> QED BY <2>1, <2>2, <2>3, <2>4, AppliedValidates
<1> QED BY <1>4, Initially, Stepwise, PTL DEF Spec, AssembledStaysValid

(***************************************************************************)
(* The seal of a definition.                                               *)
(***************************************************************************)
LEMMA ListDomain ==
    ASSUME NEW s, IsList(s)
    PROVE  \E n \in Nat : DOMAIN s = 1 .. n
  BY DEF IsList

LEMMA TheEntry ==
    ASSUME NEW s, IsList(s), ~ Repeats(s, KeyOf), NEW e \in ToSet(s)
    PROVE  Entry(s, e.key) = e
<1>1. PICK i \in DOMAIN s : s[i] = e
  BY DEF ToSet
<1>2. \A j \in DOMAIN s : s[j].key = e.key => j = i
  BY <1>1, ListDomain DEF Repeats, KeyOf
<1>3. Max({j \in DOMAIN s : s[j].key = e.key}) = i
  <2> DEFINE found == {j \in DOMAIN s : s[j].key = e.key}
  <2>1. found \in SUBSET Nat /\ i \in found /\ \A j \in found : j = i
    BY <1>1, <1>2, ListDomain
  <2> HIDE DEF found
  <2>2. Max(found) = i
    BY <2>1, TheOnlyOne
  <2> QED BY <2>2 DEF found
<1> QED BY <1>1, <1>3 DEF Entry

(* What a bundle that verifies is known to be.                             *)
LEMMA VerifiedBundle ==
    ASSUME NEW b, IsBundle(b), VerifyBundle(b) = {}
    PROVE  /\ b.definition.declared = SCF(b.definition)
           /\ DeclaredFingerprint(b.definition, TRUE) = {}
           /\ ResourceContents(b.definition.manifest, b.resources) = {}
           /\ ~ Repeats(b.definition.manifest, KeyOf)
           /\ ~ Repeats(b.resources, KeyOf)
           /\ Keys(b.resources) = Keys(b.definition.manifest)
           /\ \A e \in ToSet(b.definition.manifest) :
                  e.digest = Digest(Entry(b.resources, e.key).content)
<1> DEFINE d == b.definition
<1>1. /\ Problem(d.declared = NONE, "invalid_scf") = {}
      /\ Problem(DeclaredFingerprint(d, TRUE) # {}, "scf_mismatch") = {}
      /\ Problem(ValidateClosure(d, b.resources) # {}, "integrity_failure") = {}
  BY Zenon DEF VerifyBundle
<1>2. d.declared # NONE /\ DeclaredFingerprint(d, TRUE) = {} /\ ValidateClosure(d, b.resources) = {}
  BY <1>1 DEF Problem
<1>3. ParseDefinition(d, TRUE) = {}
      /\ Problem(TRUE /\ d.declared \notin {NONE, SCF(d)}, "fingerprint_mismatch") = {}
  BY <1>2, Zenon DEF DeclaredFingerprint
<1>4. d.declared = SCF(d)
  BY <1>2, <1>3 DEF Problem
<1>5. ResourceContents(d.manifest, b.resources) = {}
  BY <1>2, Zenon DEF ValidateClosure
<1>6. ~ Repeats(d.manifest, KeyOf)
  <2>1. Problem(Repeats(d.manifest, KeyOf), "duplicate_resource_key") = {}
    BY <1>3, Zenon DEF ParseDefinition
  <2> QED BY <2>1 DEF Problem
<1>7. /\ Problem(Repeats(b.resources, KeyOf), "conflicting_resource_definition") = {}
      /\ (UNION {EntryContent(e, d.manifest, b.resources) : e \in ToSet(d.manifest)}) = {}
      /\ Problem(~ (Keys(b.resources) \subseteq Keys(d.manifest)), "unlisted_resource") = {}
  BY <1>5, Zenon DEF ResourceContents
<1>8. ~ Repeats(b.resources, KeyOf) /\ Keys(b.resources) \subseteq Keys(d.manifest)
  BY <1>7 DEF Problem
<1>9. ASSUME NEW e \in ToSet(d.manifest)
      PROVE  e.key \in Keys(b.resources) /\ e.digest = Digest(Entry(b.resources, e.key).content)
  <2>1. EntryContent(e, d.manifest, b.resources) = {}
    BY <1>7
  <2>2. e.key \in Keys(b.resources)
    BY <2>1 DEF EntryContent
  <2>3. Problem(Digest(Entry(b.resources, e.key).content) # e.digest,
                "resource_digest_mismatch") = {}
    BY <2>1, <2>2 DEF EntryContent
  <2> QED BY <2>2, <2>3 DEF Problem
<1>10. Keys(d.manifest) \subseteq Keys(b.resources)
  BY <1>9 DEF Keys
<1> QED BY <1>2, <1>4, <1>5, <1>6, <1>8, <1>9, <1>10

(* The fingerprint determines every entry of the manifest but for the      *)
(* order of its dependencies.                                              *)
LEMMA SameEntries ==
    ASSUME NEW b, IsBundle(b), VerifyBundle(b) = {},
           NEW c, IsBundle(c), VerifyBundle(c) = {},
           c.definition.declared = b.definition.declared,
           NEW e \in ToSet(b.definition.manifest)
    PROVE  \E x \in ToSet(c.definition.manifest) :
               x.key = e.key /\ x.digest = e.digest /\ x.role = e.role
<1> DEFINE Plain(x) == [x EXCEPT !.deps = ToSet(@)]
           Entries(d) == {Plain(x) : x \in ToSet(d.manifest)}
<1>1. SCF(b.definition) = SCF(c.definition)
  BY VerifiedBundle
<1>2. NormalizedDefinition(b.definition) = NormalizedDefinition(c.definition)
  <2>1. SCF(b.definition).scf = SCF(c.definition).scf
    BY <1>1, Zenon
  <2> QED BY <2>1 DEF SCF
<1>3. Entries(b.definition) = Entries(c.definition)
  <2>1. NormalizedDefinition(b.definition).manifest = NormalizedDefinition(c.definition).manifest
    BY <1>2, Zenon
  <2> QED BY <2>1 DEF NormalizedDefinition
<1>4. PICK x \in ToSet(c.definition.manifest) : Plain(x) = Plain(e)
  BY <1>3
<1>5. ASSUME NEW y, y = [key |-> y.key, digest |-> y.digest, role |-> y.role, deps |-> y.deps]
      PROVE  Plain(y).key = y.key /\ Plain(y).digest = y.digest /\ Plain(y).role = y.role
  BY <1>5
<1>6. /\ x = [key |-> x.key, digest |-> x.digest, role |-> x.role, deps |-> x.deps]
      /\ e = [key |-> e.key, digest |-> e.digest, role |-> e.role, deps |-> e.deps]
  BY DEF IsBundle
<1> HIDE DEF Plain
<1>7. x.key = e.key /\ x.digest = e.digest /\ x.role = e.role
  BY <1>4, <1>5, <1>6
<1> QED BY <1>7

LEMMA SameContents ==
    ASSUME NEW b, IsBundle(b), VerifyBundle(b) = {},
           NEW c, IsBundle(c), VerifyBundle(c) = {},
           c.definition.declared = b.definition.declared,
           NEW key \in Keys(b.resources)
    PROVE  /\ key \in Keys(c.resources)
           /\ Entry(b.resources, key).content = Entry(c.resources, key).content
           /\ Entry(b.definition.manifest, key).role = Entry(c.definition.manifest, key).role
<1>1. PICK e \in ToSet(b.definition.manifest) : e.key = key
  <2>1. key \in Keys(b.definition.manifest)
    BY VerifiedBundle
  <2> QED BY <2>1 DEF Keys
<1>2. PICK x \in ToSet(c.definition.manifest) :
          x.key = e.key /\ x.digest = e.digest /\ x.role = e.role
  BY SameEntries
<1>3. key \in Keys(c.resources)
  BY <1>1, <1>2, VerifiedBundle DEF Keys
<1>4. [sha256 |-> Entry(b.resources, key).content] = [sha256 |-> Entry(c.resources, key).content]
  BY <1>1, <1>2, VerifiedBundle DEF Digest
<1>5. Entry(b.resources, key).content = Entry(c.resources, key).content
  <2>1. [sha256 |-> Entry(b.resources, key).content].sha256
            = [sha256 |-> Entry(c.resources, key).content].sha256
    BY <1>4, Zenon
  <2> QED BY <2>1
<1>6. Entry(b.definition.manifest, key) = e /\ Entry(c.definition.manifest, key) = x
  <2>1. Entry(b.definition.manifest, e.key) = e
    BY VerifiedBundle, TheEntry DEF IsBundle
  <2>2. Entry(c.definition.manifest, x.key) = x
    BY VerifiedBundle, TheEntry DEF IsBundle
  <2> QED BY <1>1, <1>2, <2>1, <2>2
<1> QED BY <1>2, <1>3, <1>5, <1>6

(* One fingerprint, one definition: bundles that verify under the same     *)
(* fingerprint have the same contents under the same keys and bind them to *)
(* the same projections, whatever the order of their manifests.            *)
THEOREM FingerprintSeals ==
    ASSUME NEW b, IsBundle(b), VerifyBundle(b) = {},
           NEW c, IsBundle(c), VerifyBundle(c) = {},
           c.definition.declared = b.definition.declared
    PROVE  Contents(b) = Contents(c) /\ Projections(b) = Projections(c)
<1>1. Keys(b.resources) = Keys(c.resources)
  <2>1. Keys(b.resources) \subseteq Keys(c.resources)
    BY SameContents
  <2>2. Keys(c.resources) \subseteq Keys(b.resources)
    BY SameContents
  <2> QED BY <2>1, <2>2
<1>2. Contents(b) = Contents(c)
  BY <1>1, SameContents DEF Contents
<1>3. ToSet(b.definition.frozen) = ToSet(c.definition.frozen)
  <2>1. SCF(b.definition) = SCF(c.definition)
    BY VerifiedBundle
  <2>2. SCF(b.definition).scf.frozen = SCF(c.definition).scf.frozen
    BY <2>1, Zenon
  <2> QED BY <2>2 DEF SCF, NormalizedDefinition
<1>4. ASSUME NEW key \in Keys(b.resources)
      PROVE  BindConformance(b.definition, b.resources, key)
                 = BindConformance(c.definition, c.resources, key)
  <2>1. /\ DeclaredFingerprint(b.definition, TRUE) = {}
        /\ DeclaredFingerprint(c.definition, TRUE) = {}
        /\ ResourceContents(b.definition.manifest, b.resources) = {}
        /\ ResourceContents(c.definition.manifest, c.resources) = {}
        /\ key \in Keys(b.definition.manifest) /\ key \in Keys(c.definition.manifest)
    BY <1>1, VerifiedBundle
  <2>2. /\ Entry(b.definition.manifest, key).role = Entry(c.definition.manifest, key).role
        /\ Entry(b.resources, key).content = Entry(c.resources, key).content
    BY SameContents
  <2> QED BY <1>3, <2>1, <2>2 DEF BindConformance
<1>5. Projections(b) = Projections(c)
  BY <1>1, <1>4 DEF Projections
<1> QED BY <1>2, <1>5

(***************************************************************************)
(* The search for a cycle.  It calls itself below a key, which is not      *)
(* visited again below that, and on the rest of the list: every call is    *)
(* less than the call that makes it.                                       *)
(***************************************************************************)
IsManifest(manifest) ==
    /\ IsList(manifest)
    /\ \A e \in ToSet(manifest) : IsList(e.deps)

Unvisited(manifest, call) == Cardinality(Keys(manifest) \ call.visiting)

Less(manifest, c, d) ==
    \/ Unvisited(manifest, c) < Unvisited(manifest, d)
    \/ c.visiting = d.visiting /\ Len(c.todo) < Len(d.todo)

Answers(manifest) == [visited : SUBSET Keys(manifest), cycle : BOOLEAN]

LEMMA LeastElement ==
    ASSUME NEW T \in SUBSET Nat, T # {}
    PROVE  \E x \in T : \A y \in T : x <= y
<1>1. OpToRel(<, Nat) = {ss \in Nat \X Nat : ss[1] < ss[2]}
  BY Zenon DEF OpToRel
<1>2. IsWellFoundedOn(OpToRel(<, Nat), Nat)
  BY NatLessThanWellFounded, Zenon
<1>3. PICK x \in T : \A y \in T : ~ (<<y, x>> \in OpToRel(<, Nat))
  BY <1>2, WFMin, Zenon
<1>4. ASSUME NEW y \in T PROVE x <= y
  <2>1. ~ (<<y, x>> \in {ss \in Nat \X Nat : ss[1] < ss[2]})
    BY <1>1, <1>3, Zenon
  <2>2. <<y, x>> \in Nat \X Nat
    OBVIOUS
  <2>3. ~ (y < x)
    BY <2>1, <2>2
  <2> QED BY <2>3
<1> QED BY <1>4

LEMMA FinitelyManyKeys ==
    ASSUME NEW manifest, IsManifest(manifest)
    PROVE  IsFiniteSet(Keys(manifest))
<1>1. PICK n \in Nat : DOMAIN manifest = 1 .. n
  BY ListDomain DEF IsManifest
<1>2. IsFiniteSet(1 .. n)
  BY FS_Interval
<1>3. Keys(manifest) = {manifest[i].key : i \in 1 .. n}
  BY <1>1 DEF Keys, ToSet
<1>4. PICK f : f \in Surjection(1 .. n, Keys(manifest))
  <2>1. [i \in 1 .. n |-> manifest[i].key] \in Surjection(1 .. n, Keys(manifest))
    BY <1>3 DEF Surjection
  <2> QED BY <2>1
<1> QED BY <1>2, <1>4, FS_Surjection, Zenon

LEMMA LessIsAnOrder ==
    ASSUME NEW manifest, IsManifest(manifest)
    PROVE  /\ \A c \in Calls(manifest) : Unvisited(manifest, c) \in Nat /\ Len(c.todo) \in Nat
           /\ \A c \in Calls(manifest) : ~ Less(manifest, c, c)
           /\ \A b, c, d \in Calls(manifest) :
                  Less(manifest, b, c) /\ Less(manifest, c, d) => Less(manifest, b, d)
<1>1. ASSUME NEW c \in Calls(manifest)
      PROVE  Unvisited(manifest, c) \in Nat /\ Len(c.todo) \in Nat
  <2>1. IsFiniteSet(Keys(manifest) \ c.visiting)
    BY FinitelyManyKeys, FS_Difference
  <2>2. Unvisited(manifest, c) \in Nat
    BY <2>1, FS_CardinalityType DEF Unvisited
  <2> QED BY <2>2 DEF Calls
<1>2. \A c \in Calls(manifest) : ~ Less(manifest, c, c)
  BY <1>1 DEF Less
<1>3. ASSUME NEW b \in Calls(manifest), NEW c \in Calls(manifest), NEW d \in Calls(manifest),
             Less(manifest, b, c), Less(manifest, c, d)
      PROVE  Less(manifest, b, d)
  <2>1. b.visiting = c.visiting => Unvisited(manifest, b) = Unvisited(manifest, c)
    BY DEF Unvisited
  <2>2. c.visiting = d.visiting => Unvisited(manifest, c) = Unvisited(manifest, d)
    BY DEF Unvisited
  <2> QED BY <1>1, <1>3, <2>1, <2>2 DEF Less
<1> QED BY <1>1, <1>2, <1>3

LEMMA LeastCall ==
    ASSUME NEW manifest, IsManifest(manifest),
           NEW T \in SUBSET Calls(manifest), T # {}
    PROVE  \E c \in T : \A d \in T : ~ Less(manifest, d, c)
<1>1. \A c \in T : Unvisited(manifest, c) \in Nat /\ Len(c.todo) \in Nat
  BY LessIsAnOrder
<1>2. PICK a \in T : \A d \in T : Unvisited(manifest, a) <= Unvisited(manifest, d)
  <2> DEFINE ns == {Unvisited(manifest, c) : c \in T}
  <2>1. ns \in SUBSET Nat /\ ns # {}
    BY <1>1
  <2>2. \E n \in ns : \A m \in ns : n <= m
    <3> HIDE DEF ns
    <3> QED BY <2>1, LeastElement
  <2> QED BY <2>2
<1>3. PICK c \in T : /\ c.visiting = a.visiting
                     /\ \A d \in T : d.visiting = a.visiting => Len(c.todo) <= Len(d.todo)
  <2> DEFINE ls == {Len(d.todo) : d \in {x \in T : x.visiting = a.visiting}}
  <2>1. ls \in SUBSET Nat /\ ls # {}
    BY <1>1
  <2>2. \E n \in ls : \A m \in ls : n <= m
    <3> HIDE DEF ls
    <3> QED BY <2>1, LeastElement
  <2> QED BY <2>2
<1>4. Unvisited(manifest, c) = Unvisited(manifest, a)
  BY <1>3 DEF Unvisited
<1>5. ASSUME NEW d \in T, Less(manifest, d, c) PROVE FALSE
  BY <1>1, <1>2, <1>3, <1>4, <1>5 DEF Less
<1> QED BY <1>5

LEMMA EntryOfKey ==
    ASSUME NEW manifest, IsManifest(manifest), NEW key \in Keys(manifest)
    PROVE  Entry(manifest, key) \in ToSet(manifest)
<1> DEFINE found == {i \in DOMAIN manifest : manifest[i].key = key}
<1>1. PICK n \in Nat : DOMAIN manifest = 1 .. n
  BY ListDomain DEF IsManifest
<1>2. found \in SUBSET (1 .. n) /\ found # {}
  BY <1>1 DEF Keys, ToSet
<1>3. Max(found) \in found
  <2>1. \E x \in found : \A y \in found : x >= y
    <3> DEFINE ms == {n - i : i \in found}
    <3>1. ms \in SUBSET Nat /\ ms # {}
      BY <1>2
    <3>2. \E x \in ms : \A y \in ms : x <= y
      <4> HIDE DEF ms
      <4> QED BY <3>1, LeastElement
    <3>3. PICK x \in found : \A y \in found : n - x <= n - y
      BY <3>2
    <3> HIDE DEF found
    <3> QED BY <1>2, <3>3
  <2> HIDE DEF found
  <2> QED BY <2>1 DEF Max
<1> HIDE DEF found
<1>4. manifest[Max(found)] \in ToSet(manifest)
  BY <1>2, <1>3, <1>1 DEF ToSet
<1> QED BY <1>4 DEF Entry, found

LEMMA DependenciesAreMentioned ==
    ASSUME NEW manifest, IsManifest(manifest), NEW key \in Keys(manifest)
    PROVE  /\ DependencyKeys(manifest, key) \in Seq(Mentioned(manifest))
           /\ Keys(Entry(manifest, key).deps) =
                  {DependencyKeys(manifest, key)[i] : i \in DOMAIN DependencyKeys(manifest, key)}
<1> DEFINE deps == Entry(manifest, key).deps
<1>1. Entry(manifest, key) \in ToSet(manifest)
  BY EntryOfKey
<1>2. IsList(deps)
  BY <1>1 DEF IsManifest
<1>3. PICK n \in Nat : DOMAIN deps = 1 .. n
  BY <1>2, ListDomain
<1>4. Keys(deps) \subseteq Mentioned(manifest)
  BY <1>1 DEF Mentioned
<1>5. DependencyKeys(manifest, key) = [i \in DOMAIN deps |-> deps[i].key]
  BY DEF DependencyKeys
<1>6. Keys(deps) = {deps[i].key : i \in DOMAIN deps}
  BY DEF Keys, ToSet
<1> HIDE DEF deps
<1>7. [i \in DOMAIN deps |-> deps[i].key] \in [1 .. n -> Mentioned(manifest)]
  BY <1>3, <1>4, <1>6
<1>8. DependencyKeys(manifest, key) \in Seq(Mentioned(manifest))
  BY <1>5, <1>7
<1> QED BY <1>5, <1>6, <1>8 DEF deps

(* The calls that a call makes.                                            *)
LEMMA CallsAreLess ==
    ASSUME NEW manifest, IsManifest(manifest), NEW c \in Calls(manifest), c.todo # <<>>,
           NEW visited \in SUBSET Keys(manifest)
    PROVE  LET key == Head(c.todo)
               rest == Call(Tail(c.todo), c.visiting, visited)
               below == Call(DependencyKeys(manifest, key), c.visiting \cup {key}, c.visited)
           IN  /\ rest \in Calls(manifest) /\ Less(manifest, rest, c)
               /\ key \in Keys(manifest) \ c.visiting =>
                      below \in Calls(manifest) /\ Less(manifest, below, c)
<1> DEFINE key == Head(c.todo)
           rest == Call(Tail(c.todo), c.visiting, visited)
           below == Call(DependencyKeys(manifest, key), c.visiting \cup {key}, c.visited)
<1>1. c.todo \in Seq(Mentioned(manifest)) /\ c.visiting \subseteq Keys(manifest)
      /\ c.visited \subseteq Keys(manifest)
  BY DEF Calls
<1>2. Tail(c.todo) \in Seq(Mentioned(manifest)) /\ Len(Tail(c.todo)) < Len(c.todo)
  BY <1>1
<1>3. rest \in Calls(manifest) /\ Less(manifest, rest, c)
  BY <1>1, <1>2 DEF Calls, Call, Less
<1>4. ASSUME key \in Keys(manifest) \ c.visiting
      PROVE  below \in Calls(manifest) /\ Less(manifest, below, c)
  <2>1. below \in Calls(manifest)
    BY <1>1, <1>4, DependenciesAreMentioned DEF Calls, Call
  <2>2. Unvisited(manifest, below) < Unvisited(manifest, c)
    <3> DEFINE before == Keys(manifest) \ c.visiting
    <3>1. IsFiniteSet(before) /\ key \in before
      BY <1>4, FinitelyManyKeys, FS_Difference
    <3>2. Keys(manifest) \ below.visiting = before \ {key}
      BY DEF Call
    <3>3. Cardinality(before \ {key}) = Cardinality(before) - 1 /\ Cardinality(before) \in Nat
      <4> HIDE DEF before
      <4> QED BY <3>1, FS_RemoveElement, FS_CardinalityType
    <3>4. Unvisited(manifest, c) = Cardinality(before)
      BY DEF Unvisited
    <3>5. Unvisited(manifest, below) = Cardinality(before \ {key})
      BY <3>2, Zenon DEF Unvisited
    <3> HIDE DEF before, below
    <3> QED BY <3>3, <3>4, <3>5
  <2> QED BY <2>1, <2>2 DEF Less
<1> QED BY <1>3, <1>4

(* A step looks only at the answers to lesser calls.                       *)
LEMMA FollowIsLocal ==
    ASSUME NEW manifest, IsManifest(manifest), NEW c \in Calls(manifest), NEW f, NEW g,
           \A d \in Calls(manifest) :
               Less(manifest, d, c) => f[d] = g[d] /\ f[d] \in Answers(manifest)
    PROVE  /\ Follow(manifest, f, c) = Follow(manifest, g, c)
           /\ Follow(manifest, f, c) \in Answers(manifest)
<1> DEFINE key == Head(c.todo)
           Rest(visited) == Call(Tail(c.todo), c.visiting, visited)
           below == Call(DependencyKeys(manifest, key), c.visiting \cup {key}, c.visited)
<1>1. c.visited \in SUBSET Keys(manifest)
  BY DEF Calls
<1>2. CASE c.todo = <<>>
  BY <1>1, <1>2 DEF Follow, Answers
<1>3. ASSUME c.todo # <<>>, NEW visited \in SUBSET Keys(manifest)
      PROVE  f[Rest(visited)] = g[Rest(visited)] /\ f[Rest(visited)] \in Answers(manifest)
  <2>1. Rest(visited) \in Calls(manifest) /\ Less(manifest, Rest(visited), c)
    BY <1>3, CallsAreLess
  <2> QED BY <2>1
<1>4. CASE c.todo # <<>> /\ (key \notin Keys(manifest) \/ key \in c.visited)
  BY <1>1, <1>3, <1>4 DEF Follow
<1>5. CASE c.todo # <<>> /\ ~ (key \notin Keys(manifest) \/ key \in c.visited)
               /\ key \in c.visiting
  <2>1. /\ Follow(manifest, f, c) = [visited |-> f[Rest(c.visited)].visited, cycle |-> TRUE]
        /\ Follow(manifest, g, c) = [visited |-> g[Rest(c.visited)].visited, cycle |-> TRUE]
    BY <1>5 DEF Follow
  <2>2. f[Rest(c.visited)] = g[Rest(c.visited)] /\ f[Rest(c.visited)] \in Answers(manifest)
    BY <1>1, <1>3, <1>5
  <2> QED BY <2>1, <2>2 DEF Answers
<1>6. CASE c.todo # <<>> /\ ~ (key \notin Keys(manifest) \/ key \in c.visited)
               /\ key \notin c.visiting
  <2> DEFINE After(h) == Rest(h[below].visited \cup {key})
  <2>1. /\ Follow(manifest, f, c) = [visited |-> f[After(f)].visited,
                                     cycle |-> f[below].cycle \/ f[After(f)].cycle]
        /\ Follow(manifest, g, c) = [visited |-> g[After(g)].visited,
                                     cycle |-> g[below].cycle \/ g[After(g)].cycle]
    BY <1>6 DEF Follow
  <2>2. f[below] = g[below] /\ f[below] \in Answers(manifest)
    <3>1. below \in Calls(manifest) /\ Less(manifest, below, c)
      BY <1>1, <1>6, CallsAreLess
    <3> QED BY <3>1
  <2>3. f[below].visited \cup {key} \in SUBSET Keys(manifest)
    BY <1>6, <2>2 DEF Answers
  <2>4. f[After(f)] = g[After(f)] /\ f[After(f)] \in Answers(manifest)
    BY <1>3, <1>6, <2>3
  <2>5. After(f) = After(g)
    BY <2>2
  <2> HIDE DEF below, After
  <2> QED BY <2>1, <2>2, <2>4, <2>5 DEF Answers
<1> QED BY <1>2, <1>4, <1>5, <1>6

(* An answer for a call and everything less than it, found step by step.   *)
Under(manifest, c) == {d \in Calls(manifest) : d = c \/ Less(manifest, d, c)}

Answered(manifest, h, c) ==
    \A d \in Under(manifest, c) :
        h[d] = Follow(manifest, h, d) /\ h[d] \in Answers(manifest)

LEMMA AnswersAgree ==
    ASSUME NEW manifest, IsManifest(manifest),
           NEW c \in Calls(manifest), NEW h, Answered(manifest, h, c),
           NEW x \in Calls(manifest), NEW g, Answered(manifest, g, x),
           NEW d \in Under(manifest, c) \cap Under(manifest, x)
    PROVE  h[d] = g[d]
<1> DEFINE T == {e \in Under(manifest, c) \cap Under(manifest, x) : h[e] # g[e]}
<1> SUFFICES ASSUME T # {} PROVE FALSE
  OBVIOUS
<1>1. T \in SUBSET Calls(manifest)
  BY DEF Under
<1>2. PICK e \in T : \A y \in T : ~ Less(manifest, y, e)
  <2> HIDE DEF T
  <2> QED BY <1>1, LeastCall
<1>3. ASSUME NEW y \in Calls(manifest), Less(manifest, y, e)
      PROVE  h[y] = g[y] /\ h[y] \in Answers(manifest)
  <2>1. y \in Under(manifest, c) \cap Under(manifest, x)
    BY <1>3, LessIsAnOrder DEF Under
  <2>2. h[y] = g[y]
    BY <1>2, <1>3, <2>1
  <2> QED BY <2>1, <2>2 DEF Answered
<1>4. Follow(manifest, h, e) = Follow(manifest, g, e)
  BY <1>1, <1>3, FollowIsLocal
<1> QED BY <1>4 DEF Answered

LEMMA EveryCallIsAnswered ==
    ASSUME NEW manifest, IsManifest(manifest), NEW x \in Calls(manifest)
    PROVE  \E h : Answered(manifest, h, x)
<1> DEFINE T == {c \in Calls(manifest) : ~ \E h : Answered(manifest, h, c)}
<1> SUFFICES ASSUME T # {} PROVE FALSE
  OBVIOUS
<1>1. PICK c \in T : \A y \in T : ~ Less(manifest, y, c)
  <2>1. T \in SUBSET Calls(manifest)
    OBVIOUS
  <2> HIDE DEF T
  <2> QED BY <2>1, LeastCall
<1> DEFINE Lesser == {d \in Calls(manifest) : Less(manifest, d, c)}
           For(d) == CHOOSE h : Answered(manifest, h, d)
           G == [d \in Lesser |-> For(d)[d]]
           H == [d \in Under(manifest, c) |-> IF d = c THEN Follow(manifest, G, c) ELSE G[d]]
<1>2. ASSUME NEW d \in Lesser
      PROVE  Answered(manifest, For(d), d)
  <2>1. \E h : Answered(manifest, h, d)
    BY <1>1, <1>2
  <2> QED BY <2>1
<1>3. ASSUME NEW d \in Lesser
      PROVE  /\ H[d] = For(d)[d] /\ G[d] = For(d)[d] /\ d \in Under(manifest, d)
             /\ H[d] \in Answers(manifest)
  <2>1. d # c /\ d \in Under(manifest, c)
    BY <1>3, LessIsAnOrder DEF Under
  <2>2. d \in Under(manifest, d)
    BY <1>3 DEF Under
  <2>3. G[d] = For(d)[d]
    OBVIOUS
  <2>4. H[d] = G[d]
    <3> HIDE DEF G
    <3> QED BY <2>1
  <2>5. Answered(manifest, For(d), d)
    BY <1>2
  <2> HIDE DEF G, H, For
  <2> QED BY <2>2, <2>3, <2>4, <2>5 DEF Answered
<1>4. ASSUME NEW d \in Lesser
      PROVE  H[d] = Follow(manifest, H, d)
  <2>1. ASSUME NEW e \in Calls(manifest), Less(manifest, e, d)
        PROVE  For(d)[e] = H[e] /\ For(d)[e] \in Answers(manifest)
    <3>1. e \in Lesser
      BY <2>1, LessIsAnOrder
    <3>2. e \in Under(manifest, d)
      BY <2>1 DEF Under
    <3>3. Answered(manifest, For(d), d) /\ Answered(manifest, For(e), e)
      BY <1>2, <3>1
    <3>4. H[e] = For(e)[e] /\ e \in Under(manifest, e)
      BY <1>3, <3>1
    <3> HIDE DEF H, For
    <3>5. For(d)[e] = For(e)[e]
      BY <3>1, <3>2, <3>3, <3>4, AnswersAgree
    <3> QED BY <3>2, <3>3, <3>4, <3>5 DEF Answered
  <2>2. d \in Calls(manifest)
    OBVIOUS
  <2>3. For(d)[d] = Follow(manifest, For(d), d)
    <3>1. Answered(manifest, For(d), d)
      BY <1>2
    <3>2. d \in Under(manifest, d)
      BY DEF Under
    <3> HIDE DEF For
    <3> QED BY <3>1, <3>2 DEF Answered
  <2>4. H[d] = For(d)[d]
    BY <1>3
  <2> HIDE DEF H, For
  <2>5. Follow(manifest, For(d), d) = Follow(manifest, H, d)
    BY <2>1, <2>2, FollowIsLocal
  <2> QED BY <2>3, <2>4, <2>5
<1>5. H[c] = Follow(manifest, H, c) /\ H[c] \in Answers(manifest)
  <2>1. \A d \in Calls(manifest) :
            Less(manifest, d, c) => G[d] = H[d] /\ G[d] \in Answers(manifest)
    <3> HIDE DEF G, H, For
    <3> QED BY <1>3
  <2>2. H[c] = Follow(manifest, G, c)
    <3> HIDE DEF G
    <3> QED BY DEF Under
  <2> HIDE DEF G, H
  <2>3. c \in Calls(manifest)
    BY <1>1
  <2>4. Follow(manifest, G, c) = Follow(manifest, H, c) /\ Follow(manifest, G, c) \in Answers(manifest)
    BY <2>1, <2>3, FollowIsLocal
  <2> QED BY <2>2, <2>4
<1>6. Answered(manifest, H, c)
  <2> HIDE DEF H
  <2> QED BY <1>3, <1>4, <1>5 DEF Answered, Under
<1> HIDE DEF H
<1> QED BY <1>1, <1>6

(* The search is well defined: it is what its step says, call by call.     *)
LEMMA SearchIsDefined ==
    ASSUME NEW manifest, IsManifest(manifest)
    PROVE  \A c \in Calls(manifest) :
               /\ Search(manifest)[c] = Follow(manifest, Search(manifest), c)
               /\ Search(manifest)[c] \in Answers(manifest)
<1> DEFINE For(c) == CHOOSE h : Answered(manifest, h, c)
           F == [c \in Calls(manifest) |-> For(c)[c]]
<1>1. ASSUME NEW c \in Calls(manifest)
      PROVE  Answered(manifest, For(c), c) /\ c \in Under(manifest, c) /\ F[c] = For(c)[c]
  <2>1. \E h : Answered(manifest, h, c)
    BY EveryCallIsAnswered
  <2> QED BY <2>1 DEF Under
<1>2. ASSUME NEW c \in Calls(manifest)
      PROVE  F[c] = Follow(manifest, F, c)
  <2>1. ASSUME NEW d \in Calls(manifest), Less(manifest, d, c)
        PROVE  For(c)[d] = F[d] /\ For(c)[d] \in Answers(manifest)
    <3>1. d \in Under(manifest, c)
      BY <2>1 DEF Under
    <3>2. Answered(manifest, For(d), d) /\ d \in Under(manifest, d) /\ F[d] = For(d)[d]
      BY <1>1
    <3>3. Answered(manifest, For(c), c)
      BY <1>1
    <3> HIDE DEF F, For
    <3>4. For(c)[d] = For(d)[d]
      BY <3>1, <3>2, <3>3, AnswersAgree
    <3> QED BY <3>1, <3>2, <3>3, <3>4 DEF Answered
  <2>2. Answered(manifest, For(c), c) /\ c \in Under(manifest, c) /\ F[c] = For(c)[c]
    BY <1>1
  <2> HIDE DEF F, For
  <2>3. Follow(manifest, For(c), c) = Follow(manifest, F, c)
    BY <2>1, FollowIsLocal
  <2> QED BY <2>2, <2>3 DEF Answered
<1>3. F = [c \in Calls(manifest) |-> Follow(manifest, F, c)]
  <2>1. F = [c \in Calls(manifest) |-> F[c]]
    <3>1. ASSUME NEW S, NEW f, f = [c \in S |-> For(c)[c]]
          PROVE  f = [c \in S |-> f[c]]
      <4> HIDE DEF For
      <4> QED BY <3>1
    <3> QED BY <3>1, Zenon
  <2> HIDE DEF F
  <2> QED BY <1>2, <2>1
<1> HIDE DEF F, For
<1> DEFINE S == CHOOSE s : s = [c \in Calls(manifest) |-> Follow(manifest, s, c)]
<1>4. S = [c \in Calls(manifest) |-> Follow(manifest, S, c)]
  BY <1>3, Zenon
<1>5. Search(manifest) = S
  BY DEF Search
<1>6. Search(manifest) = [c \in Calls(manifest) |-> Follow(manifest, Search(manifest), c)]
  BY <1>4, <1>5, Zenon
<1>7. \A c \in Calls(manifest) :
          Search(manifest)[c] = Follow(manifest, Search(manifest), c)
  BY <1>6, Zenon
<1>8. ASSUME NEW x \in Calls(manifest), Search(manifest)[x] \notin Answers(manifest)
      PROVE  FALSE
  <2> DEFINE T == {d \in Calls(manifest) : Search(manifest)[d] \notin Answers(manifest)}
  <2>1. T \in SUBSET Calls(manifest) /\ T # {}
    BY <1>8
  <2>2. PICK c \in T : \A d \in T : ~ Less(manifest, d, c)
    <3> HIDE DEF T
    <3> QED BY <2>1, LeastCall
  <2>3. \A d \in Calls(manifest) :
            Less(manifest, d, c) => Search(manifest)[d] \in Answers(manifest)
    BY <2>2
  <2>4. Follow(manifest, Search(manifest), c) \in Answers(manifest)
    BY <2>2, <2>3, FollowIsLocal
  <2> QED BY <1>7, <2>2, <2>4
<1> QED BY <1>7, <1>8

(***************************************************************************)
(* What the search finds out.  Done keys are closed under dependency, and  *)
(* nothing among them leads back; without a cycle a call keeps that and    *)
(* has done every key of its list.                                         *)
(***************************************************************************)
Leads(manifest, key, other) == other \in Keys(Entry(manifest, key).deps)

GoesRound(manifest, part) ==
    part # {} /\ \A key \in part : \E other \in part : Leads(manifest, key, other)

Cleared(manifest, done) ==
    /\ \A key \in done, other \in Keys(manifest) : Leads(manifest, key, other) => other \in done
    /\ \A part \in SUBSET done : ~ GoesRound(manifest, part)

LEMMA OneMoreCleared ==
    ASSUME NEW manifest, NEW done \in SUBSET Keys(manifest), Cleared(manifest, done),
           NEW key \in Keys(manifest),
           \A other \in Keys(manifest) : Leads(manifest, key, other) => other \in done
    PROVE  Cleared(manifest, done \cup {key})
<1>1. ASSUME NEW part \in SUBSET (done \cup {key}), GoesRound(manifest, part)
      PROVE  FALSE
  <2>1. ASSUME NEW k \in part PROVE \E other \in part \cap done : Leads(manifest, k, other)
    <3>1. PICK other \in part : Leads(manifest, k, other)
      BY <1>1, <2>1 DEF GoesRound
    <3>2. other \in done
      BY <3>1 DEF Cleared
    <3> QED BY <3>1, <3>2
  <2>2. GoesRound(manifest, part \cap done)
    BY <1>1, <2>1 DEF GoesRound
  <2> QED BY <2>2 DEF Cleared
<1>2. ASSUME NEW k \in done \cup {key}, NEW other \in Keys(manifest), Leads(manifest, k, other)
      PROVE  other \in done \cup {key}
  BY <1>2 DEF Cleared
<1> QED BY <1>1, <1>2 DEF Cleared

Sound(manifest, c) ==
    LET answer == Search(manifest)[c]
    IN  /\ c.visited \subseteq answer.visited
        /\ ~ answer.cycle /\ Cleared(manifest, c.visited) =>
               /\ Cleared(manifest, answer.visited)
               /\ \A i \in DOMAIN c.todo : c.todo[i] \in Keys(manifest) => c.todo[i] \in answer.visited

LEMMA SearchIsSound ==
    ASSUME NEW manifest, IsManifest(manifest), NEW x \in Calls(manifest)
    PROVE  Sound(manifest, x)
<1> DEFINE T == {c \in Calls(manifest) : ~ Sound(manifest, c)}
           search == Search(manifest)
<1> SUFFICES ASSUME T # {} PROVE FALSE
  OBVIOUS
<1>1. PICK c \in T : \A y \in T : ~ Less(manifest, y, c)
  <2>1. T \in SUBSET Calls(manifest)
    OBVIOUS
  <2> HIDE DEF T
  <2> QED BY <2>1, LeastCall
<1>2. c \in Calls(manifest) /\ ~ Sound(manifest, c)
  BY <1>1
<1>3. \A d \in Calls(manifest) : Less(manifest, d, c) => Sound(manifest, d)
  BY <1>1
<1> HIDE DEF T, search
<1>4. /\ search[c] = Follow(manifest, search, c)
      /\ \A d \in Calls(manifest) : search[d] \in Answers(manifest)
  BY <1>2, SearchIsDefined DEF search
<1> DEFINE key == Head(c.todo)
           Rest(visited) == Call(Tail(c.todo), c.visiting, visited)
           below == Call(DependencyKeys(manifest, key), c.visiting \cup {key}, c.visited)
<1>5. /\ c.todo \in Seq(Mentioned(manifest))
      /\ c.visited \in SUBSET Keys(manifest)
  BY <1>2 DEF Calls
<1>6. CASE c.todo = <<>>
  <2>1. search[c] = [visited |-> c.visited, cycle |-> FALSE]
    BY <1>4, <1>6 DEF Follow
  <2>2. DOMAIN c.todo = {}
    BY <1>6
  <2>3. Sound(manifest, c)
    BY <2>1, <2>2 DEF Sound, search
  <2> QED BY <1>2, <2>3
(* The rest of the list is as sound, once the head of it is done.          *)
<1>7. ASSUME c.todo # <<>>, NEW visited \in SUBSET Keys(manifest)
      PROVE  LET answer == search[Rest(visited)]
             IN  /\ answer \in Answers(manifest)
                 /\ visited \subseteq answer.visited
                 /\ ~ answer.cycle /\ Cleared(manifest, visited)
                        /\ (key \in Keys(manifest) => key \in visited) =>
                        /\ Cleared(manifest, answer.visited)
                        /\ \A i \in DOMAIN c.todo :
                               c.todo[i] \in Keys(manifest) => c.todo[i] \in answer.visited
  <2>1. Rest(visited) \in Calls(manifest) /\ Less(manifest, Rest(visited), c)
    BY <1>2, <1>7, CallsAreLess
  <2>2. Sound(manifest, Rest(visited))
    BY <1>3, <2>1
  <2>3. Rest(visited).visited = visited /\ Rest(visited).todo = Tail(c.todo)
    BY DEF Call
  <2>4. \A i \in DOMAIN c.todo : i = 1 \/ (i - 1 \in DOMAIN Tail(c.todo) /\ c.todo[i] = Tail(c.todo)[i - 1])
    BY <1>5, <1>7
  <2>5. c.todo[1] = key
    BY <1>5, <1>7
  <2>6. search[Rest(visited)] \in Answers(manifest)
    BY <1>4, <2>1
  <2> HIDE DEF Rest, key
  <2> QED BY <2>2, <2>3, <2>4, <2>5, <2>6 DEF Sound, search
<1>8. CASE c.todo # <<>> /\ (key \notin Keys(manifest) \/ key \in c.visited)
  <2>1. search[c] = search[Rest(c.visited)]
    BY <1>4, <1>8 DEF Follow
  <2> HIDE DEF Rest, key
  <2>2. Sound(manifest, c)
    BY <1>5, <1>7, <1>8, <2>1 DEF Sound, search
  <2> QED BY <1>2, <2>2
<1>9. CASE c.todo # <<>> /\ ~ (key \notin Keys(manifest) \/ key \in c.visited)
               /\ key \in c.visiting
  <2>1. search[c] = [visited |-> search[Rest(c.visited)].visited, cycle |-> TRUE]
    BY <1>4, <1>9 DEF Follow
  <2> HIDE DEF Rest, key
  <2>2. Sound(manifest, c)
    BY <1>5, <1>7, <1>9, <2>1 DEF Sound, search
  <2> QED BY <1>2, <2>2
<1>10. CASE c.todo # <<>> /\ ~ (key \notin Keys(manifest) \/ key \in c.visited)
               /\ key \notin c.visiting
  <2> DEFINE done == search[below].visited
             after == search[Rest(done \cup {key})]
  <2>1. search[c] = [visited |-> after.visited, cycle |-> search[below].cycle \/ after.cycle]
    BY <1>4, <1>10 DEF Follow
  <2>2. below \in Calls(manifest) /\ Sound(manifest, below)
    <3>1. below \in Calls(manifest) /\ Less(manifest, below, c)
      BY <1>2, <1>5, <1>10, CallsAreLess
    <3> QED BY <1>3, <3>1
  <2>3. done \in SUBSET Keys(manifest) /\ search[below].cycle \in BOOLEAN
    BY <1>4, <2>2 DEF Answers
  <2>4. below.visited = c.visited /\ below.todo = DependencyKeys(manifest, key)
    BY DEF Call
  <2>5. c.visited \subseteq done
    BY <2>2, <2>4 DEF Sound, search
  <2>6. ASSUME ~ search[below].cycle, Cleared(manifest, c.visited)
        PROVE  Cleared(manifest, done \cup {key})
    <3>1. /\ Cleared(manifest, done)
          /\ \A i \in DOMAIN DependencyKeys(manifest, key) :
                 DependencyKeys(manifest, key)[i] \in Keys(manifest)
                     => DependencyKeys(manifest, key)[i] \in done
      <4> HIDE DEF below
      <4> QED BY <2>2, <2>4, <2>6 DEF Sound, search
    <3>2. ASSUME NEW other \in Keys(manifest), Leads(manifest, key, other)
          PROVE  other \in done
      <4>1. key \in Keys(manifest)
        BY <1>10
      <4> HIDE DEF key
      <4>2. other \in {DependencyKeys(manifest, key)[i] :
                             i \in DOMAIN DependencyKeys(manifest, key)}
        <5>1. other \in Keys(Entry(manifest, key).deps)
          BY <3>2 DEF Leads
        <5> QED BY <4>1, <5>1, DependenciesAreMentioned, Zenon
      <4>3. PICK i \in DOMAIN DependencyKeys(manifest, key) :
                DependencyKeys(manifest, key)[i] = other
        BY <4>2
      <4> QED BY <3>1, <3>2, <4>3
    <3> HIDE DEF done, key
    <3> QED BY <1>10, <2>3, <3>1, <3>2, OneMoreCleared DEF key
  <2>7. done \cup {key} \in SUBSET Keys(manifest)
    BY <1>10, <2>3
  <2> HIDE DEF done
  <2>8. /\ after \in Answers(manifest)
        /\ done \cup {key} \subseteq after.visited
        /\ ~ after.cycle /\ Cleared(manifest, done \cup {key}) =>
               /\ Cleared(manifest, after.visited)
               /\ \A i \in DOMAIN c.todo :
                      c.todo[i] \in Keys(manifest) => c.todo[i] \in after.visited
    BY <1>7, <1>10, <2>7
  <2> HIDE DEF after, below, key
  <2>9. /\ search[c].visited = after.visited
        /\ ~ search[c].cycle => ~ search[below].cycle /\ ~ after.cycle
    BY <2>1, <2>3, <2>8 DEF Answers
  <2>10. Sound(manifest, c)
    BY <2>5, <2>6, <2>8, <2>9 DEF Sound, search
  <2> QED BY <1>2, <2>10
<1> QED BY <1>6, <1>8, <1>9, <1>10

(* No cycle found, none there.                                             *)
LEMMA CycleIsDetected ==
    ASSUME NEW manifest, IsManifest(manifest), ~ DetectCycle(manifest),
           NEW part \in SUBSET Keys(manifest)
    PROVE  ~ GoesRound(manifest, part)
<1> DEFINE keys == [i \in DOMAIN manifest |-> manifest[i].key]
           first == Call(keys, {}, {})
<1>1. PICK n \in Nat : DOMAIN manifest = 1 .. n
  BY ListDomain DEF IsManifest
<1>2. Keys(manifest) = {manifest[i].key : i \in DOMAIN manifest}
  BY DEF Keys, ToSet
<1>3. keys \in Seq(Mentioned(manifest))
  <2>1. keys \in [1 .. n -> Mentioned(manifest)]
    BY <1>1, <1>2 DEF Mentioned
  <2> QED BY <2>1
<1>4. first \in Calls(manifest)
  BY <1>3 DEF Calls, Call
<1>5. first.todo = keys /\ first.visited = {}
  BY DEF Call
<1>6. Cleared(manifest, {})
  BY DEF Cleared, GoesRound
<1>7. Sound(manifest, first) /\ Search(manifest)[first] \in Answers(manifest)
      /\ ~ Search(manifest)[first].cycle
  BY <1>4, SearchIsSound, SearchIsDefined DEF DetectCycle
<1>8. /\ Cleared(manifest, Search(manifest)[first].visited)
      /\ \A i \in DOMAIN keys : keys[i] \in Keys(manifest)
             => keys[i] \in Search(manifest)[first].visited
  <2> HIDE DEF first, keys
  <2> QED BY <1>5, <1>6, <1>7 DEF Sound
<1>9. Keys(manifest) \subseteq Search(manifest)[first].visited
  <2> HIDE DEF first
  <2> QED BY <1>2, <1>8
<1> HIDE DEF first
<1> QED BY <1>8, <1>9 DEF Cleared

LEMMA VerifiedHasNoCycle ==
    ASSUME NEW b, IsBundle(b), VerifyBundle(b) = {}
    PROVE  ~ LeadsBack(b)
<1> DEFINE manifest == b.definition.manifest
<1>1. IsManifest(manifest)
  BY DEF IsBundle, IsManifest
<1>2. ~ DetectCycle(manifest)
  <2>1. ParseDefinition(b.definition, TRUE) = {}
    BY VerifiedBundle, Zenon DEF DeclaredFingerprint
  <2>2. Problem(DetectCycle(manifest), "dependency_cycle") = {}
    BY <2>1, Zenon DEF ParseDefinition
  <2> QED BY <2>2 DEF Problem
<1>3. ASSUME NEW part \in (SUBSET Keys(manifest)) \ {{}},
             \A key \in part : \E other \in part : DependsOn(b, key, other)
      PROVE  FALSE
  <2>1. GoesRound(manifest, part)
    BY <1>3 DEF GoesRound, Leads, DependsOn
  <2> QED BY <1>1, <1>2, <1>3, <2>1, CycleIsDetected
<1> QED BY <1>3 DEF LeadsBack

(* Every definition is one a store starts with or an owner adds.           *)
Known == ToSet(governance.definitions) \subseteq Bundles

LEMMA StaysKnown == IsGovernance(governance) /\ Known /\ [Next]_vars => Known'
<1> SUFFICES ASSUME IsGovernance(governance), Known, [Next]_vars
             PROVE  ToSet(governance'.definitions) \subseteq Bundles
  BY DEF Known
<1>1. CASE governance'.definitions = governance.definitions
  BY <1>1 DEF Known
<1>2. ASSUME Add("definitions") PROVE ToSet(governance'.definitions) \subseteq Bundles
  <2>1. PICK x \in Additions :
            /\ x.kind = "definitions"
            /\ governance' = [governance EXCEPT !.definitions = Append(@, x.value)]
    BY <1>2 DEF Add
  <2>2. governance'.definitions = Append(governance.definitions, x.value)
    BY <2>1 DEF IsGovernance
  <2>3. x.value \in Bundles
    BY <2>1 DEF Bundles
  <2>4. governance.definitions \in Seq(ToSet(governance.definitions))
    BY DEF IsGovernance, IsList
  <2>5. \A i \in DOMAIN Append(governance.definitions, x.value) :
            Append(governance.definitions, x.value)[i] \in ToSet(governance.definitions) \cup {x.value}
    BY <2>4
  <2> QED BY <2>2, <2>3, <2>5 DEF Known, ToSet
<1>3. ASSUME Add("qualifications") \/ Add("catalog") \/ Add("policy") \/ Point
      PROVE  governance'.definitions = governance.definitions
  BY <1>3 DEF Add, Point, IsGovernance
<1>4. ASSUME NEW h \in Hosts,
             Preview(h) \/ FindTarget(h) \/ MissTarget(h) \/ OpenTarget(h) \/ FillTarget(h)
                 \/ Kill(h)
      PROVE  governance' = governance
  BY <1>4 DEF Preview, FindTarget, MissTarget, OpenTarget, FillTarget, Kill
<1>5. Tamper \/ UNCHANGED vars => governance' = governance
  BY DEF Tamper, vars
<1> QED BY <1>1, <1>2, <1>3, <1>4, <1>5 DEF Next

(* A definition that verifies with its resources is sealed: no set of keys *)
(* leads back to itself by dependencies, which the search for a cycle sees *)
(* whatever the order of manifest and dependencies, and any other bundle   *)
(* that verifies under its fingerprint has its contents and projections.   *)
THEOREM Sealed == Spec => []VerifiedIsSealed
<1>1. Init => Known
  BY DEF Init, Known, Bundles
<1>2. IInv /\ Known /\ [Next]_vars => Known'
  BY StaysKnown DEF IInv
<1>3. Known => VerifiedIsSealed
  <2> SUFFICES ASSUME Known, NEW b \in ToSet(governance.definitions), VerifyBundle(b) = {}
               PROVE  /\ ~ LeadsBack(b)
                      /\ \A c \in Bundles :
                             VerifyBundle(c) = {} /\ c.definition.declared = b.definition.declared =>
                                 Contents(b) = Contents(c) /\ Projections(b) = Projections(c)
    BY DEF VerifiedIsSealed
  <2>1. IsBundle(b) /\ \A c \in Bundles : IsBundle(c)
    BY ContractStoreAssumption DEF ContractStoreAssumption, Known
  <2>2. ~ LeadsBack(b)
    BY <2>1, VerifiedHasNoCycle
  <2>3. ASSUME NEW c \in Bundles, VerifyBundle(c) = {},
               c.definition.declared = b.definition.declared
        PROVE  Contents(b) = Contents(c) /\ Projections(b) = Projections(c)
    BY <2>1, <2>3, FingerprintSeals
  <2> QED BY <2>2, <2>3
<1> QED BY <1>1, <1>2, <1>3, Initially, Stepwise, PTL DEF Spec
=============================================================================
