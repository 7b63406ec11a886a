---------------------------- MODULE SourceBasis ----------------------------
(***************************************************************************)
(* The sealed source basis that both materialization operations read: the  *)
(* request's artifacts, each an exact host-parsed ADR document bound to an *)
(* authoring contract.  A document is reduced to what the operations tell  *)
(* apart: the identities it declares, in the order the code declares them, *)
(* and the references it makes.  Identities outside Canonical are legacy   *)
(* ones.  The schema validator's verdict on a document is an input.        *)
(***************************************************************************)
EXTENDS Naturals, Sequences, FiniteSets

CONSTANTS Canonical,   \* the UUIDv7 identities
          NONE         \* no identity

SE == INSTANCE SequencesExt

ConcatAll(ss) == SE!FlattenSeq(ss)

ItemsOf(s) == {s[k] : k \in DOMAIN s}

Types == {"logical", "physical-system", "physical-component"}

(* The authoring resources a document of a type must bind, exactly.        *)
ExpectedResources(version, type) ==
    {<<version, "adr-common">>, <<version, "types">>, <<version, type>>}
        \cup IF type = "logical" THEN {} ELSE {<<version, "physical-base">>}

(* What a document declares before and after its own relationships are     *)
(* read: the embedded system, the component specifications with their      *)
(* interfaces, then the sections, extension entities and propositions.     *)
PartsBefore(doc) == doc.system \o doc.specifications

PartsAfter(doc) == doc.children \o doc.propositions

Root(doc) == [id |-> doc.id, kind |-> "root", state |-> "exact"]

Declarations(doc) == <<Root(doc)>> \o PartsBefore(doc) \o PartsAfter(doc)

(* A part carries exactly the fields its contract demands, or it lacks its *)
(* qualification, contradicts it, or is of a retired kind.                 *)
Ok(x) == x.state = "exact"
=============================================================================
