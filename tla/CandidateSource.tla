-------------------------- MODULE CandidateSource --------------------------
(***************************************************************************)
(* Candidate sources: the values and the schemas they are made of, and the *)
(* sealing of their canonical bytes.  How a value conforms to a schema,    *)
(* renders to bytes and is read back are parameters, which CandidateCodec  *)
(* gives as the code computes them; a digest is the bytes themselves.      *)
(***************************************************************************)
EXTENDS Naturals, Sequences, FiniteSets

CONSTANTS NONE,      \* no value
          Uuids,     \* the canonical identities
          Conforms(_, _, _),  \* value, schema, strictly
          Render(_, _),       \* value, schema: the bytes, or NoBytes
          Decode(_)           \* bytes: the value, or Fault

ASSUME NoneAssumption == NONE \notin Uuids

ItemsOf(s) == {s[k] : k \in DOMAIN s}

(* The fields of f, and those of g that f does not have.                   *)
f ++ g == [n \in DOMAIN f \cup DOMAIN g |-> IF n \in DOMAIN f THEN f[n] ELSE g[n]]

(* JSON values; the texts a schema tells apart are "loose" (only a pattern *)
(* or a length is broken), "bad" (the wrong type), identities and others   *)
(* ("good", and "explicit", the purpose that a component gets).            *)
Scalar(v) == [t |-> "scalar", v |-> v]

Map(f) == [t |-> "map", f |-> f]

List(items) == [t |-> "list", items |-> items]

(* Schemas, with their references followed.                                *)
Leaf(kind) == [t |-> "scalar", kind |-> kind]

Struct(fields, required, extra) ==
    [t |-> "map", fields |-> fields, required |-> required, extra |-> extra]

ArrayOf(items) == [t |-> "list", items |-> items]

OneOf(variants) == [t |-> "oneOf", variants |-> variants]

Closed == [t |-> "closed"]

Open == [t |-> "any"]

NamesIn(schema) == {p[1] : p \in ItemsOf(schema.fields)}

FieldSchema(schema, name) ==
    IF schema.t # "map" THEN Closed
    ELSE IF name \in NamesIn(schema)
    THEN (CHOOSE p \in ItemsOf(schema.fields) : p[1] = name)[2]
    ELSE schema.extra

NoBytes == <<>>

Fault == [ok |-> FALSE, value |-> NONE, at |-> 0]

(***************************************************************************)
(* Sealing one artifact, and reading a sealed artifact back.               *)
(***************************************************************************)
SealArtifact(key, type, schema, source) ==
    LET bytes == Render(source, schema)
    IN  [ok |-> bytes # NoBytes, key |-> key, type |-> type, schema |-> schema,
         bytes |-> bytes, digest |-> bytes]

(* A mutant: the decoded source is not validated.                          *)
DecodeUnvalidated(artifact) == Decode(artifact.bytes)

DecodeAndValidate(artifact) ==
    LET read == Decode(artifact.bytes)
    IN  IF /\ artifact.digest = artifact.bytes
           /\ read.ok
           /\ Render(read.value, artifact.schema) = artifact.bytes
           /\ Conforms(read.value, artifact.schema, TRUE)
        THEN read ELSE Fault

(***************************************************************************)
(* Sealing the basis: something to seal, one artifact per source.          *)
(***************************************************************************)
SealsBasisAnyway(artifacts) == artifacts # <<>>

SealsBasis(artifacts) ==
    /\ artifacts # <<>>
    /\ \A p, q \in DOMAIN artifacts : artifacts[p].key = artifacts[q].key => p = q
    /\ \A a \in ItemsOf(artifacts) : a.digest = a.bytes
=============================================================================
