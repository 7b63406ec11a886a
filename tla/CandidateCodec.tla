-------------------------- MODULE CandidateCodec --------------------------
(***************************************************************************)
(* The canonical bytes of a candidate source: conformance to the selected  *)
(* authoring schema, rendering a value under it, and the strict decoder    *)
(* that reads it back.  Bytes are a sequence of lines; quoting, numbers    *)
(* and padding are left out.                                               *)
(***************************************************************************)
EXTENDS CandidateSource, TLC

CONSTANT Lexical    \* every property name, in lexical order

LOCAL SE == INSTANCE SequencesExt

ConcatAll(ss) == SE!FlattenSeq(ss)

(***************************************************************************)
(* Schema conformance.  The relaxed form drops the patterns and lengths of *)
(* the schema's own texts, not those of the types it refers to.            *)
(***************************************************************************)
TextConforms(v, kind, strict) ==
    /\ v # "bad"
    /\ strict \/ kind # "text" => v \notin {"loose", "conformance", ""}
    /\ kind = "uuid" => v \in Uuids

RECURSIVE SchemaConforms(_, _, _)
OneConforms(value, schema, strict) ==
    Cardinality({k \in DOMAIN schema.variants :
                    SchemaConforms(value, schema.variants[k], strict)}) = 1

ListConforms(value, schema, strict) ==
    value.t = "list" /\ \A x \in ItemsOf(value.items) : SchemaConforms(x, schema.items, strict)

MapConforms(value, schema, strict) ==
    /\ value.t = "map"
    /\ schema.required \subseteq DOMAIN value.f
    /\ \A n \in DOMAIN value.f : SchemaConforms(value.f[n], FieldSchema(schema, n), strict)

SchemaConforms(value, schema, strict) ==
    CASE schema.t = "any" -> TRUE
      [] schema.t = "closed" -> FALSE
      [] schema.t = "oneOf" -> OneConforms(value, schema, strict)
      [] schema.t = "scalar" ->
            value.t = "scalar" /\ TextConforms(value.v, schema.kind, strict)
      [] schema.t = "list" -> ListConforms(value, schema, strict)
      [] OTHER -> MapConforms(value, schema, strict)

(***************************************************************************)
(* Rendering.                                                              *)
(***************************************************************************)
Line(in, dash, key, text) == [in |-> in, dash |-> dash, key |-> key, text |-> text]

Nested(value) == \/ value.t = "map" /\ value.f # <<>>
                 \/ value.t = "list" /\ value.items # <<>>

Accepts(schema, value) == schema.t = "any" \/ schema.t = value.t

Choose(schema, value) ==
    IF schema.t # "oneOf" THEN schema
    ELSE LET fits == {k \in DOMAIN schema.variants : Accepts(schema.variants[k], value)}
         IN  IF Cardinality(fits) = 1 THEN schema.variants[CHOOSE k \in fits : TRUE]
             ELSE Closed

(* The declared properties in the order of the schema, then the others.    *)
Layout(schema, names) ==
    SelectSeq([k \in DOMAIN schema.fields |-> schema.fields[k][1]], LAMBDA n : n \in names)
        \o SelectSeq(Lexical, LAMBDA n : n \in names \ NamesIn(schema))

InlineText(value) ==
    CASE value.t = "scalar" -> value.v [] value.t = "map" -> "{}" [] OTHER -> "[]"

(* What follows a key or a dash: on its line, or indented below it.        *)
Under(head, value, inner) ==
    CASE inner = NoBytes -> NoBytes
      [] inner # NoBytes /\ Nested(value) -> <<head>> \o inner
      [] OTHER -> <<[head EXCEPT !.text = InlineText(value)]>>

RECURSIVE RenderNode(_, _, _)
RenderMap(value, schema, in) ==
    LET names == Layout(schema, DOMAIN value.f)
        Entry(n) == Under(Line(in, FALSE, n, NONE), value.f[n],
                          RenderNode(value.f[n], FieldSchema(schema, n), in + 1))
        entries == [k \in DOMAIN names |-> Entry(names[k])]
    IN  IF NoBytes \in ItemsOf(entries)
           \/ \E n \in DOMAIN value.f : FieldSchema(schema, n) = Closed
        THEN NoBytes ELSE ConcatAll(entries)

RenderList(value, schema, in) ==
    LET Item(x) == Under(Line(in, TRUE, NONE, NONE), x,
                         RenderNode(x, schema.items, in + 1))
        items == [k \in DOMAIN value.items |-> Item(value.items[k])]
    IN  IF NoBytes \in ItemsOf(items) THEN NoBytes ELSE ConcatAll(items)

(* Under an open schema there is nothing to order a nested value by.       *)
RenderNode(value, schema, in) ==
    LET chosen == Choose(schema, value)
    IN  IF \/ Nested(value) /\ chosen.t # value.t
           \/ schema.t = "oneOf" /\ chosen = Closed
        THEN NoBytes
        ELSE CASE ~Nested(value) -> <<Line(in, FALSE, NONE, InlineText(value))>>
               [] value.t = "map" /\ Nested(value) -> RenderMap(value, chosen, in)
               [] OTHER -> RenderList(value, chosen, in)

RenderSource(value, schema) == RenderNode(value, schema, 0)

(***************************************************************************)
(* Decoding.                                                               *)
(***************************************************************************)
Read(value, at) == [ok |-> TRUE, value |-> value, at |-> at]

ScalarOf(text) ==
    CASE text = "{}" -> Map(<<>>) [] text = "[]" -> List(<<>>) [] OTHER -> Scalar(text)

RECURSIVE DecodeNode(_, _, _)
NestedValue(ls, at, in) ==
    IF at > Len(ls) \/ ls[at].in # in + 1 THEN Fault ELSE DecodeNode(ls, at, in + 1)

ValueOf(ls, at, in) ==
    IF ls[at].text = NONE THEN NestedValue(ls, at + 1, in)
    ELSE Read(ScalarOf(ls[at].text), at + 1)

RECURSIVE DecodeMap(_, _, _, _)
DecodeMap(ls, at, in, read) ==
    IF at > Len(ls) \/ ls[at].in # in \/ ls[at].dash THEN Read(Map(read), at)
    ELSE LET value == ValueOf(ls, at, in)
         IN  IF ls[at].key = NONE \/ ls[at].key \in DOMAIN read \/ ~value.ok THEN Fault
             ELSE DecodeMap(ls, value.at, in, read @@ (ls[at].key :> value.value))

RECURSIVE DecodeList(_, _, _, _)
DecodeList(ls, at, in, read) ==
    IF at > Len(ls) \/ ls[at].in # in \/ ~ls[at].dash THEN Read(List(read), at)
    ELSE LET value == ValueOf(ls, at, in)
         IN  IF value.ok THEN DecodeList(ls, value.at, in, Append(read, value.value))
             ELSE Fault

DecodeNode(ls, at, in) ==
    CASE ls[at].dash -> DecodeList(ls, at, in, <<>>)
      [] ~ls[at].dash /\ ls[at].key # NONE -> DecodeMap(ls, at, in, <<>>)
      [] OTHER -> Read(ScalarOf(ls[at].text), at + 1)

DecodeCanonical(bytes) ==
    LET read == IF bytes = NoBytes THEN Fault ELSE DecodeNode(bytes, 1, 0)
    IN  IF read.ok /\ read.at = Len(bytes) + 1 THEN read ELSE Fault
=============================================================================
