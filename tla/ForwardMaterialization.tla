----------------------- MODULE ForwardMaterialization -----------------------
(***************************************************************************)
(* Materialization 1.1 behind protocol 1.3: a sealed basis of authoring    *)
(* 1.7 documents, read in the order of the request, becomes one normalized *)
(* model 2.4 or is refused whole.                                          *)
(***************************************************************************)
EXTENDS Interpretation

VARIABLES request,   \* the request, fixed
          pc,        \* request, artifacts, done
          todo,      \* the artifacts left, in the request's order
          work,      \* the readings so far and the diagnostics
          result     \* the bounded outcome

vars == <<request, pc, todo, work, result>>

(***************************************************************************)
(* The gate of protocol 1.3 and of the exact contract set.                 *)
(***************************************************************************)
Forward(a) == a.complete /\ a.binding.version = "1.7"

EnvelopeAccepted == request.stated

RequestAccepted == /\ request.provider
                   /\ request.basis
                   /\ request.sealed
                   /\ request.artifacts # <<>>
                   /\ \A a \in ItemsOf(request.artifacts) : Forward(a)

GateOpen == EnvelopeAccepted /\ RequestAccepted /\ request.resolved

(***************************************************************************)
(* One artifact against the schemas the core was built with; a digest      *)
(* stands for itself, so the digest of resource k is k.                    *)
(***************************************************************************)
Embedded == {<<"1.7", s>> : s \in {"adr-common", "types", "physical-base"} \cup Types}

ClosureCodes(a) ==
    LET closure == a.binding.closure
        expected == ExpectedResources("1.7", a.document.type)
    IN  {"source_contract_resource_unqualified" :
            k \in {j \in DOMAIN closure : j \notin Embedded}}
        \cup {"source_contract_resource_digest_mismatch" :
            k \in {j \in DOMAIN closure \cap Embedded : closure[j] # j}}
        \cup {"source_contract_closure_mismatch" :
            c \in {d \in {closure} : d # [e \in expected |-> e]}}

SchemaCodes(a) ==
    LET schema == a.binding.schema
    IN  {"source_contract_schema_mismatch" :
            k \in {schema} \ {<<"1.7", a.document.type>>}}
        \cup {"invalid_source_document" :
            k \in {j \in {schema} \cap Embedded : ~a.document.valid}}
        \cup {"source_contract_schema_digest_mismatch" :
            k \in {j \in {schema} \cap Embedded : a.binding.digest # j}}

ArtifactCodes(a) ==
    IF a.document.type \notin Types THEN {"invalid_source_document"}
    ELSE SchemaCodes(a) \cup ClosureCodes(a)
         \cup {"artifact_contract_mismatch" : v \in {a.document.version} \ {"1.7"}}

(***************************************************************************)
(* The operation.                                                          *)
(***************************************************************************)
NoModel == [entities |-> {}, relationships |-> {}, unresolved |-> <<>>]

Failed(codes) == [outcome |-> "Rejected", codes |-> codes, model |-> NoModel]

Refuse == /\ pc = "request"
          /\ ~GateOpen
          /\ result' = Failed({"request"})
          /\ pc' = "done"
          /\ UNCHANGED <<request, todo, work>>

Begin == /\ pc = "request"
         /\ GateOpen
         /\ todo' = request.artifacts
         /\ work' = [readings |-> <<>>, diags |-> {}]
         /\ pc' = "artifacts"
         /\ UNCHANGED <<request, result>>

ReadArtifact(w, a) ==
    LET reading == InterpretDocument(a.document, a.ref)
    IN  CASE ArtifactCodes(a) # {} -> [w EXCEPT !.diags = @ \cup ArtifactCodes(a)]
          [] ArtifactCodes(a) = {} /\ ~reading.ok ->
                [w EXCEPT !.diags = @ \cup {"architecture_interpretation_failed"}]
          [] OTHER -> [w EXCEPT !.readings = Append(@, reading)]

NextArtifact == /\ pc = "artifacts"
                /\ todo # <<>>
                /\ work' = ReadArtifact(work, Head(todo))
                /\ todo' = Tail(todo)
                /\ UNCHANGED <<request, pc, result>>

Finish(valid) ==
    /\ pc = "artifacts"
    /\ todo = <<>>
    /\ result' =
          IF work.diags # {} THEN Failed(work.diags)
          ELSE IF AssemblyFails(work.readings)
          THEN Failed({"normalized_model_assembly_failed"})
          ELSE IF ~valid THEN Failed({"normalized_model_invalid"})
          ELSE [outcome |-> "Materialized", codes |-> {},
                model |-> Assemble(work.readings)]
    /\ pc' = "done"
    /\ UNCHANGED <<request, todo, work>>

Next == \/ Refuse
        \/ Begin
        \/ NextArtifact
        \/ \E valid \in BOOLEAN : Finish(valid)
=============================================================================
