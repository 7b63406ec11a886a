------------------------------ MODULE Promotion ------------------------------
(***************************************************************************)
(* The Design Journal promotion provider, adr_kit/promotion/service.py:    *)
(* prepare_promotion, the human lock, and apply_promotion with commit set. *)
(*                                                                         *)
(* A contract names mutations of governed files.  prepare computes the     *)
(* post-image of each target from the working tree, binds it by            *)
(* fingerprint and leaves the bytes and the resolved paths in a store that *)
(* all contracts share.  A human locks the fingerprint of the prepared     *)
(* contract.  apply checks the git baseline and the lock, commits all      *)
(* targets through AuthorityTransaction, appends execution evidence to the *)
(* contract and regenerates the derived artifacts.  Each command is a      *)
(* process of its own; any of them may die between two steps, and a        *)
(* developer edits, commits and restores the same working tree.            *)
(***************************************************************************)
EXTENDS Naturals, Sequences

CONSTANTS
    Path,            \* governed files
    Contract,        \* promotion contracts
    MutationId,      \* mutation identifiers, local to a contract by convention
    Mutations,       \* Mutations[c]: the list of mutations of contract c
    Original,        \* versions of files that no promotion wrote
    Edited,          \* what a developer leaves at a path: versions, or Absent
    Absent,          \* no file
    None,            \* no value: no lock, no payload, no resolved path
    Serial,          \* whether commands and edits never overlap
    MaxCommits       \* bound: git commits in a behaviour

Mutation == [id : MutationId, target : Path, operation : {"create", "amend"}]

(* What stands in a file: the version, and the version it was made from.    *)
(* A post-image is identified by its contract and its place in it.          *)
Image   == Contract \X Nat
Version == Original \cup {Absent} \cup Image
File    == [is : Version, from : Version]
NoFile  == [is |-> Absent, from |-> Absent]

ASSUME MutationsAssumption == Mutations \in [Contract -> Seq(Mutation)]
ASSUME EditedAssumption == Edited \subseteq Original \cup {Absent}
ASSUME SerialAssumption == Serial \in BOOLEAN /\ MaxCommits \in Nat

VARIABLES
    authority,   \* the governed files of the working tree
    head,        \* the same files in git's HEAD
    payloads,    \* <store>/payloads/<mutation id>.bin
    resolved,    \* <store>/resolved-targets.json
    pc,          \* the contract documents
    proc,        \* the command running for each contract, and its memory
    result,      \* the contract and semantic state a command has just reported
    commits      \* git commits made so far

vars == <<authority, head, payloads, resolved, pc, proc, result, commits>>

(* locked_intent_fingerprint: bindings and baseline, never the evidence or  *)
(* the resolved paths.                                                      *)
Fingerprint(c, doc) == <<c, doc.bindings, doc.baseline>>

Idle == [at |-> "idle", loaded |-> None, writes |-> << >>, n |-> 0]

Quiet == \A c \in Contract : proc[c].at = "idle"

(* A command is started, or the tree is edited, while others run only if    *)
(* the instance is not serial.                                              *)
MayStart == Serial => Quiet

(* Mutant: git status is not asked whether the working tree is dirty. *)
EquivalentIfDirty(doc) == head = doc.baseline

(* path_scoped_baseline_equivalent: clean working tree, HEAD's tree is the  *)
(* tree of the baseline commit.                                             *)
Equivalent(doc) == authority = head /\ head = doc.baseline

(* resolve_mutation_target: a create is for a path without a file, any       *)
(* other operation for a file; the contrary raises.                         *)
Resolves(m) == (m.operation = "create") <=> (authority[m.target] = NoFile)

(* The path a mutation is applied to: resolved-targets.json first, else the *)
(* target is resolved again.                                                *)
HasPath(m) == resolved[m.id] # None \/ Resolves(m)
PathOf(m)  == IF resolved[m.id] # None THEN resolved[m.id] ELSE m.target

(* _build_post_images, for one mutation; amending twice changes nothing.    *)
PostImage(c, i, file) ==
    IF file.is = <<c, i>> THEN file ELSE [is |-> <<c, i>>, from |-> file.is]

(* Mutant: the payload is compared, the target is not. *)
InStore(c, doc, i) ==
    /\ doc.bindings[i] # None
    /\ payloads[Mutations[c][i].id] = doc.bindings[i]

(* _post_images_match_locked, which a target that no longer resolves makes   *)
(* raise, unless an earlier mutation already decided.                       *)
InPlace(c, doc, i) ==
    LET m == Mutations[c][i] IN
    /\ doc.bindings[i] # None
    /\ payloads[m.id] = doc.bindings[i]
    /\ HasPath(m) /\ authority[PathOf(m)] = doc.bindings[i]

PostImagesMatch(c, doc) == \A i \in DOMAIN Mutations[c] : InPlace(c, doc, i)

MatchRaises(c, doc) ==
    \E i \in DOMAIN Mutations[c] :
        /\ doc.bindings[i] # None /\ payloads[Mutations[c][i].id] # None
        /\ ~HasPath(Mutations[c][i])
        /\ \A j \in 1..(i - 1) : InPlace(c, doc, j)

(* _has_success_evidence *)
HasEvidence(c, doc) == Fingerprint(c, doc) \in doc.evidence

(* mechanical_ready: every mutation bound, no blocker left. *)
Ready(doc) == ~doc.blocked /\ \A i \in DOMAIN doc.bindings : doc.bindings[i] # None

(* human_lock_valid *)
LockValid(c, doc) == doc.lock = Fingerprint(c, doc) /\ Ready(doc)

(* The files after the first n writes of a list; the last write to a path    *)
(* stands.                                                                  *)
LastTo(writes, n, p, i) ==
    /\ writes[i].path = p
    /\ \A j \in (i + 1)..n : writes[j].path # p

Written(files, writes, n) ==
    [p \in Path |->
        IF \E i \in 1..n : LastTo(writes, n, p, i)
        THEN writes[CHOOSE i \in 1..n : LastTo(writes, n, p, i)].content
        ELSE files[p]]

(* A new contract on the commit whose tree is given. *)
Draft(c, tree) ==
    [bindings |-> [i \in DOMAIN Mutations[c] |-> None], blocked |-> FALSE,
     baseline |-> tree, lock |-> None, evidence |-> {}]

-----------------------------------------------------------------------------
Init ==
    /\ authority \in [Path -> {[is |-> v, from |-> v] : v \in Original} \cup {NoFile}]
    /\ \A c \in Contract : \A i \in DOMAIN Mutations[c] : Resolves(Mutations[c][i])
    /\ head = authority
    /\ payloads = [m \in MutationId |-> None]
    /\ resolved = [m \in MutationId |-> None]
    /\ pc = [c \in Contract |-> Draft(c, authority)]
    /\ proc = [c \in Contract |-> Idle]
    /\ result = None
    /\ commits = 0

Finish(c, state) ==
    /\ proc' = [proc EXCEPT ![c] = Idle]
    /\ result' = <<c, state>>

-----------------------------------------------------------------------------
(* prepare_promotion.  The images are computed before anything is written.  *)
PrepareStart(c) ==
    /\ proc[c].at = "idle" /\ MayStart
    /\ \A i \in DOMAIN Mutations[c] : Resolves(Mutations[c][i])
    /\ proc' = [proc EXCEPT ![c] =
          [at |-> "binding", loaded |-> pc[c], n |-> 0,
           writes |-> [i \in DOMAIN Mutations[c] |->
              [path |-> Mutations[c][i].target,
               content |-> PostImage(c, i, authority[Mutations[c][i].target]),
               operation |-> Mutations[c][i].operation]]]]
    /\ result' = None
    /\ UNCHANGED <<authority, head, payloads, resolved, pc, commits>>

(* One payloads/<id>.bin at a time ... *)
PrepareBind(c) ==
    /\ proc[c].at = "binding" /\ proc[c].n < Len(proc[c].writes)
    /\ LET i == proc[c].n + 1 IN
         payloads' = [payloads EXCEPT ![Mutations[c][i].id] = proc[c].writes[i].content]
    /\ proc' = [proc EXCEPT ![c].n = @ + 1]
    /\ result' = None
    /\ UNCHANGED <<authority, head, resolved, pc, commits>>

(* ... then resolved-targets.json, which replaces that of any contract. *)
PrepareResolve(c) ==
    /\ proc[c].at = "binding" /\ proc[c].n = Len(proc[c].writes)
    /\ resolved' = [id \in MutationId |->
          IF \E i \in DOMAIN Mutations[c] : Mutations[c][i].id = id
          THEN (CHOOSE m \in {Mutations[c][i] : i \in DOMAIN Mutations[c]} : m.id = id).target
          ELSE None]
    /\ proc' = [proc EXCEPT ![c].at = "publishing"]
    /\ result' = None
    /\ UNCHANGED <<authority, head, payloads, pc, commits>>

(* The prepared contract: what was loaded, its lock and evidence included,  *)
(* with the new bindings, and blocked if a candidate is invalid or the      *)
(* baseline does not match now.  A blocker left by an earlier prepare stays. *)
PreparePublish(c) ==
    /\ proc[c].at = "publishing"
    /\ \E valid \in BOOLEAN :
         pc' = [pc EXCEPT ![c] =
            [proc[c].loaded EXCEPT
               !.bindings = [i \in DOMAIN proc[c].writes |-> proc[c].writes[i].content],
               !.blocked = @ \/ ~valid \/ ~Equivalent(proc[c].loaded)]]
    /\ Finish(c, "PREPARED")
    /\ UNCHANGED <<authority, head, payloads, resolved, commits>>

(* The human lock on the exact prepared contract. *)
Lock(c) ==
    /\ proc[c].at = "idle" /\ Ready(pc[c])
    /\ pc' = [pc EXCEPT ![c].lock = Fingerprint(c, pc[c])]
    /\ result' = None
    /\ UNCHANGED <<authority, head, payloads, resolved, proc, commits>>

(* A new convergence cycle, on the commit that HEAD names now. *)
Redraft(c) ==
    /\ proc[c].at = "idle"
    /\ pc' = [pc EXCEPT ![c] = Draft(c, head)]
    /\ result' = None
    /\ UNCHANGED <<authority, head, payloads, resolved, proc, commits>>

-----------------------------------------------------------------------------
(* apply_promotion with commit set: the checks, in the order of the code.   *)
ApplyBaselineMismatch(c) ==
    /\ proc[c].at = "idle" /\ MayStart
    /\ ~Equivalent(pc[c])
    /\ Finish(c, "BASELINE_MISMATCH")
    /\ UNCHANGED <<authority, head, payloads, resolved, pc, commits>>

ApplyAlreadyComplete(c) ==
    /\ proc[c].at = "idle" /\ MayStart
    /\ Equivalent(pc[c]) /\ PostImagesMatch(c, pc[c]) /\ HasEvidence(c, pc[c])
    /\ Finish(c, "COMPLETE")
    /\ UNCHANGED <<authority, head, payloads, resolved, pc, commits>>

ApplyRecoverEvidence(c) ==
    /\ proc[c].at = "idle" /\ MayStart
    /\ Equivalent(pc[c]) /\ PostImagesMatch(c, pc[c]) /\ ~HasEvidence(c, pc[c])
    /\ proc' = [proc EXCEPT ![c] = [Idle EXCEPT !.at = "evidence", !.loaded = pc[c]]]
    /\ result' = None
    /\ UNCHANGED <<authority, head, payloads, resolved, pc, commits>>

ApplyTargetUnresolved(c) ==
    /\ proc[c].at = "idle" /\ MayStart
    /\ Equivalent(pc[c]) /\ MatchRaises(c, pc[c])
    /\ Finish(c, "ERROR")
    /\ UNCHANGED <<authority, head, payloads, resolved, pc, commits>>

(* The post-images are not in place, and finding that out raised nothing. *)
Unapplied(c, doc) == ~PostImagesMatch(c, doc) /\ ~MatchRaises(c, doc)

ApplyNotLocked(c) ==
    /\ proc[c].at = "idle" /\ MayStart
    /\ Equivalent(pc[c]) /\ Unapplied(c, pc[c]) /\ ~LockValid(c, pc[c])
    /\ Finish(c, "PRE_COMMIT_FAILURE")
    /\ UNCHANGED <<authority, head, payloads, resolved, pc, commits>>

ApplyStart(c) ==
    /\ proc[c].at = "idle" /\ MayStart
    /\ Equivalent(pc[c]) /\ Unapplied(c, pc[c]) /\ LockValid(c, pc[c])
    /\ proc' = [proc EXCEPT ![c] = [Idle EXCEPT !.at = "reading", !.loaded = pc[c]]]
    /\ result' = None
    /\ UNCHANGED <<authority, head, payloads, resolved, pc, commits>>

(* Mutant: the payload that is read is not fingerprinted again. *)
WritesUnchecked(c, doc) == \A i \in DOMAIN Mutations[c] : HasPath(Mutations[c][i])

(* Every payload is still what the contract binds, every target has a path. *)
WritesReady(c, doc) ==
    \A i \in DOMAIN Mutations[c] :
        payloads[Mutations[c][i].id] = doc.bindings[i] /\ HasPath(Mutations[c][i])

ApplyRead(c) ==
    /\ proc[c].at = "reading" /\ WritesReady(c, proc[c].loaded)
    /\ proc' = [proc EXCEPT ![c].at = "committing", ![c].writes =
          [i \in DOMAIN Mutations[c] |->
              [path |-> PathOf(Mutations[c][i]), content |-> payloads[Mutations[c][i].id],
               operation |-> Mutations[c][i].operation]]]
    /\ result' = None
    /\ UNCHANGED <<authority, head, payloads, resolved, pc, commits>>

ApplyReadFails(c) ==
    /\ proc[c].at = "reading" /\ ~WritesReady(c, proc[c].loaded)
    /\ Finish(c, "PRE_COMMIT_FAILURE")
    /\ UNCHANGED <<authority, head, payloads, resolved, pc, commits>>

(* commit_all_or_none, as AtomicCommit!Apply: AuthorityTransaction shows    *)
(* what the protocol does inside this step.                                 *)
ApplyCommit(c) ==
    /\ proc[c].at = "committing"
    /\ \A i \in DOMAIN proc[c].writes :
          proc[c].writes[i].operation = "create" => authority[proc[c].writes[i].path] = NoFile
    /\ authority' = Written(authority, proc[c].writes, Len(proc[c].writes))
    /\ proc' = [proc EXCEPT ![c].at = "evidence"]
    /\ result' = None
    /\ UNCHANGED <<head, payloads, resolved, pc, commits>>

(* The create-target check, the staged validation or a fault: rolled back.  *)
ApplyCommitFails(c) ==
    /\ proc[c].at = "committing"
    /\ Finish(c, "PRE_COMMIT_FAILURE")
    /\ UNCHANGED <<authority, head, payloads, resolved, pc, commits>>

(* The process is killed after n of the replacements. *)
ApplyCommitDies(c) ==
    /\ proc[c].at = "committing"
    /\ \A i \in DOMAIN proc[c].writes :
          proc[c].writes[i].operation = "create" => authority[proc[c].writes[i].path] = NoFile
    /\ \E n \in 1..Len(proc[c].writes) :
          /\ authority' = Written(authority, proc[c].writes, n)
    /\ proc' = [proc EXCEPT ![c] = Idle]
    /\ result' = None
    /\ UNCHANGED <<head, payloads, resolved, pc, commits>>

(* _append_execution_evidence reads the contract document again. *)
AppendEvidence(c) ==
    /\ proc[c].at = "evidence"
    /\ pc' = [pc EXCEPT ![c].evidence = @ \cup {Fingerprint(c, proc[c].loaded)}]
    /\ proc' = [proc EXCEPT ![c].at = "regenerating"]
    /\ result' = None
    /\ UNCHANGED <<authority, head, payloads, resolved, commits>>

AppendEvidenceFails(c) ==
    /\ proc[c].at = "evidence"
    /\ Finish(c, "EVIDENCE_PENDING")
    /\ UNCHANGED <<authority, head, payloads, resolved, pc, commits>>

(* regenerate_and_validate; the derived artifacts are not governed intent.  *)
Regenerate(c) ==
    /\ proc[c].at = "regenerating"
    /\ \E state \in {"COMPLETE", "REGEN_PENDING", "VALIDATION_FAILED"} : Finish(c, state)
    /\ UNCHANGED <<authority, head, payloads, resolved, pc, commits>>

(* A command is killed between two of its steps. *)
Die(c) ==
    /\ proc[c].at # "idle"
    /\ proc' = [proc EXCEPT ![c] = Idle]
    /\ result' = None
    /\ UNCHANGED <<authority, head, payloads, resolved, pc, commits>>

-----------------------------------------------------------------------------
(* The developer and git. *)
GitCommit ==
    /\ MayStart /\ head # authority /\ commits < MaxCommits
    /\ head' = authority
    /\ commits' = commits + 1
    /\ result' = None
    /\ UNCHANGED <<authority, payloads, resolved, pc, proc>>

GitRestore ==
    /\ MayStart /\ head # authority
    /\ authority' = head
    /\ result' = None
    /\ UNCHANGED <<head, payloads, resolved, pc, proc, commits>>

(* A file is written or deleted. *)
Edit(p) ==
    /\ MayStart
    /\ \E v \in Edited : authority' = [authority EXCEPT ![p] = [is |-> v, from |-> v]]
    /\ result' = None
    /\ UNCHANGED <<head, payloads, resolved, pc, proc, commits>>

-----------------------------------------------------------------------------
Command(c) ==
    \/ PrepareStart(c) \/ PrepareBind(c) \/ PrepareResolve(c) \/ PreparePublish(c)
    \/ ApplyBaselineMismatch(c) \/ ApplyAlreadyComplete(c) \/ ApplyRecoverEvidence(c)
    \/ ApplyTargetUnresolved(c) \/ ApplyNotLocked(c) \/ ApplyStart(c) \/ ApplyRead(c)
    \/ ApplyReadFails(c)
    \/ ApplyCommit(c) \/ ApplyCommitFails(c) \/ ApplyCommitDies(c)
    \/ AppendEvidence(c) \/ AppendEvidenceFails(c) \/ Regenerate(c) \/ Die(c)

Next ==
    \/ \E c \in Contract : Command(c) \/ Lock(c) \/ Redraft(c)
    \/ GitCommit \/ GitRestore \/ \E p \in Path : Edit(p)

Spec == Init /\ [][Next]_vars

-----------------------------------------------------------------------------
Tree     == [Path -> File]
Bindings == Seq(File \cup {None})
Intent   == Contract \X Bindings \X Tree
Doc      == [bindings : Bindings, blocked : BOOLEAN, baseline : Tree,
             lock : Intent \cup {None}, evidence : SUBSET Intent]

Planned == [path : Path, content : File, operation : {"create", "amend"}]
Steps   == {"idle", "binding", "publishing", "reading", "committing", "evidence",
            "regenerating"}
Process == [at : Steps, loaded : Doc \cup {None}, writes : Seq(Planned), n : Nat]

Results == {"ERROR", "PREPARED", "BASELINE_MISMATCH", "PRE_COMMIT_FAILURE",
            "EVIDENCE_PENDING", "REGEN_PENDING", "VALIDATION_FAILED", "COMPLETE"}

(* The variables range over what the code can store in them. *)
TypeOK ==
    /\ authority \in Tree /\ head \in Tree
    /\ payloads \in [MutationId -> File \cup {None}]
    /\ resolved \in [MutationId -> Path \cup {None}]
    /\ pc \in [Contract -> Doc]
    /\ proc \in [Contract -> Process]
    /\ result \in {None} \cup (Contract \X Results)
    /\ commits \in 0..MaxCommits

(* The bytes a commit puts in the authority are those a human locked, read  *)
(* from a store that any prepare may be rewriting at the same time.         *)
CommitsLockedBytes ==
    [][\A c \in Contract : ApplyCommit(c) =>
          LET doc == proc[c].loaded IN
          /\ doc.lock = Fingerprint(c, doc)
          /\ \A i \in DOMAIN Mutations[c] : proc[c].writes[i].content = doc.bindings[i]
      ]_vars

(* "explicit human lock on the exact prepared PC": a commit writes each     *)
(* locked payload to the target that its mutation names.                    *)
AppliesLockedTargets ==
    [][\A c \in Contract : ApplyCommit(c) =>
          \A i \in DOMAIN Mutations[c] : proc[c].writes[i].path = Mutations[c][i].target
      ]_vars

(* A commit replaces exactly the version each post-image was made from: no   *)
(* edit, and no other promotion, between prepare and commit is overwritten. *)
NoLostWork ==
    [][\A c \in Contract : ApplyCommit(c) =>
          \A i \in DOMAIN proc[c].writes :
              LET w == proc[c].writes[i] IN
              authority[w.path] = w.content \/ authority[w.path].is = w.content.from
      ]_vars

(* Success evidence is appended only while every locked post-image stands at *)
(* its target, on the path through the commit and on that which recovers     *)
(* missing evidence.                                                        *)
EvidenceIsTrue ==
    [][\A c \in Contract : AppendEvidence(c) =>
          \A i \in DOMAIN Mutations[c] :
              authority[Mutations[c][i].target] = proc[c].loaded.bindings[i]
      ]_vars
=============================================================================
