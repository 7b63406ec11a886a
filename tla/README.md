# A verification project for ADR Architecture Kit

ADR Architecture Kit (`adr_kit`) keeps architecture decision records (ADRs) as
YAML files, compiles them to derived artifacts, and changes the governed files
through two controlled paths: the promotion provider and the identity migrator.
A core in Rust holds the rules that hosts in Python and Node share: semantic
contracts, the construction of authoring documents and the materialization of
an architecture from them.
This directory holds TLA+ specifications of that program, TLC configurations
that check them on small instances, and proofs that TLAPS checks for every
value of the constants. Paths such as `src/src/adr_kit/...` start at the root
of the source tree, `src/`.

## 1. Inventory

| component | code | state it keeps | operations | interacts with |
|---|---|---|---|---|
| Authority transaction | `integrity/transaction.py` | governed files, one journal directory per transaction (`state`, `manifest.json`, `backups/`, `staging/`) | `commit_all_or_none`, `recover_interrupted_commit` | called by promotion and by the identity migrator |
| Promotion provider | `promotion/service.py`, `ste_contract.py`, `baseline.py`, `targets.py`, `regeneration.py` | contract documents, the provider store (`payloads/<id>.bin`, `resolved-targets.json`) | `prepare_promotion`, `check_promotion`, `apply_promotion` | git, a human who locks, the transaction, the compiler |
| Promotion candidates, allocation | `promotion/candidates.py`, `allocation.py`, `identity_v13.py` | none | candidate construction, ID allocation for new documents | repository |
| Identity v1.3 migrator | `migrators/identity_v13.py` | a migration map (plan, then sealed), governed files | preflight, plan, seal, verify, apply, check, recover | the transaction |
| Architecture repository | `repository/architecture_repository.py` and neighbours | loaded models, alias indexes, high-water file | load, reload, lookups, `next_id` | file system, compiler |
| Compiler driver | `compiler/driver.py`, `cli/main.py` | the derived artifacts on disk, and their timestamps | compile, check, the `generate-*` commands, recursive compile | passes, backends, the governance gate |
| Compiler passes and backends | `compiler/pipeline.py`, `compiler/passes/*`, `compiler/backend/*`, `registry_bundle.py` | the state of one pipeline | eight passes, validation, registries, pages | driver |
| Integrity validation | `integrity/core.py`, `validation.py` | none | source and rendered hashes, the verdict on an artifact | driver, provider |
| Semantic contracts | `src/core/src/semantic_contract.rs`, `semantic_contract_set.rs`, `semantic_contract/__init__.py` | immutable set artifacts beside records that people edit | closure, fingerprint, qualification, assembly, current and exact resolution | semantic core, materialization |
| Semantic core protocol | `src/core/src/lib.rs`, `core/semantic_core.py` | a loaded artifact | requests of protocols 1.0 to 1.3 | Python and Node hosts |
| Authoring construction | `authoring_construction.rs`, `authoring_construction_orchestration.rs`, `candidate_source.rs`, `schema_validation.rs` (in `src/core/src`) | the counter of the identity minter | validate, construct | semantic core |
| Materialization and interpretation | `materialization.rs`, `successor_materialization.rs`, `architecture_interpretation.rs` (in `src/core/src`) | none: functions of a sealed basis | materialize 1.0 and 1.1 | contracts |
| Linkage, attribution | `linkage.rs`, `attribution.rs`, `architecture.rs` (in `src/core/src`) | none | resolve references of code and documents | semantic core |
| Other migrators | `migrators/topology_identity.py`, `canonical_id_normalizer.py`, `markdown_to_yaml.py` | governed files | multi-file rewrites without a journal | file system |
| Parsing, models, validators, scope | `parser/`, `models/`, `validators/`, `scope/` | none | schema rules | all |
| Generators, CLI, API, Node package | `generators/`, `cli/`, `api/`, `src/packages/node` | a cache of the core (Node) | rendering, argument handling | all |

What is hard, and what makes each part correct, is the list `hazards` in
`PROJECT.json`, each entry at its line. In short:

* **Transaction.** Kills and exceptions between any two file operations, and
  processes that share the tree without a lock. Correct when a transaction is
  all or none, when every mixed or torn authority can be repaired from a
  journal, and when repair reverts nothing that was committed since.
* **Promotion.** Long times between prepare, lock and apply; a store that every
  contract shares; evidence written after the commit. Correct when only locked
  bytes go to the locked targets, when no work is overwritten, and when evidence
  says what is in the tree and can be completed after a failure.
* **Identity allocation and migration.** Identities may never be given twice,
  across processes, kills, retries and deleted files.
* **Compiler.** Artifacts are written in place, one after another, and a later
  compile reads their timestamps back. Correct when a check accepts only one
  whole build, when what the validator calls valid is current in all that its
  hash covers, and when compiling again repairs whatever an interrupted or overlapping run left.
* **Passes.** A relation is authored by one ADR and its inverse belongs to
  another, in files of any order. Correct when every reference is a relation or
  an unresolved record and when the published registries agree with each other.
* **Contracts.** An exact identity must keep its meaning while people append
  records, move the pointer and damage files, and hosts write without a lock.
* **Construction and materialization.** Long sequences of checks that must let
  nothing through: the result is whole or it is a refusal, it rests on the sealed
  basis, and it does not depend on the order of the request.
* **Repository.** A cache over files that other commands change.

## 2. Modules

| module | models | checked with |
|---|---|---|
| `AtomicCommit` | the promise of `commit_all_or_none`: whole write lists at once | refinement target |
| `AuthorityTransaction` | every step, fault and kill of the transaction and of recovery | `MCAuthorityTransaction` |
| `AuthorityTransactionProofs` | theorems of the above | TLAPS |
| `Promotion` | prepare, lock, apply, evidence, git and the developer | `MCPromotion` |
| `PromotionProofs` | theorems of the above | TLAPS |
| `IdAllocation` | `next_id`, the high-water file, processes that overlap and die | `MCIdAllocation` |
| `IdentityMigration` | plan, seal, apply, check and recover of the v1.3 identity migration | `MCIdentityMigration` |
| `IdentityProofs` | theorems of `IdAllocation` and `IdentityMigration` | TLAPS |
| `Compiler` | command lines that compile, write and check one scope, the validator's verdict, edits and kills | `MCCompiler` |
| `CompilerProofs` | theorems of the above | TLAPS |
| `CompilePasses` | the frontend pipeline, one action per pass, and the registry bundle | `MCCompilePasses` |
| `CompilePassesProofs` | theorems of the above | TLAPS |
| `SemanticContract` | definitions, fingerprints, resource closures | `MCContractStore` |
| `ContractSet` (extends it) | profiles, qualification, assembly, corpora, current and exact resolution | `MCContractStore` |
| `ContractStore` (extends it) | the hosts that write set artifacts, and the owners of the records | `MCContractStore` |
| `ContractStoreProofs` | theorems of the above | TLAPS |
| `CandidateSource` | values and schemas of candidates, their sealing, over a codec that is a parameter | `MCAuthoringConstruction` |
| `CandidateCodec` | the codec: conformance to a schema, the canonical bytes, the strict decoder | `MCAuthoringConstruction` |
| `AuthoringValidation` (extends it) | which diagnostics a request earns | `MCAuthoringConstruction` |
| `AuthoringConstruction` (extends it) | the coordinator: identities, candidate sources, sealed basis, round trip | `MCAuthoringConstruction` |
| `AuthoringConstructionProofs` | theorems of the above | TLAPS |
| `SourceBasis` | the sealed basis that both materializations read | `MCMaterialization` |
| `Interpretation` (extends it) | the meaning of an authoring 1.7 document, and a model made of several | `MCMaterialization` |
| `Materialization` | operation 1.0, over `SourceBasis` | `MCMaterialization` |
| `ForwardMaterialization` | the gate of protocol 1.3 and operation 1.1, over `Interpretation` | `MCMaterialization` |
| `CoreMaterialization` | the two operations behind the protocol of the request | `MCMaterialization` |
| `CoreMaterializationProofs` | theorems of the above | TLAPS |

### AuthorityTransaction

`disk` is the governed files, `state[j]`, `backup[j]` and `plan[j]` what the
journal directory `j` holds, `temp` the temporary file next to a target. `pc`
and `k` are the place of the process in the code: staging, backing up,
committing, rolling back, cleaning up, recovering. `base` and `stale` are
history variables that only properties and the callers' discipline read.

Each file operation of the code is an action. `CommitFails` is an exception in
the replacement loop, `Crash` a kill (or an exception that the `except
Exception` of the loop does not see), and `CrashInCopy`, `CrashInStateWrite`,
`CrashInCleanup` are kills inside the operations that are not atomic: copying a
backup in place, rewriting the state file, removing the journal directory.

Two constants name what callers must do and the code does not enforce:
`NoOverlap` (nobody begins on a target of a transaction that still runs or must
still be recovered) and `FreshRecovery` (nobody replays the journal of a target
that a later transaction took). With both, everything below holds. Without
`FreshRecovery` it does not: recovery replays recovered journals too (line 166),
although its docstring speaks of committing ones.

### Promotion

`authority` and `head` are the working tree and git's HEAD, as functions from
paths to files; a file is a version and the version it was made from, so that
overwriting work can be told from applying it. `pc` is the contract documents,
`payloads` and `resolved` the provider store that all contracts share. `proc`
is the command that runs for each contract and what it holds in memory: apply
loads the contract once, at its start, and works from that copy.

The order of the tests of `apply_promotion` is kept: the baseline gate, the
idempotent path, the evidence-recovery path, the lock, readiness, the payloads,
the commit, the evidence, the regeneration. `commit_all_or_none` is one step
here (`ApplyCommit`, as `AtomicCommit!Apply`) with two failing variants, rolled
back (`ApplyCommitFails`) and killed (`ApplyCommitDies`, nobody recovers a
promotion's journal in the code). A developer edits, commits and restores.

`Serial = TRUE` means that commands and edits never overlap; `FALSE` lets every
step of every command interleave.

### IdAllocation

`numbers` is the number that each document declares, `marks` the allocation file
(or that it cannot be read), and `proc` what each invocation is doing and holds
in memory. One action per read, scan and write of `next_id`, as `next-id` and
`scaffold` call it; a process may die anywhere, and a write that dies leaves the
file torn. People write, break and delete documents, and delete a torn file:
`issued`, a history variable, starts anew for a lost file, since the marks are
then only as high as the documents. `Serial` is as in `Promotion`.

### IdentityMigration

`docs` is the documents: their schema, the identity and alias of each entity, and
what each reference says. `maps` is the identity maps planned so far, candidates
or sealed, wherever people keep them; `mapFile` is the canonical map on disk, which
`apply` creates; `journals` the backups of applies that were killed. A UUID is
named after the plan that minted it. The commands take days and people between
them: they run one at a time and each is one step, `ApplyDies` being a kill in
the commit, which leaves a prefix of the writes in path order, as
`AuthorityTransaction` shows. `check` changes nothing and is the operator
`CheckPasses`. Two constants name what the code does not enforce: `LegacyOnly`
(no document is written in schema 1.3 before the migration) and `RecoverFirst`
(an interrupted apply is recovered before any other work). A person may write
any of `Replacements` into a map, in the instance a new UUID, that of another
entry and that of the other map: `from_dict`, `seal`, `verify_sealed` and `apply`
take whatever is there, and two entities can end with one UUID.
`IdentitiesDistinct` and `CheckIsSound` say what holds as long as people write
new ones (`RevisedAfresh`); the other properties need no such condition.

### Compiler

`sources` has a version of each of two ADRs and one of `PROJECT.yaml`, and says
whether a relation makes the two peers; `disk` is the derived artifacts: the
versions that an artifact shows (`Shown`), those that its source hash declares
(`Hashed`), its timestamp, and whether the file is whole. `proc` is what each
command line is doing, in the order of `ArchitectureCompiler.compile`: resolve
the timestamp (`ResolveStamp`, E705), run the frontend, render a group of
artifacts, sign its header, report the gate, then write or check.

The sources are read several times: the frontend reads every ADR, the manifest
and the pages read them once more, and `compute_source_hash` reads them again.
Each reading is an action of its own, so that the model can tell what was
rendered from what was signed. A file is written in two steps, since
`write_bytes` empties it first; a kill leaves it cut off before or behind its
timestamp. `Verdict` is `validate_artifact`. `moved` is a history variable: the
checks during which another command wrote. A kill that cuts a file off counts as a
write, since the disk is not what it was.

`EditsAtRest` says that nobody edits while a command runs. The code does not
enforce it. Without it an artifact is signed for sources that it does not show,
and the validator calls it valid until the next edit.

No hash covers all that its artifact shows. The graph shows the namespace of
`PROJECT.yaml`, which its hash leaves out. A page shows the label and the link of
every ADR that its own names (`resolve_present_ref`: `related_adrs`,
`superseded_by`, lifecycle rows), and its hash covers the `render_dependencies`:
its own ADR and those at the ends of the paths of its neighbourhood, which
lifecycle associations are not part of. So when a merely named ADR is renamed or
removed, the page keeps the old label and the validator calls it valid, though it
renders the page anew: it compares the hashes of the sources, and the hash of the
body with the one in the header, never with the new body. TLC reaches that state
in this run. `ValidIsCurrent` therefore speaks of the files that the hash covers,
including that a peer is gained or lost; `CheckAcceptsOneBuild` of everything,
since a check compares bytes.

### CompilePasses

A corpus is the sequence of the ADR files as they are discovered. An ADR is its
kind, identity and version, its nested parts, the references it authors, and the
members and edges of its topology. `Rule` is the table of what `derive_relationships`
does with each field: the type of the relation, its direction, its inverse, and
what happens when the target is missing (a gap, an error, a dangling relation,
nothing). The actions are the passes in the order of `CompilerPipeline.run`;
any of them may raise, and then nothing is published. `relations` keeps the first
writer of a relation, as `add_relationship` does: the model says so by the least
position that states it, since a loop that skips what is there has that effect.

`CorpusAssumption` is what discovery and the authoring models guarantee: logical
files come first, an ADR authors references in its own name or in that of the
parts that have such fields, extension types are not those of the core
(`CoreTypes`), lines 1.5 and 1.6 have slim topology members only, and the verbs of
a topology are those of the enumeration, except in lines 1.3 and 1.4, whose
`component_topology` is an open mapping (`models/v1_3/physical_system_adr.py`:69).
There derivation takes the verb as it stands, whatever it means elsewhere.

`Uuids` and `TopoIds` are the ids that are UUIDs and those that start with TOPO-. Lines
1.3 to 1.6 ask most ids to be UUIDs; `Unchecked` names the parts whose ids nothing
checks, and members of a topology of 1.3 and 1.4 are free too. The UUID models drop every
entity that has no UUID (`Publishable`) and every relation with such an end
(`HasUuidEnds`), but the summary of an entity still names what was
dropped, and an unresolved record still has its source. Model 2.0 validates what it
projected and logs each such name (`HardFailures`); the compile then answers without
success, with the artifacts written. Models 2.1 to 2.3 say nothing; 2.2 and 2.3
refuse TOPO- ids.

Of two system ADRs with one id, derivation takes the system of the last
(`SystemOf`), while the validation of membership takes that of each file
(`OwnSystem`).

`BundleValid` refuses what the closed records of the bundle cannot hold, and
`Validation` an entity that has the identifier of the namespace marker.

### SemanticContract, ContractSet, ContractStore

Definitions are manifests of resources; a digest is the record of what it was
taken from, so two digests are equal when their contents are. A check answers the
set of its diagnostic codes. The grammar of names, keys and versions is one
Boolean, `governed`. `ContractSet` computes everything from a request that
carries the corpus, as the core does. `sets` of a corpus maps positions to
artifacts, since of two artifacts with one identity the later counts.
Where the code searches a list for what qualifies (the later definition, the
set of an identity), the model takes a member of the set of positions that do.

`ContractStore` has the state: the records that people edit and the files that
hosts write. `apply_semantic_contract_set_assembly` asks the core
(`Preview`), looks whether the file exists (`FindTarget`, `MissTarget`) and
writes it in place (`OpenTarget`, `FillTarget`), any of which may be the last
thing before a kill. Owners append records, set the pointer and tamper with
a set file. `ContractStoreAssumption` says what parsing guarantees: members are
records of three fields, the records of governance, manifests, dependencies and
resources are lists, and a file name stands for one composition.

The depth-first search of `detect_cycle` is a recursive function over calls
(`Search`): the list still to follow, the keys the call is below, and the keys that
are done. `Follow` is one step of it, with the answers to the calls it makes.

### CandidateSource, CandidateCodec, AuthoringValidation, AuthoringConstruction

A request states fragments, relationships between them and compositions, over a
basis of contracts and existing sources. `AuthoringValidation!Report` is the
set of diagnostics that a request earns, one operator per rule of
`authoring_construction.rs`. `AuthoringConstruction` is the coordinator: one
identity per intent (kept or minted), one candidate source per intent, rendered
and read back, the sealed basis, the round trip. A request may come again in one
process, which keeps the minter's counter. `f ++ g` is the fields of `f` and
those of `g` that `f` lacks: `Map::insert` and `entry().or_insert` of the code.

The codec is recursive in the value and its schema. `CandidateSource` takes it
as three CONSTANT operators, `Conforms`, `Render` and `Decode`, which the
instance binds to those of `CandidateCodec`; what the coordinator does with them
is proved for every codec. The schemas of the instance are small, with every
construct the renderer tells apart: nested and open maps, lists, alternatives,
constants.

`RequestsAssumption` says that the fragments and relationships of a request are
lists, which parsing gives. `MinterAssumption` is the format of `mint_uuidv7`: a
reading of the clock and the low bits of a counter, so the identities of two
readings differ, those of one reading differ for a round of the counter, and the
counter (a `u16`) wraps between two rounds.

In the requests `Namesakes` of the instance an end names an identity of the
reference basis by a text that is also the key of an intent. They show that
`endpoint_id` (`authoring_construction_orchestration.rs`:722) looks the key of
an end up among all identities and ignores its kind: such
an end is written as the identity of the intent, though the validation judged
the one of the basis.
`EndsInTheSet` therefore promises a fragment only for ends of kind `request`.

### Materialization

A document is the identities it declares, in the order the code declares them,
and the references it makes. `Materialization` keeps the loop over the artifacts as
steps, since operation 1.0 decides topology membership in the middle of it and
all other references at its end. `ForwardMaterialization` interprets one artifact
at a time (`Interpretation`) and assembles the readings. `CoreMaterialization`
runs whichever operation the protocol of the request selects.

What an artifact contributes is collected in sets. The code collects lists, and
sorts or indexes them at the end. Each relationship and unresolved item keeps the
artifact and the index it was authored at, so no two of them that the code tells
apart meet in the set. An entity keeps its artifact and no place: what
a set would merge there is a second declaration of one identity, which the code
refuses (`Taken`). Operation 1.0 sorts the artifacts by reference with a stable
sort; the model takes the first of those left (`First`).

`RequestsAssumption` says what parsing and the schemas guarantee: fields are lists,
and a valid document with a topology has a system (`"system"` is required in
`schema/authoring/v1.5` to `v1.7/adr-physical-system.schema.json`, and no operation
reads the `component_topology` of another type, `materialization.rs`:2314). `IdentityAssumption` says that `NONE` is no identity.

Operation 1.0 refuses two artifacts with one reference
(`duplicate_source_identity`, `materialization.rs`:2039); operation 1.1 has no such
check. Two of its artifacts may then make relationships that say the same of where
they come from, so `ReferencesAccounted` counts those of an artifact whose reference is its
own (`HasOwnRef`).

## 3. Runs

| run | question | answer |
|---|---|---|
| `transaction_disciplined` | is the protocol all-or-none and recoverable, and does it implement `AtomicCommit`, under faults and kills everywhere? | yes, under the two disciplines |
| `promotion_serial` | one command at a time: is work ever overwritten, is evidence ever false, are unlocked bytes ever committed? | no |
| `promotion_wrong_target` | do locked bytes always go to the target the mutation names? | no: resolved paths are neither locked nor kept per contract |
| `allocation_serial` | one allocation at a time, among kills and people: is a number given twice, or one that a document has? | no |
| `migration_disciplined` | two maps in every order of plan, edit, seal, apply, kill and recovery: is an identity minted twice or shared, a reference lost, the map on disk unlike the corpus, or an incomplete migration accepted by `check`? | no, with `LegacyOnly` and `RecoverFirst`, and identities stay apart if people write new ones |
| `compiler_repair` | command lines that overlap, die and write in place: can the validator or a check be deceived, and does compiling again always repair? | no, and yes with a pinned timestamp |
| `compile_corpora` | does what the compiler publishes account for every reference, and agree with itself? | yes, but for what has no UUID: no relation names it, summaries and unresolved records still do |
| `materialize_requests` | does a materialized model declare every identity once and account for every reference? | yes |
| `materialize_permuted` | does the model of operation 1.1 ignore the order of its basis? | no: unresolved items of two documents at one index keep it |
| `construct_requests` | is a constructed set whole, backed by the basis, closed, faithful to what was supplied? | yes |
| `contract_corpora` | do exact identities keep their meaning, and do applied assemblies leave valid corpora, while people edit and hosts race? | yes |
| `contract_pointer` | does a pointer resolve only against the revisions it was set for? | no: the diagnostic is dropped |

Bounds. Two transactions over three files are enough for every pair of
overlapping or disjoint plans, a file written twice, an update next to a
create, and a later transaction that takes a target; a third transaction would
only repeat the relation of two. Two contracts over two files are enough for
what contracts share: a file, a mutation id, the store. `MaxCommits` bounds git
commits, one, so that a contract can be applied, committed and redrafted.
Allocation has two types and three documents over a normal band of three numbers
and a reserved one, so that the band runs out and documents collide; numbers end
with the band and need no bound. One process is enough in `allocation_serial`,
since it allocates again and again. Migration has three documents, two of them
with nested entities that share a legacy identifier (so that preflight refuses
some corpora), references into the own and into another document, and two plans
(`MaxPlans`), so that one map can be applied between the sealing and the
application of the other. Removed documents do not come back.

`compiler_repair` has two command lines and the artifacts of two ADRs.
`MaxEdits` is 2: an edit changes one file, adds or drops the relation that makes
the two peers, or removes the second ADR, whose page is left over; some pairs of
versions do not parse and one fails the gate. `MaxRuns` bounds the commands other than the retry and `MaxKills` the
kills, one each: a kill and an overlapping command are what a retry has to
repair, and whatever earlier ones left is a state that one of them can leave too.
Two clock readings are enough for two timestamps that differ.

`compile_corpora` has five ADRs (two logical, one system, two components) with
a menu of references of every kind of rule, taken up to three at a time, with
inverses authored in the earlier or in the later file, missing targets and
repeated references; besides, topologies with unknown and repeated handles, with verbs of the core and
of one's own, second definitions, and a component of another version than the
rest; then fat members, components and decisions whose ids are no UUIDs, named by
references or not, and two system ADRs with one id: 10,598 corpora in models 1.1
to 2.3, all of them plain (`MCPlainVerbs`, see section 4).
`materialize_requests` has three documents (one of each type) in every order
and version for the topology, and one kind of declaration, reference or fault
varied at a time in two documents. `construct_requests`
starts from a decision composed into a logical ADR, an asset of a consumer's type
and a relationship, and deviates in one place at a time; the counter of the
minter wraps at 8 and a round is 4, for 65,536 and 4,096. `contract_corpora` has
three families of a profile, ten corpora to start from, three stored
compositions, two hosts and two edits (`MaxEdits`); hosts are symmetric.

Fairness. `compiler_repair` assumes that a command that runs goes on
(`WF_vars(Step(p))`: a process is scheduled, and every step ends by itself) and
that the operator does not give up (`WF_vars(Retry)`: whenever no command of the
operator runs, one is started again). Commands, edits and kills are not fair:
they are bounded and need never happen. `CompileRepairs` needs no more: it says
that again and again nobody runs and the artifacts are one build of the sources,
unless those do not parse. The retry must pin its timestamp. An unpinned retry
repairs nothing once two files have different timestamps: `generate-manifest`
and `generate-architecture-index` on a fresh scope are enough for that. No
other liveness is claimed: every other command is started by a person and may
never be started again.

Seen while modelling, and not among the runs: two allocations that overlap are
given the same number, since the mark is read and written without a lock; a
migration over a corpus with a document of schema 1.3 replaces its recorded
UUID; after a commit whose evidence was not written the baseline gate refuses
the retry; a contract whose post-images already stand is given evidence without
a lock; two mutations of one file are computed from the file on disk, and the
last one wins; two overlapping promotions of one file overwrite each other, since
the baseline is compared only at the start. The instances of section 3 exclude
these by `Serial`, `LegacyOnly`, `RecoverFirst` and distinct targets.

## 4. Proofs

A theorem holds for every value of the constants that the named assumptions
admit. The properties are seldom inductive; what each proof adds is said here.

`AuthorityTransactionProofs`:

* `TypeCorrect` holds for all constants.
* `CommitIsAllOrNone`, `AuthorityIsRecoverable`, `RecoveryIsHarmless` and
  `CommitRefinesAtomicCommit` assume `NoOverlap` and
  `FreshRecovery`, and nothing of the number of files, journals or plans. The
  properties are not inductive: that backups restore the base follows from where
  the process is in its loop (what it has backed up, replaced, undone), and that
  other transactions do not disturb it follows from disjoint targets of unsettled
  transactions. The inductive invariant is the conjunction of those facts, one
  named operator per process phase; the proof of its preservation has one lemma
  per action. The refinement maps the files to what a reader may rely on: the
  targets of a journal that is still to be rolled back or recovered are taken as
  the journal began, so `CommitDone` is the abstract step and all others stutter.

`PromotionProofs`:

* `PromotionTypeCorrect` and `OnlyLockedBytes` hold for all constants, `Serial`
  or not. The invariant is what each process remembers (`Memory`): from reading
  to commit, the loaded document is locked, and what was read is what it binds.
* `LockedTargets` is the other half of the run `promotion_wrong_target`: if a
  mutation identifier is for one target in all contracts (`OneTarget`), every write
  goes to the target its mutation names, however prepares race for the store. So
  shared identifiers are all that can misdirect a commit.
* `LosesNoWork` assumes `Serial` and `OneTarget`, `EvidenceAlwaysTrue` also that a
  contract mutates a file once (`TargetsApart`). Neither property is inductive. The
  invariant (`SerialInv`) ties a contract to the tree: an unblocked document binds
  what its mutations make of its baseline (`MadeFrom`: prepare compares the baseline
  only when it publishes, but the tree stood still since it was read), and from
  the start of apply to its commit the tree is that baseline. People may still
  edit, lock, redraft, commit and restore between any two commands. The instance
  of `promotion_serial` satisfies the hypotheses, and TLC finds `SerialInv` to
  hold there.

`IdentityProofs`, about `IdAllocation`, needs `Serial` for `AllocatesFreeNumber` and `AllocatesOnce`,
and no assumption on types, numbers or documents; `AllocationTypeCorrect` needs
none. The invariant says that one process is under way (`Alone`), that the number
it holds is above the documents (`AboveDocs`) and above the numbers issued
(`AboveIssued`), and that the marks cover what was issued (`Covered`).

`IdentityProofs`, about `IdentityMigration`:

* `MigrationTypeCorrect` and `DistinctAlways` hold for all constants, the second
  of `RevisedAfresh` corpora. The core of the first is that an admitted map knows every identity of the corpus, so that
  a rewritten document has an alias for each. The second needs to know where an
  identity comes from (`Named`): maps, documents and backups give an entity its
  legacy identifier or what some plan minted for that entity (`OwnNames`), so two
  entities never share a UUID, not even across maps and recoveries.
* `MintsOnce`, `KeepsReferences`, `MapDescribes` and `CheckSound` assume
  `LegacyOnly` and `RecoverFirst`. They share the invariant `Phased`: before the
  migration every document is legacy and untouched; while an apply is interrupted
  its journal holds the legacy documents and everything else waits; after it each
  document is as the one map on disk says, or was born in schema 1.3. `CheckSound`
  is the one that a reader would doubt: `check` reads a document's own identity
  and never those of nested entities, and yet a corpus it accepts has the map's
  identities on all of them, because no two maps mint the same UUID. It is about
  `RevisedAfresh` maps; the other three hold whatever people write into maps.

`CompilerProofs` says nothing of the numbers of command lines, edits, runs and
kills:

* `CompilerTypeCorrect` and `ValidIsCurrentAlways` assume `EditsAtRest`. The
  invariant follows a version through a command (`LineOK`): what the frontend saw
  is what the sources are while the command runs, so what was rendered was signed
  for the sources it shows, so every file that waits to be written, and every
  whole file on disk (`DiskSigned`), was rendered and signed for one version of
  the sources.
  That survives later edits, overlapping writers and kills, because it relates a
  file to itself and not to the sources.
* `CheckAccepts` is an action property and needs more (`Checked`): every
  artifact that a running check has rendered is of the version it saw and of its
  one timestamp (`OneBuild`), and while nobody wrote under it, everything it has
  compared without drift is that build, on disk as it stands (`Compared`).

`ContractStoreProofs`:

* `OneSetResolves` is about the operators alone: in a corpus where no two
  artifacts have one identity, two sets that resolve exactly under a profile have
  the same members, so they are one set. The argument: the profile's families fix
  the family and version of each member, the definitions of the corpus fix the
  fingerprint of each, and a set's identity is the record of its members.
* `OneSetOfAProfile`, `CurrentAgrees` (what the pointer names resolves exactly,
  by the pointer's own record) and `MeaningKept` (an exact request that resolves
  before and after a step resolves to the same members and definitions) hold in
  every reachable corpus. They need little of a behaviour: that the records and
  the members of what is on disk, or about to be written, have the form that
  parsing gives (`IInv`), and that owners only append. Tampered files satisfy
  that, since the name of a file is compared with the digest of its members when
  it is read.
* `AssemblyKeepsValid`: a written assembly leaves a valid corpus, if its records
  are those it was previewed on and describe the sets that are there. The previewed
  corpus is that on disk plus the new set, and no check reads the position of a set.
* `FingerprintSeals`: bundles that verify under one fingerprint have the same
  contents under the same keys and the same projections, in whatever order their
  manifests list them.
* `Sealed` (`VerifiedIsSealed`) adds that no set of keys of a verified definition
  leads back to itself. `Search` is a recursive function, so it is first shown to
  exist: calls are ordered (`Less`: fewer keys that it is not below, or the same and
  a shorter list), every non-empty set of them has a least one (`LeastCall`), a step
  looks at the answers to lesser calls only (`FollowIsLocal`), and the answers found
  below each call agree (`AnswersAgree`), so together they are the function
  (`SearchIsDefined`). Then a least call would be the first to break the
  invariant of the search (`SearchIsSound`): the keys that are done are closed under
  dependency and nothing among them goes round (`Cleared`), unless a cycle was
  reported. What owners may add are well-formed bundles (`Known`).

`AuthoringConstructionProofs` holds for all requests, bases, schemas, registries
and minters, and for every codec:

* `ConstructsTheWhole` and `ConstructsOnAuthority`, from an invariant with one
  conjunct per phase (`IInv`): what was validated, which of the intents have an
  identity (`Identifying`), which have a candidate or a diagnostic (`Building`),
  and what an answer was made of (`Completed`). Keys are distinct only because the
  validation says so; the proof carries its verdict from the report to the map.
* `ConstructsItsEnds` and `KeepsTheSupplied` have the hypothesis `[]CodecHolds`:
  a source that is accepted when it is read back is the source that was rendered,
  and the schema of a relationship accepts no empty end. What the codec computes is
  recursive and out of the prover's reach; on the instance TLC finds that
  `CodecHolds`, and the invariants `IInv` and `Carried`, hold in all 26,398 states.
  Given that, the proof shows what is left: that no field the construction writes
  itself, and no composed child, replaces a supplied one, that the enrichment of a
  component topology gives members a purpose only where they have none, and that
  ends are identities of the set.
* `MintsApart`, from `Minting`: the p-th identity is the one of some clock
  reading at (p - 1) modulo a round. It needs that a remainder of a remainder is
  the remainder when the counter's width is a multiple of the round, which is
  proved from the definition of division.
* `ReportsInAnyOrder`: reversing a request mirrors every position (`Mirrored`),
  and every rule of the validation is an existence over positions or names the
  least position, which distinct keys make unique.

`CompilePassesProofs` holds for all corpora that the authoring models admit, of
any number of ADRs, parts, references and edges:

* `CompilationInvariant`: the properties speak of the last state and nothing of
  how it came about, so none is inductive. `IInv` says pass by pass what has been
  read (`ReadInv`: every entity has its declaring file, every part that authors
  references is an entity), what derivation made of it (`RelationInv`: the ends of
  every relation, its inverse, the edge of every topology), what it left
  (`GapsInv`, `UnresolvedInv`), what validation let through (`ValidInv`), and that
  the bundle is the registries of that (`BundleInv`). `EraInv` and `MarkerInv` are
  the versions and the namespace entity, `SystemsInv` the system of each system
  ADR's id. The lists of items, statements and gaps
  are concatenations over files; lemmas about their members (`FlatRange`,
  `Gathered`, `SaidInCorpus`) replace the folds in every other proof.
* `AccountsForReferences` and `KeepsTopology` have no other hypothesis. The first
  rests on `PublishedRelations` (a relation is published exactly if it is not
  `Dropped`) and on a summary keeping what is dropped. No edge of model
  2.2 is dropped, since its members are UUIDs.
* `PublishesInverses` and `PublishesClosed` have one, `PlainVerbs`: no edge has
  for its verb `composed_of`, `declared_in` or a type with an inverse. It
  can fail in lines 1.3 and 1.4 only; the run's corpora satisfy it. What the
  first says of membership has the condition `OneSystemEach`, in the property itself:
  with two system ADRs of one id validation looks at the systems of both
  and derivation at the last (`OwnIsLast`, `Embodied`). TLC finds corpora
  that break it without that condition.
* `PublishesClosed` says of every name in a summary or an unresolved record that it
  is in the bundle or has no UUID, and that model 2.0 reports the
  latter (`ClosedRelations`, `ClosedRecords`, `ClosedSummaries`).

`CoreMaterializationProofs` holds for all requests of any number of artifacts,
declarations and references, in both operations:

* `InvariantHolds`. The properties speak of the finished model and nothing of how
  it came about. For operation 1.0, `Inv10` says of the work after any number of
  artifacts, as long as nothing was diagnosed (`Collected10`): its entities and
  its known identities are exactly what the artifacts read so far declare, all
  different (`EntitiesCollected`); its records belong to those artifacts, whose
  references differ (`RefsCollected`); each of their references has one
  relationship or is open (`Accounted`); each open item has a reason
  (`OpenSound`), and each relationship what admission needs (`KeptSound`). That
  artifacts are taken in order (`Sorted`) is needed to know what "declared so far"
  means when membership of a topology is decided: what the artifacts with a
  smaller reference declare is known by then. Admission moves records from one set to the other, and `Settled`
  is what is left. For operation 1.1, `Inv11` says that the readings are those of
  a prefix of the request, each of them whole, as long as nothing was diagnosed.
  The two never mix: the protocol of the request selects the operation for good.
  TLC finds both to hold in all 11,450 states of `materialize_requests`.
* `DeclaredOnceHolds` joins the two checks for duplicates: the set of known
  identities in 1.0, within and across documents; in 1.1 `Repeats` within
  a document and `AssemblyFails` across them.
* `ReferencesAccountedHolds`: in 1.0 from `Accounted`; in 1.1 every reference has
  one result (`ResultAt`), which is accepted or unresolved, since a rejected one
  fails its document. That assembly loses no unresolved item is proved
  through two flattenings (`FlatItems`, `InOrderKeeps`).
* `ResolvedWhenDeclaredHolds`: what is unresolved is so for a reason. The exception
  is the topology member, decided in the middle of the loop: an artifact with the
  same or a later reference may declare it.

Work over sequences (`SetInduction`, `ItemsOfConcatenation`, `FlatItems`) goes by
the least counterexample of a set of naturals, without the induction theorems.

What attempts at proofs changed. The first proof of `InversesTogether` failed
for an edge of line 1.3 with the verb `supersedes`: `derive_relationships.py`:604
takes it as a relation, without an inverse, and one with the verb
`declared_in` declares a component twice. The model had restricted verbs in every
line; it now follows the authoring models, and the two theorems say what they need. `CheckAccepts` failed until a kill that cuts a
file off counted as a write under a running check. `KeepsTheSupplied` failed for
ADR fragments: the construction overwrites a supplied `schema_version`, so
`Ceremony` names it. `ConstructsItsEnds` failed for ends of the reference basis:
see `Namesakes` above. `ReferencesAccounted` failed for operation 1.1 and two
artifacts with one reference, which that operation accepts; it now says
`HasOwnRef`.

Only model-checked, and why:

* `CompileRepairs`: liveness under fairness, out of the prover's reach.
* What the codec, the decoder and the renderer compute (`CodecHolds`).

## 5. Not modelled, and what the models leave out

Components:

* The queries, the cache and the alias indexes of the repository, and linkage,
  attribution and the core's queries: reads that change nothing.
* Parsing, models, validators and scope resolution: independent rules field by
  field. Generators, the manifest's tables, the graph's content and the pages:
  rendering. The command line, the API and the Node package: argument handling
  and transfer types, beyond the commands that `Compiler` has.
* The other migrators and the promotion candidates: the next writers to model.

Within the modelled components:

* One promotion command per contract at a time; each caller names an output
  document of its own for prepare. Two applies of one contract that lose one
  another's evidence entry are listed as a hazard. `check_promotion` and dry runs
  write nothing that the model has. A torn contract document is not modelled:
  it is refused by every command.
* The content of amendments and the schema of documents are versions; a
  candidate is valid or not by a choice. Derived artifacts are not part of
  `authority`.
* The content of a document besides its identities and references, and alias
  names: an edit made while an apply runs is overwritten, since the fingerprint
  covers the identities only (a hazard without a property).
* Of the compiler: contract profiles, the system overview (one more page), and
  the registries beside the architecture index, which are written like it.
* Of contracts: the grammar of names, keys and versions, SHA-256 and the canonical
  JSON (a digest is what it was taken from), and the packaged assets.
* Of construction: quoting, numbers and padding of the canonical bytes, and
  types of dotted namespaces, which the code never constructs. Of
  materialization: provenance, wording, and the normalized model's fields beside
  identities, relationships and unresolved items.

## 6. Plan

1. `AuthorityTransaction`, `Promotion`, `IdAllocation`, `IdentityMigration`,
   `Compiler`, `CompilePasses`, contracts, construction and materialization:
   modelled, checked and proved.
2. The other migrators, which write several files without a journal, against
   `AtomicCommit`.
