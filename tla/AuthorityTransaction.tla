------------------------ MODULE AuthorityTransaction ------------------------
(***************************************************************************)
(* The multi-file authority commit of adr_kit/integrity/transaction.py:    *)
(* commit_all_or_none and recover_interrupted_commit.                      *)
(*                                                                         *)
(* A transaction is named by its journal directory.  The process that runs *)
(* it stages the planned writes, validates the staged post-state, backs up *)
(* the files it is about to replace, marks the journal "committing" and    *)
(* replaces the targets one by one.  An exception inside that loop undoes  *)
(* the replaced targets.  A process may also be killed, or be left by an   *)
(* exception no handler of the loop sees: the journal then stays, and      *)
(* recover_interrupted_commit replays it.  Several processes share the     *)
(* file system; the code takes no lock.                                    *)
(***************************************************************************)
EXTENDS Naturals, Sequences

CONSTANTS
    Path,          \* governed files, by path relative to the project root
    Bytes,         \* contents of a file
    Absent,        \* no file at this path
    Torn,          \* what a copy that was cut short leaves
    Journal,       \* journal directories, one per transaction
    Plans,         \* lists of planned writes a caller may submit
    NoOverlap,     \* callers never begin on a target of an unsettled transaction
    FreshRecovery  \* nobody recovers a journal whose target was taken since

Write == [path : Path, content : Bytes, operation : {"create", "update"}]

ASSUME ContentAssumption == Absent \notin Bytes /\ Torn \notin Bytes /\ Absent # Torn
ASSUME PlansAssumption   == Plans \subseteq Seq(Write)
ASSUME DisciplineAssumption == NoOverlap \in BOOLEAN /\ FreshRecovery \in BOOLEAN

VARIABLES
    disk,      \* the governed files
    state,     \* contents of <journal>/state
    plan,      \* the writes of each transaction (staged files and manifest.json)
    backup,    \* <journal>/backups: the copies of the replaced targets
    temp,      \* journals whose process has left a temporary file in place
    pc,        \* where the process of each transaction is
    k,         \* index of the loop over the writes that pc names
    base,      \* history: the files when the transaction began
    stale      \* history: journals whose targets a later transaction took

vars == <<disk, state, plan, backup, temp, pc, k, base, stale>>

Content == Bytes \cup {Absent, Torn}

JournalState == {"none", "unset", "committing", "recovered", "committed"}

Running    == {"staging", "backing", "committing", "rollback", "cleanup", "recovering"}
ProcessState == Running \cup {"idle", "returned", "raised", "abandoned"}

TargetsOf(w) == {w[i].path : i \in DOMAIN w}
Targets(j)   == TargetsOf(plan[j])

Last(j) == Len(plan[j])

(* A journal that recover_interrupted_commit would replay. *)
Replayable(j) == state[j] \in {"committing", "recovered"}

(* The transaction still acts on its targets, or was cut short and must be *)
(* recovered before they can be relied upon.                               *)
Unsettled(j) == pc[j] \in Running \/ (pc[j] = "abandoned" /\ Replayable(j))

(* The discipline of the callers, which the code itself does not enforce:   *)
(* promotion's baseline gate and the migrator's fingerprint check refuse a  *)
(* mixed authority; nothing guards recover_interrupted_commit.              *)
MayBegin(w) ==
    NoOverlap => \A j \in Journal : Unsettled(j) => Targets(j) \cap TargetsOf(w) = {}

MayRecover(j) ==
    /\ FreshRecovery => j \notin stale
    /\ NoOverlap => \A i \in Journal \ {j} : Unsettled(i) => Targets(i) \cap Targets(j) = {}

-----------------------------------------------------------------------------
Init ==
    /\ disk \in [Path -> Bytes \cup {Absent}]
    /\ state = [j \in Journal |-> "none"]
    /\ plan = [j \in Journal |-> << >>]
    /\ backup = [j \in Journal |-> [p \in Path |-> Absent]]
    /\ temp = {}
    /\ pc = [j \in Journal |-> "idle"]
    /\ k = [j \in Journal |-> 0]
    /\ base = [j \in Journal |-> [p \in Path |-> Absent]]
    /\ stale = {}

(* The journal directory is made (mkdir exist_ok=False: a used name fails). *)
(* A caller plans an update only for a file it has resolved on disk.        *)
Begin(j, w) ==
    /\ pc[j] = "idle" /\ state[j] = "none"
    /\ \A i \in DOMAIN w : w[i].operation # "create" => disk[w[i].path] # Absent
    /\ MayBegin(w)
    /\ pc' = [pc EXCEPT ![j] = "staging"]
    /\ state' = [state EXCEPT ![j] = "unset"]
    /\ plan' = [plan EXCEPT ![j] = w]
    /\ base' = [base EXCEPT ![j] = disk]
    /\ stale' = stale \cup
          {i \in Journal : pc[i] # "idle" /\ Targets(i) \cap TargetsOf(w) # {}}
    /\ UNCHANGED <<disk, backup, temp, k>>

(* Staging, the create-target check and validate_staged all pass. *)
Stage(j) ==
    /\ pc[j] = "staging"
    /\ \A i \in DOMAIN plan[j] :
          plan[j][i].operation = "create" => disk[plan[j][i].path] = Absent
    /\ pc' = [pc EXCEPT ![j] = "backing"]
    /\ k' = [k EXCEPT ![j] = 0]
    /\ UNCHANGED <<disk, state, plan, backup, temp, base, stale>>

(* An exception before the commit loop: a fault, a create target that      *)
(* exists, an invalid post-state, a failed backup.  The journal is kept.   *)
AbortBeforeCommit(j) ==
    /\ pc[j] \in {"staging", "backing"}
    /\ pc' = [pc EXCEPT ![j] = "raised"]
    /\ UNCHANGED <<disk, state, plan, backup, temp, k, base, stale>>

BackUp(j) ==
    /\ pc[j] = "backing" /\ k[j] < Last(j)
    /\ LET p == plan[j][k[j] + 1].path IN
         backup' = [backup EXCEPT ![j][p] = disk[p]]
    /\ k' = [k EXCEPT ![j] = @ + 1]
    /\ UNCHANGED <<disk, state, plan, temp, pc, base, stale>>

(* Mutant: the journal is marked committing before every target is backed up. *)
WriteManifestEarly(j) ==
    /\ pc[j] = "backing"
    /\ pc' = [pc EXCEPT ![j] = "committing"]
    /\ state' = [state EXCEPT ![j] = "committing"]
    /\ k' = [k EXCEPT ![j] = 0]
    /\ UNCHANGED <<disk, plan, backup, temp, base, stale>>

(* manifest.json, then the state "committing". *)
WriteManifest(j) ==
    /\ pc[j] = "backing" /\ k[j] = Last(j)
    /\ pc' = [pc EXCEPT ![j] = "committing"]
    /\ state' = [state EXCEPT ![j] = "committing"]
    /\ k' = [k EXCEPT ![j] = 0]
    /\ UNCHANGED <<disk, plan, backup, temp, base, stale>>

MakeTemp(j) ==
    /\ pc[j] = "committing" /\ k[j] < Last(j) /\ j \notin temp
    /\ temp' = temp \cup {j}
    /\ UNCHANGED <<disk, state, plan, backup, pc, k, base, stale>>

(* os.replace(temp_path, item.absolute_path), then replaced.append(item). *)
Replace(j) ==
    /\ pc[j] = "committing" /\ k[j] < Last(j) /\ j \in temp
    /\ LET w == plan[j][k[j] + 1] IN disk' = [disk EXCEPT ![w.path] = w.content]
    /\ temp' = temp \ {j}
    /\ k' = [k EXCEPT ![j] = @ + 1]
    /\ UNCHANGED <<state, plan, backup, pc, base, stale>>

(* An exception in the loop: before a temporary file exists, after it was   *)
(* written, or after a target was replaced.  k is the number replaced.      *)
CommitFails(j) ==
    /\ pc[j] = "committing"
    /\ pc' = [pc EXCEPT ![j] = "rollback"]
    /\ UNCHANGED <<disk, state, plan, backup, temp, k, base, stale>>

(* What undoing write i of journal j leaves at its target. *)
Undone(j, i) ==
    LET w == plan[j][i] IN
    IF backup[j][w.path] # Absent THEN backup[j][w.path]
    ELSE IF w.operation = "create" THEN Absent
    ELSE disk[w.path]

UndoItem(j) ==
    /\ disk' = [disk EXCEPT ![plan[j][k[j]].path] = Undone(j, k[j])]
    /\ k' = [k EXCEPT ![j] = @ - 1]
    /\ UNCHANGED <<state, plan, backup, temp, pc, base, stale>>

RollBack(j) == pc[j] = "rollback" /\ k[j] > 0 /\ UndoItem(j)

(* Mutant: the journal is closed with targets still to be undone. *)
RollBackEarly(j) ==
    /\ pc[j] = "rollback"
    /\ temp' = temp \ {j}
    /\ state' = [state EXCEPT ![j] = "recovered"]
    /\ pc' = [pc EXCEPT ![j] = "raised"]
    /\ UNCHANGED <<disk, plan, backup, k, base, stale>>

RollBackDone(j) ==
    /\ pc[j] = "rollback" /\ k[j] = 0
    /\ temp' = temp \ {j}
    /\ state' = [state EXCEPT ![j] = "recovered"]
    /\ pc' = [pc EXCEPT ![j] = "raised"]
    /\ UNCHANGED <<disk, plan, backup, k, base, stale>>

(* Mutant: the journal is marked committed with targets still to be written. *)
CommitEarly(j) ==
    /\ pc[j] = "committing"
    /\ temp' = temp \ {j}
    /\ state' = [state EXCEPT ![j] = "committed"]
    /\ pc' = [pc EXCEPT ![j] = "cleanup"]
    /\ UNCHANGED <<disk, plan, backup, k, base, stale>>

CommitDone(j) ==
    /\ pc[j] = "committing" /\ k[j] = Last(j)
    /\ temp' = temp \ {j}
    /\ state' = [state EXCEPT ![j] = "committed"]
    /\ pc' = [pc EXCEPT ![j] = "cleanup"]
    /\ UNCHANGED <<disk, plan, backup, k, base, stale>>

RemoveJournal(j) ==
    /\ pc[j] = "cleanup"
    /\ state' = [state EXCEPT ![j] = "none"]
    /\ pc' = [pc EXCEPT ![j] = "returned"]
    /\ UNCHANGED <<disk, plan, backup, temp, k, base, stale>>

-----------------------------------------------------------------------------
(* recover_interrupted_commit(journal): the journal of a process that no    *)
(* longer runs, whatever its state file says; only two values are replayed. *)
RecoverStart(j) ==
    /\ pc[j] \in {"raised", "abandoned"} /\ Replayable(j)
    /\ MayRecover(j)
    /\ pc' = [pc EXCEPT ![j] = "recovering"]
    /\ k' = [k EXCEPT ![j] = Last(j)]
    /\ UNCHANGED <<disk, state, plan, backup, temp, base, stale>>

RecoverItem(j) == pc[j] = "recovering" /\ k[j] > 0 /\ UndoItem(j)

(* Mutant: recovery records a state that no reader of the journal knows. *)
RecoverMisnamed(j) ==
    /\ pc[j] = "recovering" /\ k[j] = 0
    /\ state' = [state EXCEPT ![j] = "restored"]
    /\ pc' = [pc EXCEPT ![j] = "raised"]
    /\ UNCHANGED <<disk, plan, backup, temp, k, base, stale>>

RecoverDone(j) ==
    /\ pc[j] = "recovering" /\ k[j] = 0
    /\ state' = [state EXCEPT ![j] = "recovered"]
    /\ pc' = [pc EXCEPT ![j] = "raised"]
    /\ UNCHANGED <<disk, plan, backup, temp, k, base, stale>>

-----------------------------------------------------------------------------
(* The process is killed, or leaves with an exception that the loop's       *)
(* handler does not see (KeyboardInterrupt, a failing rollback).            *)
Crash(j) ==
    /\ pc[j] \in Running
    /\ pc' = [pc EXCEPT ![j] = "abandoned"]
    /\ UNCHANGED <<disk, state, plan, backup, temp, k, base, stale>>

(* shutil.copy2 truncates its target first: cut short, it leaves a torn file. *)
CrashInCopy(j) ==
    /\ pc[j] \in {"rollback", "recovering"} /\ k[j] > 0
    /\ LET p == plan[j][k[j]].path IN
         backup[j][p] # Absent /\ disk' = [disk EXCEPT ![p] = Torn]
    /\ pc' = [pc EXCEPT ![j] = "abandoned"]
    /\ UNCHANGED <<state, plan, backup, temp, k, base, stale>>

(* write_text truncates the state file first: cut short (or out of space),  *)
(* it leaves a state that no reader recognizes.                             *)
CrashInStateWrite(j) ==
    /\ \/ pc[j] = "committing" /\ k[j] = Last(j)
       \/ pc[j] \in {"rollback", "recovering"} /\ k[j] = 0
    /\ state' = [state EXCEPT ![j] = "unset"]
    /\ temp' = IF pc[j] = "recovering" THEN temp ELSE temp \ {j}
    /\ pc' = [pc EXCEPT ![j] = "abandoned"]
    /\ UNCHANGED <<disk, plan, backup, k, base, stale>>

(* rmtree removes the journal's files in no particular order. *)
CrashInCleanup(j) ==
    /\ pc[j] = "cleanup"
    /\ state' = [state EXCEPT ![j] = "none"]
    /\ pc' = [pc EXCEPT ![j] = "abandoned"]
    /\ UNCHANGED <<disk, plan, backup, temp, k, base, stale>>

-----------------------------------------------------------------------------
Step(j) ==
    \/ Stage(j) \/ AbortBeforeCommit(j) \/ BackUp(j) \/ WriteManifest(j)
    \/ MakeTemp(j) \/ Replace(j) \/ CommitFails(j) \/ RollBack(j)
    \/ RollBackDone(j) \/ CommitDone(j) \/ RemoveJournal(j)
    \/ RecoverItem(j) \/ RecoverDone(j)

Fault(j) == Crash(j) \/ CrashInCopy(j) \/ CrashInStateWrite(j) \/ CrashInCleanup(j)

Next ==
    \E j \in Journal :
        \/ \E w \in Plans : Begin(j, w)
        \/ RecoverStart(j)
        \/ Step(j)
        \/ Fault(j)

Spec == Init /\ [][Next]_vars

-----------------------------------------------------------------------------
(* The variables range over what the code can store in them. *)
TypeOK ==
    /\ disk \in [Path -> Content]
    /\ state \in [Journal -> JournalState]
    /\ plan \in [Journal -> Seq(Write)]
    /\ backup \in [Journal -> [Path -> Content]]
    /\ temp \subseteq Journal
    /\ pc \in [Journal -> ProcessState]
    /\ k \in [Journal -> Nat]
    /\ base \in [Journal -> [Path -> Content]]
    /\ stale \subseteq Journal

(* Every target is as it was when the transaction began. *)
Before(j) == \A p \in Targets(j) : disk[p] = base[j][p]

(* Every target holds the content of the last write planned for it. *)
LastWrite(w, i) == \A m \in (i + 1)..Len(w) : w[m].path # w[i].path

After(j) ==
    \A i \in 1..Last(j) : LastWrite(plan[j], i) => disk[plan[j][i].path] = plan[j][i].content

(* Commit all or none, while no later transaction took a target: a          *)
(* transaction that returns has written every target, one that raises or is *)
(* recovered has left every target as it was, and one that was cut short    *)
(* did one or the other unless its journal says it must be recovered.       *)
AllOrNone ==
    \A j \in Journal \ stale :
        /\ pc[j] \in {"cleanup", "returned"} => After(j)
        /\ pc[j] = "raised" => Before(j)
        /\ pc[j] = "abandoned" /\ ~Replayable(j) => Before(j) \/ After(j)

(* A mixed authority can always be repaired: from the moment the first      *)
(* target may change until the journal is closed, the journal holds what is *)
(* needed to put every target back, torn ones included.                     *)
Recoverable ==
    \A j \in Journal \ stale :
        Replayable(j) => \A i \in 1..Last(j) : Undone(j, i) = base[j][plan[j][i].path]

(* A torn file is never left behind unnoticed: it is a target of a journal  *)
(* that still asks to be recovered.                                         *)
TornIsJournaled ==
    \A p \in Path : disk[p] = Torn =>
        \E j \in Journal \ stale : Unsettled(j) /\ Replayable(j) /\ p \in Targets(j)

(* "Restore authority from a committing journal if present": replaying a     *)
(* journal that is not committing replaces no intact file.                  *)
ReplaysOnlyCommitting(j) ==
    RecoverItem(j) /\ state[j] # "committing" =>
        \A p \in Path : disk[p] # Torn => disk'[p] = disk[p]

RestoresOnlyCommitting == [][\A j \in Journal : ReplaysOnlyCommitting(j)]_vars

(* What a reader may rely on: the files, with the targets of a journal that *)
(* is still to be rolled back or recovered taken as the journal began.      *)
Pending(j) == Unsettled(j) /\ Replayable(j)

Settled ==
    [p \in Path |->
        IF \E j \in Journal : Pending(j) /\ p \in Targets(j)
        THEN base[CHOOSE j \in Journal : Pending(j) /\ p \in Targets(j)][p]
        ELSE disk[p]]

Abstract == INSTANCE AtomicCommit WITH authority <- Settled

(* The protocol implements AtomicCommit: no fault, crash or interleaving of *)
(* disjoint transactions shows part of a list of writes.                    *)
ImplementsAtomicCommit == Abstract!Spec
=============================================================================
