--------------------- MODULE AuthorityTransactionProofs ---------------------
(***************************************************************************)
(* Proofs about AuthorityTransaction, for every set of files, journals and *)
(* plans: type correctness, and, under the discipline of the callers, that *)
(* the commit is all-or-none and always recoverable.                       *)
(***************************************************************************)
EXTENDS AuthorityTransaction, TLAPS

(* The loop index never leaves the list of planned writes, one of Plans. *)
IndexOK ==
    \A j \in Journal :
        /\ k[j] <= Len(plan[j])
        /\ IF pc[j] = "idle" THEN k[j] = 0 ELSE plan[j] \in Plans

TypeInv == TypeOK /\ IndexOK

USE ContentAssumption, PlansAssumption, DisciplineAssumption

-----------------------------------------------------------------------------
LEMMA InitTypeInv == Init => TypeInv
  BY DEF Init, TypeInv, TypeOK, IndexOK, Content, JournalState, ProcessState, Running

(* A write of a begun transaction is a planned write. *)
LEMMA WriteType ==
  ASSUME TypeOK, NEW j \in Journal, NEW i \in 1..Len(plan[j])
  PROVE  /\ plan[j][i] \in Write
         /\ plan[j][i].path \in Path
         /\ plan[j][i].content \in Bytes
         /\ plan[j][i].path \in Targets(j)
<1>1. plan[j] \in Seq(Write) /\ i \in DOMAIN plan[j]
  BY DEF TypeOK
<1>2. plan[j][i] \in Write
  BY <1>1
<1> QED BY <1>1, <1>2 DEF Write, Targets, TargetsOf

LEMMA PathsOfWrites ==
  ASSUME NEW w \in Seq(Write)
  PROVE  TargetsOf(w) \subseteq Path
<1> SUFFICES ASSUME NEW i \in DOMAIN w PROVE w[i].path \in Path
  BY DEF TargetsOf
<1>1. w[i] \in Write
  OBVIOUS
<1> QED BY <1>1 DEF Write

LEMMA TargetsArePaths ==
  ASSUME TypeOK, NEW j \in Journal
  PROVE  Targets(j) \subseteq Path
  BY PathsOfWrites DEF TypeOK, Targets

LEMMA UndoneType ==
  ASSUME TypeOK, NEW j \in Journal, NEW i \in 1..Len(plan[j])
  PROVE  Undone(j, i) \in Content
<1>1. plan[j][i].path \in Path
  BY WriteType
<1> QED BY <1>1 DEF Undone, TypeOK, Content

LEMMA NextTypeInv == TypeInv /\ [Next]_vars => TypeInv'
<1> SUFFICES ASSUME TypeInv, [Next]_vars PROVE TypeInv'
  OBVIOUS
<1> USE DEF TypeInv, TypeOK, IndexOK, Content, JournalState, ProcessState, Running, Last
<1>1. CASE UNCHANGED vars
  BY <1>1 DEF vars
<1>2. ASSUME NEW j \in Journal, NEW w \in Plans, Begin(j, w) PROVE TypeInv'
  BY <1>2 DEF Begin
<1>3. ASSUME NEW j \in Journal, RecoverStart(j) PROVE TypeInv'
  BY <1>3 DEF RecoverStart
<1>4. ASSUME NEW j \in Journal, Stage(j) PROVE TypeInv'
  BY <1>4 DEF Stage
<1>5. ASSUME NEW j \in Journal, AbortBeforeCommit(j) PROVE TypeInv'
  BY <1>5 DEF AbortBeforeCommit
<1>6. ASSUME NEW j \in Journal, BackUp(j) PROVE TypeInv'
  <2>1. plan[j][k[j] + 1].path \in Path
    BY <1>6, WriteType DEF BackUp
  <2>2. backup' \in [Journal -> [Path -> Content]]
    BY <1>6, <2>1 DEF BackUp
  <2> QED BY <1>6, <2>2 DEF BackUp
<1>7. ASSUME NEW j \in Journal, WriteManifest(j) PROVE TypeInv'
  BY <1>7 DEF WriteManifest
<1>8. ASSUME NEW j \in Journal, MakeTemp(j) PROVE TypeInv'
  BY <1>8 DEF MakeTemp
<1>9. ASSUME NEW j \in Journal, Replace(j) PROVE TypeInv'
  <2>1. plan[j][k[j] + 1].content \in Bytes
    BY <1>9, WriteType DEF Replace
  <2>2. disk' \in [Path -> Content]
    BY <1>9, <2>1 DEF Replace
  <2> QED BY <1>9, <2>2 DEF Replace
<1>10. ASSUME NEW j \in Journal, CommitFails(j) PROVE TypeInv'
  BY <1>10 DEF CommitFails
<1>11. ASSUME NEW j \in Journal, UndoItem(j), k[j] > 0 PROVE TypeInv'
  <2>1. disk' \in [Path -> Content]
    <3>1. Undone(j, k[j]) \in Content
      BY <1>11, UndoneType
    <3> HIDE DEF Content
    <3> QED BY <1>11, <3>1 DEF UndoItem
  <2> QED BY <1>11, <2>1 DEF UndoItem
<1>12. ASSUME NEW j \in Journal, RollBackDone(j) PROVE TypeInv'
  BY <1>12 DEF RollBackDone
<1>13. ASSUME NEW j \in Journal, CommitDone(j) PROVE TypeInv'
  BY <1>13 DEF CommitDone
<1>14. ASSUME NEW j \in Journal, RemoveJournal(j) PROVE TypeInv'
  BY <1>14 DEF RemoveJournal
<1>15. ASSUME NEW j \in Journal, RecoverDone(j) PROVE TypeInv'
  BY <1>15 DEF RecoverDone
<1>16. ASSUME NEW j \in Journal, Fault(j) PROVE TypeInv'
  BY <1>16 DEF Fault, Crash, CrashInCopy, CrashInStateWrite, CrashInCleanup
<1> QED
  BY <1>1, <1>2, <1>3, <1>4, <1>5, <1>6, <1>7, <1>8, <1>9, <1>10, <1>11, <1>12,
     <1>13, <1>14, <1>15, <1>16 DEF Next, Step, RollBack, RecoverItem

(* Every state of the protocol is a state the code can store. *)
THEOREM TypeCorrect == Spec => []TypeOK
<1>1. Spec => []TypeInv
  BY InitTypeInv, NextTypeInv, PTL DEF Spec
<1>2. TypeInv => TypeOK
  BY DEF TypeInv
<1> QED BY <1>1, <1>2, PTL

-----------------------------------------------------------------------------
(***************************************************************************)
(* The inductive invariant.  Control(j) ties the journal's state file to   *)
(* the place of its process.  Local(j) says what a transaction whose       *)
(* targets no later one took may rely on; it reads the files only at the   *)
(* targets of j, so the steps of the other transactions, whose targets are *)
(* disjoint (Separate), preserve it.                                       *)
(***************************************************************************)
Control(j) ==
    /\ pc[j] = "idle" => state[j] = "none" /\ j \notin stale
    /\ pc[j] \in {"staging", "backing"} => state[j] = "unset"
    /\ pc[j] \in {"committing", "rollback"} => state[j] = "committing"
    /\ pc[j] = "recovering" => Replayable(j)
    /\ pc[j] = "cleanup" => state[j] = "committed"
    /\ pc[j] = "returned" => state[j] = "none"

Touched(j, p) == \E i \in 1..k[j] : plan[j][i].path = p

(* What the transaction began with. *)
BaseOK(j) ==
    pc[j] # "idle" =>
        /\ \A p \in Targets(j) : base[j][p] # Torn
        /\ \A i \in 1..Last(j) :
              plan[j][i].operation # "create" => base[j][plan[j][i].path] # Absent

(* The create-target check passed, so an undone create leaves no file. *)
CreatesOK(j) ==
    pc[j] = "backing" \/ Replayable(j) =>
        \A i \in 1..Last(j) :
            plan[j][i].operation = "create" => base[j][plan[j][i].path] = Absent

BackupOK(j) ==
    /\ pc[j] = "backing" =>
          \A i \in 1..k[j] : backup[j][plan[j][i].path] = base[j][plan[j][i].path]
    /\ Replayable(j) =>
          \A i \in 1..Last(j) : backup[j][plan[j][i].path] = base[j][plan[j][i].path]

(* The targets the loop has not reached (or has undone) are as they were. *)
UntouchedOK(j) ==
    /\ pc[j] \in {"staging", "backing"} => Before(j)
    /\ pc[j] \in {"committing", "rollback", "recovering"} =>
          \A p \in Targets(j) : ~Touched(j, p) => disk[p] = base[j][p]

(* The targets the loop has replaced hold the last content written to them. *)
ReplacedOK(j) ==
    pc[j] = "committing" =>
        /\ \A p \in Targets(j) : disk[p] # Torn
        /\ \A i \in 1..k[j] :
              (\A m \in (i + 1)..k[j] : plan[j][m].path # plan[j][i].path)
                  => disk[plan[j][i].path] = plan[j][i].content

OutcomeOK(j) ==
    /\ pc[j] \in {"cleanup", "returned"} => After(j)
    /\ pc[j] = "raised" => Before(j)
    /\ pc[j] = "abandoned" /\ ~Replayable(j) => Before(j) \/ After(j)

(* A recovered journal's targets are as they were, but for a copy that a    *)
(* second recovery left torn.                                               *)
RecoveredOK(j) ==
    state[j] = "recovered" => \A p \in Targets(j) : disk[p] \in {base[j][p], Torn}

Local(j) ==
    /\ BaseOK(j)
    /\ CreatesOK(j)
    /\ BackupOK(j)
    /\ UntouchedOK(j)
    /\ ReplacedOK(j)
    /\ OutcomeOK(j)
    /\ RecoveredOK(j)

Separate ==
    \A i, j \in Journal \ stale :
        i # j /\ pc[i] # "idle" /\ pc[j] # "idle" => Targets(i) \cap Targets(j) = {}

UnsettledFresh == \A j \in Journal : Unsettled(j) => j \notin stale

IInv ==
    /\ TypeInv
    /\ Separate
    /\ UnsettledFresh
    /\ TornIsJournaled
    /\ \A j \in Journal : Control(j)
    /\ \A j \in Journal \ stale : Local(j)

-----------------------------------------------------------------------------
(* Local(i) reads only the variables of i and the files at its targets. *)
LEMMA Frame ==
  ASSUME TypeInv, NEW i \in Journal, Local(i),
         pc'[i] = pc[i], state'[i] = state[i], plan'[i] = plan[i],
         backup'[i] = backup[i], k'[i] = k[i], base'[i] = base[i],
         \A p \in Targets(i) : disk'[p] = disk[p]
  PROVE  Local(i)'
<1>1. /\ Targets(i)' = Targets(i)
      /\ Last(i)' = Last(i)
      /\ Replayable(i)' <=> Replayable(i)
      /\ Before(i)' <=> Before(i)
  BY DEF Targets, Last, Replayable, Before
<1>2. \A n \in 1..Last(i) : plan[i][n].path \in Targets(i)
  BY WriteType DEF TypeInv, Last
<1>3. After(i)' <=> After(i)
  BY <1>1, <1>2 DEF After
<1>4. k[i] \in Nat /\ Last(i) \in Nat /\ k[i] <= Last(i)
  BY DEF TypeInv, TypeOK, IndexOK, Last
<1>5. BaseOK(i)' /\ CreatesOK(i)' /\ BackupOK(i)'
  BY <1>1 DEF Local, BaseOK, CreatesOK, BackupOK
<1>6. UntouchedOK(i)'
  BY <1>1 DEF Local, UntouchedOK, Touched
<1>7. ReplacedOK(i)'
  <2>1. \A n \in 1..k[i] : plan[i][n].path \in Targets(i)
    BY <1>2, <1>4
  <2> QED BY <1>1, <2>1 DEF Local, ReplacedOK
<1>8. OutcomeOK(i)'
  BY <1>1, <1>3 DEF Local, OutcomeOK
<1>9. RecoveredOK(i)'
  BY <1>1 DEF Local, RecoveredOK
<1> QED BY <1>5, <1>6, <1>7, <1>8, <1>9 DEF Local

(* A journal that need not be recovered has no torn target. *)
LEMMA NoTorn ==
  ASSUME IInv, NEW j \in Journal \ stale, pc[j] # "idle", ~Replayable(j)
  PROVE  \A p \in Targets(j) : disk[p] # Torn
<1> SUFFICES ASSUME NEW p \in Targets(j), disk[p] = Torn PROVE FALSE
  OBVIOUS
<1>1. p \in Path
  BY TargetsArePaths DEF IInv, TypeInv
<1>2. PICK i \in Journal \ stale : Unsettled(i) /\ Replayable(i) /\ p \in Targets(i)
  BY <1>1 DEF IInv, TornIsJournaled
<1>3. i # j /\ pc[i] # "idle"
  BY <1>2 DEF Unsettled, Running
<1> QED BY <1>2, <1>3 DEF IInv, Separate

(* Undoing a write of a journal puts its target back as it was. *)
LEMMA UndoneIsBase ==
  ASSUME TypeInv, NEW j \in Journal, Local(j), Replayable(j), pc[j] # "idle",
         NEW i \in 1..Last(j)
  PROVE  Undone(j, i) = base[j][plan[j][i].path]
<1>1. plan[j][i].operation \in {"create", "update"}
  BY WriteType DEF TypeInv, Last, Write
<1> QED BY <1>1 DEF Local, BaseOK, CreatesOK, BackupOK, Undone

(* The obligations of a step of one transaction, but for beginning it. *)
LEMMA SafeStep ==
  ASSUME IInv, TypeInv', NEW j \in Journal \ stale,
         pc[j] # "idle", pc'[j] # "idle",
         UNCHANGED <<plan, base, stale>>,
         \A i \in Journal \ {j} : /\ pc'[i] = pc[i] /\ state'[i] = state[i]
                                  /\ backup'[i] = backup[i] /\ k'[i] = k[i],
         \A p \in Path \ Targets(j) : disk'[p] = disk[p],
         Control(j)', Local(j)',
         (\A p \in Targets(j) : disk'[p] # Torn) \/ (Unsettled(j) /\ Replayable(j))'
  PROVE  IInv'
<1>1. \A i \in Journal : Targets(i)' = Targets(i)
  BY DEF Targets
<1>2. \A i \in Journal \ {j} :
         /\ Unsettled(i)' <=> Unsettled(i)
         /\ Replayable(i)' <=> Replayable(i)
         /\ Control(i)' <=> Control(i)
  BY DEF Unsettled, Replayable, Control
<1>3. Separate'
  BY <1>1 DEF IInv, Separate
<1>4. UnsettledFresh'
  BY <1>2 DEF IInv, UnsettledFresh
<1>5. TornIsJournaled'
  <2> SUFFICES ASSUME NEW p \in Path, disk'[p] = Torn
               PROVE  \E i \in Journal \ stale :
                         (Unsettled(i) /\ Replayable(i) /\ p \in Targets(i))'
    BY DEF TornIsJournaled
  <2>1. CASE p \in Targets(j)
    BY <2>1, <1>1
  <2>2. CASE p \notin Targets(j)
    <3>1. PICK i \in Journal \ stale : Unsettled(i) /\ Replayable(i) /\ p \in Targets(i)
      BY <2>2 DEF IInv, TornIsJournaled
    <3>2. i # j
      BY <2>2, <3>1
    <3> QED BY <3>1, <3>2, <1>1, <1>2
  <2> QED BY <2>1, <2>2
<1>6. ASSUME NEW i \in Journal PROVE Control(i)'
  BY <1>2 DEF IInv
<1>7. ASSUME NEW i \in Journal \ stale PROVE Local(i)'
  <2>1. CASE i = j
    BY <2>1
  <2>2. CASE i # j /\ pc[i] # "idle"
    <3>1. Targets(i) \subseteq Path
      BY TargetsArePaths DEF IInv, TypeInv
    <3>2. Targets(i) \cap Targets(j) = {}
      BY <2>2 DEF IInv, Separate
    <3>3. \A p \in Targets(i) : disk'[p] = disk[p]
      BY <3>1, <3>2
    <3>4. TypeInv /\ Local(i)
      BY DEF IInv
    <3> QED BY <2>2, <3>3, <3>4, Frame
  <2>3. CASE i # j /\ pc[i] = "idle"
    BY <2>3, <1>2 DEF IInv, Control, Local, BaseOK, CreatesOK, BackupOK, UntouchedOK,
                      ReplacedOK, OutcomeOK, RecoveredOK,
                      Replayable
  <2> QED BY <2>1, <2>2, <2>3
<1> QED BY <1>3, <1>4, <1>5, <1>6, <1>7 DEF IInv

-----------------------------------------------------------------------------
(* The step lemmas: each action of a transaction preserves IInv. *)
LEMMA BeginSafe ==
  ASSUME IInv, TypeInv', NoOverlap, NEW j \in Journal, NEW w \in Plans, Begin(j, w)
  PROVE  IInv'
<1>1. /\ plan'[j] = w /\ pc'[j] = "staging" /\ state'[j] = "unset" /\ base'[j] = disk
      /\ Targets(j)' = TargetsOf(w) /\ pc[j] = "idle" /\ j \notin stale /\ j \notin stale'
  BY DEF Begin, IInv, TypeInv, TypeOK, Control, Targets
<1>2. ASSUME NEW i \in Journal \ {j}
      PROVE  /\ Targets(i)' = Targets(i)
             /\ Unsettled(i)' <=> Unsettled(i)
             /\ Replayable(i)' <=> Replayable(i)
             /\ pc'[i] = pc[i] /\ state'[i] = state[i] /\ plan'[i] = plan[i]
             /\ backup'[i] = backup[i] /\ k'[i] = k[i] /\ base'[i] = base[i]
             /\ i \in stale' <=>
                   i \in stale \/ (pc[i] # "idle" /\ Targets(i) \cap TargetsOf(w) # {})
             /\ Unsettled(i) => Targets(i) \cap TargetsOf(w) = {}
  BY DEF Begin, MayBegin, IInv, TypeInv, TypeOK, Targets, Unsettled, Replayable
<1>3. disk' = disk
  BY DEF Begin
<1>4. Separate'
  BY <1>1, <1>2 DEF IInv, Separate
<1>5. UnsettledFresh'
  <2> SUFFICES ASSUME NEW i \in Journal, Unsettled(i)' PROVE i \notin stale'
    BY DEF UnsettledFresh
  <2>1. CASE i = j
    BY <2>1, <1>1
  <2>2. CASE i # j
    BY <2>2, <1>2 DEF IInv, UnsettledFresh
  <2> QED BY <2>1, <2>2
<1>6. \A p \in Path : disk[p] = Torn =>
         \E i \in Journal \ stale : i # j /\ Unsettled(i) /\ Replayable(i) /\ p \in Targets(i)
  BY <1>1 DEF IInv, TornIsJournaled, Unsettled, Running
<1>7. TornIsJournaled'
  <2> SUFFICES ASSUME NEW p \in Path, disk'[p] = Torn
               PROVE  \E i \in Journal \ stale' :
                         (Unsettled(i) /\ Replayable(i) /\ p \in Targets(i))'
    BY DEF TornIsJournaled
  <2>1. PICK i \in Journal \ stale : i # j /\ Unsettled(i) /\ Replayable(i) /\ p \in Targets(i)
    BY <1>3, <1>6
  <2> QED BY <2>1, <1>2
<1>8. ASSUME NEW i \in Journal PROVE Control(i)'
  <2>1. CASE i = j
    BY <2>1, <1>1 DEF Control
  <2>2. CASE i # j
    BY <2>2, <1>2 DEF IInv, Control
  <2> QED BY <2>1, <2>2
<1>9. ASSUME NEW i \in Journal \ stale' PROVE Local(i)'
  <2>1. CASE i = j
    <3>1. \A p \in TargetsOf(w) : p \in Path
      BY PathsOfWrites
    <3>2. \A p \in TargetsOf(w) : disk[p] # Torn
      BY <3>1, <1>6, <1>2
    <3>3. BaseOK(j)'
      BY <1>1, <3>2 DEF Begin, BaseOK, Last, IInv, TypeInv, TypeOK
    <3>4. Before(j)'
      BY <1>1, <1>3 DEF Before
    <3> QED BY <2>1, <1>1, <3>3, <3>4
            DEF Local, CreatesOK, BackupOK, UntouchedOK, ReplacedOK, OutcomeOK, RecoveredOK,
                      Replayable
  <2>2. CASE i # j
    <3>1. i \notin stale /\ TypeInv /\ Local(i)
      BY <2>2, <1>2 DEF IInv
    <3> QED BY <2>2, <3>1, <1>2, <1>3, Frame
  <2> QED BY <2>1, <2>2
<1> QED BY <1>4, <1>5, <1>7, <1>8, <1>9 DEF IInv

LEMMA RecoverStartSafe ==
  ASSUME IInv, TypeInv', FreshRecovery, NEW j \in Journal, RecoverStart(j)
  PROVE  IInv'
<1> USE DEF RecoverStart
<1>1. /\ j \in Journal \ stale /\ pc'[j] = "recovering" /\ pc[j] \in {"raised", "abandoned"}
      /\ k'[j] = Last(j) /\ Last(j)' = Last(j) /\ Targets(j)' = Targets(j)
      /\ Replayable(j) /\ Replayable(j)'
  BY DEF MayRecover, IInv, TypeInv, TypeOK, Last, Targets, Replayable
<1>2. Local(j) /\ TypeInv
  BY <1>1 DEF IInv
<1>3. Control(j)' /\ Unsettled(j)'
  BY <1>1 DEF Control, Unsettled, Running
<1>4. \A p \in Targets(j) : Touched(j, p)'
  BY <1>1 DEF Touched, Targets, TargetsOf, Last, IInv, TypeInv, TypeOK
<1>5. BaseOK(j)' /\ CreatesOK(j)' /\ BackupOK(j)'
  BY <1>1, <1>2 DEF Local, BaseOK, CreatesOK, BackupOK
<1>6. UntouchedOK(j)' /\ ReplacedOK(j)' /\ OutcomeOK(j)'
  BY <1>1, <1>4 DEF UntouchedOK, ReplacedOK, OutcomeOK
<1>7. RecoveredOK(j)'
  BY <1>2 DEF Local, RecoveredOK, Targets
<1>8. Local(j)'
  BY <1>5, <1>6, <1>7 DEF Local
<1> QED BY <1>1, <1>3, <1>8, SafeStep DEF IInv, TypeInv, TypeOK

LEMMA StageSafe ==
  ASSUME IInv, TypeInv', NEW j \in Journal, Stage(j)
  PROVE  IInv'
<1> USE DEF Stage
<1>1. /\ j \in Journal \ stale /\ pc[j] = "staging" /\ pc'[j] = "backing" /\ k'[j] = 0
      /\ state'[j] = "unset" /\ ~Replayable(j)
  BY DEF IInv, TypeInv, TypeOK, UnsettledFresh, Unsettled, Running, Control, Replayable
<1>2. Local(j) /\ Before(j)
  BY <1>1 DEF IInv, Local, UntouchedOK
<1>3. Before(j)' /\ Control(j)' /\ ~Replayable(j)'
  BY <1>1, <1>2 DEF Before, Targets, Control, Replayable
<1>4. \A i \in 1..Last(j) : plan[j][i].operation = "create" => base[j][plan[j][i].path] = Absent
  BY <1>2, WriteType DEF Before, Last, IInv, TypeInv, TypeOK
<1>5. Local(j)'
  BY <1>1, <1>2, <1>3, <1>4 DEF Local, BaseOK, CreatesOK, BackupOK, UntouchedOK, ReplacedOK,
       OutcomeOK, RecoveredOK, Replayable, Targets, Last
<1>6. \A p \in Targets(j) : disk'[p] # Torn
  BY <1>1, NoTorn
<1> QED BY <1>1, <1>3, <1>5, <1>6, SafeStep DEF IInv, TypeInv, TypeOK

LEMMA AbortSafe ==
  ASSUME IInv, TypeInv', NEW j \in Journal, AbortBeforeCommit(j)
  PROVE  IInv'
<1> USE DEF AbortBeforeCommit
<1>1. /\ j \in Journal \ stale /\ pc[j] \in {"staging", "backing"} /\ pc'[j] = "raised"
      /\ state'[j] = "unset" /\ ~Replayable(j)
  BY DEF IInv, TypeInv, TypeOK, UnsettledFresh, Unsettled, Running, Control, Replayable
<1>2. Local(j) /\ Before(j)
  BY <1>1 DEF IInv, Local, UntouchedOK
<1>3. Before(j)' /\ Control(j)' /\ ~Replayable(j)'
  BY <1>1, <1>2 DEF Before, Targets, Control, Replayable
<1>4. Local(j)'
  BY <1>1, <1>2, <1>3 DEF Local, BaseOK, CreatesOK, BackupOK, UntouchedOK, ReplacedOK,
       OutcomeOK, RecoveredOK, Replayable, Targets, Last
<1>5. \A p \in Targets(j) : disk'[p] # Torn
  BY <1>1, NoTorn
<1> QED BY <1>1, <1>3, <1>4, <1>5, SafeStep DEF IInv, TypeInv, TypeOK

LEMMA BackUpSafe ==
  ASSUME IInv, TypeInv', NEW j \in Journal, BackUp(j)
  PROVE  IInv'
<1> USE DEF BackUp
<1>1. /\ j \in Journal \ stale /\ pc[j] = "backing" /\ pc'[j] = "backing"
      /\ state'[j] = "unset" /\ ~Replayable(j) /\ k[j] \in Nat /\ k[j] < Last(j)
      /\ k'[j] = k[j] + 1
  BY DEF IInv, TypeInv, TypeOK, UnsettledFresh, Unsettled, Running, Control, Replayable
<1>2. Local(j) /\ Before(j) /\ BackupOK(j)
  BY <1>1 DEF IInv, Local, UntouchedOK
<1>3. Before(j)' /\ Control(j)' /\ ~Replayable(j)'
  BY <1>1, <1>2 DEF Before, Targets, Control, Replayable
<1> DEFINE p == plan[j][k[j] + 1].path
<1>4. p \in Path /\ disk[p] = base[j][p]
  BY <1>1, <1>2, WriteType DEF Before, Last, IInv, TypeInv
<1>5. backup' = [backup EXCEPT ![j] = [backup[j] EXCEPT ![p] = base[j][p]]]
  BY <1>4
<1>6. \A q \in Path : backup'[j][q] = IF q = p THEN base[j][p] ELSE backup[j][q]
  BY <1>4, <1>5 DEF IInv, TypeInv, TypeOK
<1>7. \A i \in 1..k'[j] : backup'[j][plan[j][i].path] = base[j][plan[j][i].path]
  BY <1>1, <1>2, <1>6, WriteType DEF BackupOK, Last, IInv, TypeInv
<1>8. Local(j)'
  BY <1>1, <1>2, <1>3, <1>7 DEF Local, BaseOK, CreatesOK, BackupOK, UntouchedOK, ReplacedOK,
       OutcomeOK, RecoveredOK, Replayable, Targets, Last
<1>9. \A q \in Targets(j) : disk'[q] # Torn
  BY <1>1, NoTorn
<1>10. \A i \in Journal \ {j} : backup'[i] = backup[i] /\ k'[i] = k[i]
  BY DEF IInv, TypeInv, TypeOK
<1> QED BY <1>1, <1>3, <1>8, <1>9, <1>10, SafeStep DEF IInv, TypeInv, TypeOK

LEMMA WriteManifestSafe ==
  ASSUME IInv, TypeInv', NEW j \in Journal, WriteManifest(j)
  PROVE  IInv'
<1> USE DEF WriteManifest
<1>1. /\ j \in Journal \ stale /\ pc[j] = "backing" /\ pc'[j] = "committing"
      /\ state'[j] = "committing" /\ ~Replayable(j) /\ k[j] = Last(j) /\ k'[j] = 0
  BY DEF IInv, TypeInv, TypeOK, UnsettledFresh, Unsettled, Running, Control, Replayable
<1>2. Local(j) /\ Before(j)
  BY <1>1 DEF IInv, Local, UntouchedOK
<1>3. Before(j)' /\ Control(j)'
  BY <1>1, <1>2 DEF Before, Targets, Control
<1>4. \A p \in Targets(j) : disk'[p] # Torn
  BY <1>1, NoTorn
<1>5. BaseOK(j)' /\ CreatesOK(j)' /\ BackupOK(j)'
  BY <1>1, <1>2 DEF Local, BaseOK, CreatesOK, BackupOK, Targets, Last
<1>6. UntouchedOK(j)' /\ ReplacedOK(j)' /\ OutcomeOK(j)' /\ RecoveredOK(j)'
  BY <1>1, <1>3, <1>4 DEF UntouchedOK, ReplacedOK, OutcomeOK, RecoveredOK, Before, Targets
<1> QED BY <1>1, <1>3, <1>4, <1>5, <1>6, SafeStep DEF Local, IInv, TypeInv, TypeOK

LEMMA MakeTempSafe ==
  ASSUME IInv, TypeInv', NEW j \in Journal, MakeTemp(j)
  PROVE  IInv'
<1> USE DEF MakeTemp
<1>1. j \in Journal \ stale /\ pc[j] = "committing" /\ Unsettled(j)' /\ Replayable(j)'
  BY DEF IInv, UnsettledFresh, Unsettled, Running, Control, Replayable
<1>2. Local(j)' /\ Control(j)'
  BY <1>1, Frame DEF IInv, Control, Replayable
<1> QED BY <1>1, <1>2, SafeStep

LEMMA ReplaceSafe ==
  ASSUME IInv, TypeInv', NEW j \in Journal, Replace(j)
  PROVE  IInv'
<1> USE DEF Replace
<1>1. /\ j \in Journal \ stale /\ pc[j] = "committing" /\ pc'[j] = "committing"
      /\ state[j] = "committing" /\ state'[j] = "committing" /\ k[j] \in Nat
      /\ k[j] + 1 \in 1..Len(plan[j]) /\ k'[j] = k[j] + 1
  BY DEF IInv, TypeInv, TypeOK, UnsettledFresh, Unsettled, Running, Control, Last
<1>2. Local(j) /\ TypeOK
  BY <1>1 DEF IInv, TypeInv
<1> DEFINE w == plan[j][k[j] + 1]
<1>3. w.path \in Path /\ w.path \in Targets(j) /\ w.content \in Bytes
  BY <1>1, <1>2, WriteType
<1>4. \A q \in Path : disk'[q] = IF q = w.path THEN w.content ELSE disk[q]
  BY <1>2, <1>3 DEF TypeOK
<1>5. \A i \in 1..k'[j] : plan[j][i].path \in Path
  BY <1>1, <1>2, WriteType
<1>6. BaseOK(j)' /\ CreatesOK(j)' /\ BackupOK(j)' /\ OutcomeOK(j)' /\ RecoveredOK(j)'
  BY <1>1, <1>2 DEF Local, BaseOK, CreatesOK, BackupOK, OutcomeOK, RecoveredOK,
       Replayable, Targets, Last
<1>7. UntouchedOK(j)'
  <2>1. ASSUME NEW p \in Targets(j), ~Touched(j, p)' PROVE disk'[p] = base[j][p]
    <3>1. p # w.path /\ ~Touched(j, p)
      BY <1>1, <2>1 DEF Touched
    <3>2. p \in Path
      BY <1>2, TargetsArePaths
    <3> QED BY <1>1, <1>2, <1>4, <3>1, <3>2 DEF Local, UntouchedOK
  <2> QED BY <1>1, <2>1 DEF UntouchedOK, Targets
<1>8. \A p \in Targets(j) : disk'[p] # Torn
  BY <1>1, <1>2, <1>3, <1>4, TargetsArePaths DEF Local, ReplacedOK
<1>9. ReplacedOK(j)'
  <2>1. ASSUME NEW i \in 1..k'[j], \A m \in (i + 1)..k'[j] : plan[j][m].path # plan[j][i].path
        PROVE  disk'[plan[j][i].path] = plan[j][i].content
    <3>1. CASE i = k[j] + 1
      BY <1>3, <1>4, <3>1
    <3>2. CASE i # k[j] + 1
      <4>1. i \in 1..k[j] /\ plan[j][i].path # w.path
        <5>1. i \in 1..k[j] /\ k[j] + 1 \in (i + 1)..k'[j]
          BY <1>1, <3>2
        <5> QED BY <2>1, <5>1
      <4>2. \A m \in (i + 1)..k[j] : plan[j][m].path # plan[j][i].path
        <5>1. \A m \in (i + 1)..k[j] : m \in (i + 1)..k'[j]
          BY <1>1, <4>1
        <5> QED BY <2>1, <5>1
      <4>3. ReplacedOK(j)
        BY <1>2 DEF Local
      <4>4. disk[plan[j][i].path] = plan[j][i].content
        BY <1>1, <4>1, <4>2, <4>3 DEF ReplacedOK
      <4> QED BY <1>4, <1>5, <4>1, <4>4
    <3> QED BY <3>1, <3>2
  <2> QED BY <1>1, <1>8, <2>1 DEF ReplacedOK, Targets
<1>10. Local(j)' /\ Control(j)'
  BY <1>1, <1>6, <1>7, <1>9 DEF Local, Control
<1>11. \A i \in Journal \ {j} : k'[i] = k[i]
  BY <1>2 DEF TypeOK
<1>12. \A p \in Path \ Targets(j) : disk'[p] = disk[p]
  BY <1>3, <1>4
<1> QED BY <1>1, <1>8, <1>10, <1>11, <1>12, SafeStep

LEMMA CommitFailsSafe ==
  ASSUME IInv, TypeInv', NEW j \in Journal, CommitFails(j)
  PROVE  IInv'
<1> USE DEF CommitFails
<1>1. /\ j \in Journal \ stale /\ pc[j] = "committing" /\ pc'[j] = "rollback"
      /\ state[j] = "committing" /\ Unsettled(j)' /\ Replayable(j)' /\ Replayable(j)
  BY DEF IInv, TypeInv, TypeOK, UnsettledFresh, Unsettled, Running, Control, Replayable
<1>2. Local(j)
  BY <1>1 DEF IInv
<1>3. Local(j)'
  BY <1>1, <1>2 DEF Local, BaseOK, CreatesOK, BackupOK, UntouchedOK, ReplacedOK, OutcomeOK,
       RecoveredOK,
       Targets, Last, Touched
<1>4. Control(j)'
  BY <1>1 DEF Control
<1> QED BY <1>1, <1>3, <1>4, SafeStep DEF IInv, TypeInv, TypeOK

LEMMA UndoItemSafe ==
  ASSUME IInv, TypeInv', NEW j \in Journal, pc[j] \in {"rollback", "recovering"},
         k[j] > 0, UndoItem(j)
  PROVE  IInv'
<1> USE DEF UndoItem
<1>1. /\ j \in Journal \ stale /\ pc'[j] = pc[j] /\ state'[j] = state[j]
      /\ Unsettled(j)' /\ Replayable(j)' /\ Replayable(j)
      /\ k[j] \in 1..Len(plan[j]) /\ k'[j] = k[j] - 1
  BY DEF IInv, TypeInv, TypeOK, IndexOK, UnsettledFresh, Unsettled, Running, Control, Replayable
<1>2. Local(j) /\ TypeInv /\ TypeOK
  BY <1>1 DEF IInv, TypeInv
<1> DEFINE p == plan[j][k[j]].path
<1>3. p \in Path /\ p \in Targets(j)
  BY <1>1, <1>2, WriteType
<1>4. Undone(j, k[j]) = base[j][p]
  BY <1>1, <1>2, UndoneIsBase DEF Last
<1>5. \A q \in Path : disk'[q] = IF q = p THEN base[j][p] ELSE disk[q]
  BY <1>2, <1>3, <1>4 DEF TypeOK
<1>6. BaseOK(j)' /\ CreatesOK(j)' /\ BackupOK(j)' /\ OutcomeOK(j)' /\ ReplacedOK(j)'
  BY <1>1, <1>2 DEF Local, BaseOK, CreatesOK, BackupOK, OutcomeOK, ReplacedOK, Targets, Last
<1>7. UntouchedOK(j)'
  <2>1. ASSUME NEW q \in Targets(j), ~Touched(j, q)' PROVE disk'[q] = base[j][q]
    <3>1. q \in Path
      BY <1>2, TargetsArePaths
    <3>2. CASE q = p
      BY <1>5, <3>1, <3>2
    <3>3. CASE q # p
      <4>1. ~Touched(j, q)
        BY <1>1, <2>1, <3>3 DEF Touched
      <4> QED BY <1>2, <1>5, <3>1, <3>3, <4>1 DEF Local, UntouchedOK
    <3> QED BY <3>2, <3>3
  <2> QED BY <1>1, <2>1 DEF UntouchedOK, Targets
<1>8. RecoveredOK(j)'
  BY <1>1, <1>2, <1>5, TargetsArePaths DEF Local, RecoveredOK, Targets
<1>9. Local(j)' /\ Control(j)'
  BY <1>1, <1>2, <1>6, <1>7, <1>8 DEF Local, Control, IInv
<1>10. \A i \in Journal \ {j} : k'[i] = k[i]
  BY <1>2 DEF TypeOK
<1>11. \A q \in Path \ Targets(j) : disk'[q] = disk[q]
  BY <1>3, <1>5
<1> QED BY <1>1, <1>9, <1>10, <1>11, SafeStep

(* When an undoing loop has come to its end every target is as it was. *)
LEMMA AllUndone ==
  ASSUME IInv, NEW j \in Journal \ stale, pc[j] \in {"rollback", "recovering"}, k[j] = 0
  PROVE  Before(j) /\ \A p \in Targets(j) : disk[p] # Torn
<1>1. Local(j)
  BY DEF IInv
<1>2. Before(j)
  BY <1>1 DEF Local, UntouchedOK, Touched, Before
<1> QED BY <1>1, <1>2 DEF Local, BaseOK, Before

(* When the commit loop has come to its end every target is written. *)
LEMMA AllReplaced ==
  ASSUME IInv, NEW j \in Journal \ stale, pc[j] = "committing", k[j] = Last(j)
  PROVE  After(j) /\ \A p \in Targets(j) : disk[p] # Torn
  BY DEF IInv, Local, ReplacedOK, After, LastWrite, Last

LEMMA UndoneSafe ==
  ASSUME IInv, TypeInv', NEW j \in Journal, RollBackDone(j) \/ RecoverDone(j)
  PROVE  IInv'
<1> USE DEF RollBackDone, RecoverDone
<1>1. /\ j \in Journal \ stale /\ pc[j] \in {"rollback", "recovering"} /\ k[j] = 0
      /\ pc'[j] = "raised" /\ state'[j] = "recovered" /\ Replayable(j)
  BY DEF IInv, TypeInv, TypeOK, UnsettledFresh, Unsettled, Running, Control, Replayable
<1>2. Local(j) /\ Before(j) /\ \A p \in Targets(j) : disk[p] # Torn
  BY <1>1, AllUndone DEF IInv
<1>3. Before(j)' /\ Control(j)'
  BY <1>1, <1>2 DEF Before, Targets, Control
<1>4. RecoveredOK(j)'
  BY <1>2 DEF RecoveredOK, Before, Targets
<1>5. Local(j)'
  BY <1>1, <1>2, <1>3, <1>4 DEF Local, BaseOK, CreatesOK, BackupOK, UntouchedOK, ReplacedOK,
       OutcomeOK, Replayable, Targets, Last
<1> QED BY <1>1, <1>2, <1>3, <1>5, SafeStep DEF IInv, TypeInv, TypeOK

LEMMA CommitDoneSafe ==
  ASSUME IInv, TypeInv', NEW j \in Journal, CommitDone(j)
  PROVE  IInv'
<1> USE DEF CommitDone
<1>1. /\ j \in Journal \ stale /\ pc[j] = "committing" /\ k[j] = Last(j)
      /\ pc'[j] = "cleanup" /\ state'[j] = "committed" /\ ~Replayable(j)'
  BY DEF IInv, TypeInv, TypeOK, UnsettledFresh, Unsettled, Running, Replayable
<1>2. Local(j) /\ After(j) /\ \A p \in Targets(j) : disk[p] # Torn
  BY <1>1, AllReplaced DEF IInv
<1>3. After(j)' /\ Control(j)'
  BY <1>1, <1>2 DEF After, Last, Control
<1>4. Local(j)'
  BY <1>1, <1>2, <1>3 DEF Local, BaseOK, CreatesOK, BackupOK, UntouchedOK, ReplacedOK,
       OutcomeOK, RecoveredOK, Replayable, Targets, Last
<1> QED BY <1>1, <1>2, <1>3, <1>4, SafeStep DEF IInv, TypeInv, TypeOK

LEMMA CleanupSafe ==
  ASSUME IInv, TypeInv', NEW j \in Journal, RemoveJournal(j) \/ CrashInCleanup(j)
  PROVE  IInv'
<1> USE DEF RemoveJournal, CrashInCleanup
<1>1. /\ j \in Journal \ stale /\ pc[j] = "cleanup" /\ pc'[j] \in {"returned", "abandoned"}
      /\ state'[j] = "none" /\ ~Replayable(j)' /\ ~Replayable(j)
  BY DEF IInv, TypeInv, TypeOK, UnsettledFresh, Unsettled, Running, Control, Replayable
<1>2. Local(j) /\ After(j) /\ \A p \in Targets(j) : disk[p] # Torn
  BY <1>1, NoTorn DEF IInv, Local, OutcomeOK
<1>3. After(j)' /\ Control(j)'
  BY <1>1, <1>2 DEF After, Last, Control
<1>4. Local(j)'
  BY <1>1, <1>2, <1>3 DEF Local, BaseOK, CreatesOK, BackupOK, UntouchedOK, ReplacedOK,
       OutcomeOK, RecoveredOK, Replayable, Targets, Last
<1> QED BY <1>1, <1>2, <1>3, <1>4, SafeStep DEF IInv, TypeInv, TypeOK

LEMMA CrashSafe ==
  ASSUME IInv, TypeInv', NEW j \in Journal, Crash(j)
  PROVE  IInv'
<1> USE DEF Crash
<1>1. /\ j \in Journal \ stale /\ pc[j] \in Running /\ pc[j] # "idle"
      /\ pc'[j] = "abandoned"
      /\ Replayable(j)' <=> Replayable(j)
  BY DEF IInv, TypeInv, TypeOK, UnsettledFresh, Unsettled, Running, Control, Replayable
<1>2. Local(j) /\ Control(j)
  BY <1>1 DEF IInv
<1>3. Before(j)' <=> Before(j)
  BY DEF Before, Targets
<1>4. After(j)' <=> After(j)
  BY DEF After, Last
<1>5. ~Replayable(j) => Before(j) \/ After(j)
  BY <1>1, <1>2 DEF Local, Control, Running, Replayable, UntouchedOK, OutcomeOK
<1>6. BaseOK(j)' /\ CreatesOK(j)' /\ BackupOK(j)'
  BY <1>1, <1>2 DEF Local, BaseOK, CreatesOK, BackupOK, Targets, Last
<1>7. UntouchedOK(j)' /\ ReplacedOK(j)' /\ OutcomeOK(j)' /\ Control(j)' /\ RecoveredOK(j)'
  BY <1>1, <1>2, <1>3, <1>4, <1>5 DEF UntouchedOK, ReplacedOK, OutcomeOK, Control,
       Local, RecoveredOK, Targets
<1>8. (\A p \in Targets(j) : disk'[p] # Torn) \/ (Unsettled(j) /\ Replayable(j))'
  BY <1>1, NoTorn DEF Unsettled
<1> QED BY <1>1, <1>6, <1>7, <1>8, SafeStep DEF Local, IInv, TypeInv, TypeOK

LEMMA CrashInCopySafe ==
  ASSUME IInv, TypeInv', NEW j \in Journal, CrashInCopy(j)
  PROVE  IInv'
<1> USE DEF CrashInCopy
<1>1. /\ j \in Journal \ stale /\ pc[j] \in {"rollback", "recovering"}
      /\ pc'[j] = "abandoned" /\ Replayable(j)' /\ Replayable(j) /\ Unsettled(j)'
      /\ k[j] \in 1..Len(plan[j])
  BY DEF IInv, TypeInv, TypeOK, IndexOK, UnsettledFresh, Unsettled, Running, Control, Replayable
<1>2. Local(j) /\ TypeOK
  BY <1>1 DEF IInv, TypeInv
<1>3. plan[j][k[j]].path \in Targets(j)
  BY <1>1, <1>2, WriteType
<1>4. BaseOK(j)' /\ CreatesOK(j)' /\ BackupOK(j)'
  BY <1>1, <1>2 DEF Local, BaseOK, CreatesOK, BackupOK, Targets, Last
<1>5. UntouchedOK(j)' /\ ReplacedOK(j)' /\ OutcomeOK(j)' /\ Control(j)'
  BY <1>1 DEF UntouchedOK, ReplacedOK, OutcomeOK, Control
<1>6. RecoveredOK(j)'
  BY <1>2, TargetsArePaths DEF Local, RecoveredOK, Targets, TypeOK
<1>7. \A p \in Path \ Targets(j) : disk'[p] = disk[p]
  BY <1>2, <1>3 DEF TypeOK
<1> QED BY <1>1, <1>4, <1>5, <1>6, <1>7, SafeStep DEF Local, IInv, TypeInv, TypeOK

LEMMA CrashInStateWriteSafe ==
  ASSUME IInv, TypeInv', NEW j \in Journal, CrashInStateWrite(j)
  PROVE  IInv'
<1> USE DEF CrashInStateWrite
<1>1. /\ j \in Journal \ stale /\ pc'[j] = "abandoned" /\ state'[j] = "unset"
      /\ ~Replayable(j)' /\ pc[j] # "idle"
      /\ \/ pc[j] = "committing" /\ k[j] = Last(j)
         \/ pc[j] \in {"rollback", "recovering"} /\ k[j] = 0
  BY DEF IInv, TypeInv, TypeOK, UnsettledFresh, Unsettled, Running, Replayable
<1>2. /\ Local(j)
      /\ Before(j) \/ After(j)
      /\ \A p \in Targets(j) : disk[p] # Torn
  BY <1>1, AllReplaced, AllUndone DEF IInv
<1>3. Before(j)' \/ After(j)'
  BY <1>2 DEF Before, After, Targets, Last
<1>4. BaseOK(j)' /\ CreatesOK(j)' /\ BackupOK(j)'
  BY <1>1, <1>2 DEF Local, BaseOK, CreatesOK, BackupOK, Targets, Last
<1>5. UntouchedOK(j)' /\ ReplacedOK(j)' /\ OutcomeOK(j)' /\ Control(j)' /\ RecoveredOK(j)'
  BY <1>1, <1>3 DEF UntouchedOK, ReplacedOK, OutcomeOK, RecoveredOK, Control
<1> QED BY <1>1, <1>2, <1>4, <1>5, SafeStep DEF Local, IInv, TypeInv, TypeOK

-----------------------------------------------------------------------------
LEMMA InitIInv == Init => IInv
<1> SUFFICES ASSUME Init PROVE IInv
  OBVIOUS
<1>1. TypeInv
  BY InitTypeInv
<1>2. \A j \in Journal : pc[j] = "idle" /\ state[j] = "none" /\ j \notin stale
  BY DEF Init
<1>3. \A j \in Journal : Control(j) /\ Local(j) /\ ~Unsettled(j)
  BY <1>2 DEF Control, Local, BaseOK, CreatesOK, BackupOK, UntouchedOK, ReplacedOK, OutcomeOK,
       RecoveredOK, Unsettled, Replayable, Running
<1>4. \A p \in Path : disk[p] # Torn
  BY DEF Init
<1> QED BY <1>1, <1>2, <1>3, <1>4 DEF IInv, Separate, UnsettledFresh, TornIsJournaled

LEMMA StutterIInv == IInv /\ UNCHANGED vars => IInv'
<1> SUFFICES ASSUME IInv, UNCHANGED vars PROVE IInv'
  OBVIOUS
<1> USE DEF vars
<1>1. TypeInv'
  BY NextTypeInv DEF IInv
<1>2. \A j \in Journal :
         /\ Targets(j)' = Targets(j) /\ (Unsettled(j)' <=> Unsettled(j))
         /\ (Replayable(j)' <=> Replayable(j)) /\ (Control(j)' <=> Control(j))
  BY DEF Targets, Unsettled, Replayable, Control
<1>3. \A j \in Journal \ stale : Local(j)'
  BY Frame DEF IInv
<1> QED BY <1>1, <1>2, <1>3 DEF IInv, Separate, UnsettledFresh, TornIsJournaled

LEMMA NextIInv ==
  ASSUME NoOverlap, FreshRecovery
  PROVE  IInv /\ [Next]_vars => IInv'
<1> SUFFICES ASSUME IInv, [Next]_vars PROVE IInv'
  OBVIOUS
<1>1. TypeInv'
  BY NextTypeInv DEF IInv
<1>2. CASE UNCHANGED vars
  BY <1>2, StutterIInv
<1>3. ASSUME NEW j \in Journal, NEW w \in Plans, Begin(j, w) PROVE IInv'
  BY <1>1, <1>3, BeginSafe
<1>4. ASSUME NEW j \in Journal, RecoverStart(j) PROVE IInv'
  BY <1>1, <1>4, RecoverStartSafe
<1>5. ASSUME NEW j \in Journal, Step(j) PROVE IInv'
  BY <1>1, <1>5, StageSafe, AbortSafe, BackUpSafe, WriteManifestSafe, MakeTempSafe,
     ReplaceSafe, CommitFailsSafe, UndoItemSafe, UndoneSafe, CommitDoneSafe, CleanupSafe
     DEF Step, RollBack, RecoverItem
<1>6. ASSUME NEW j \in Journal, Fault(j) PROVE IInv'
  BY <1>1, <1>6, CrashSafe, CrashInCopySafe, CrashInStateWriteSafe, CleanupSafe DEF Fault
<1> QED BY <1>2, <1>3, <1>4, <1>5, <1>6 DEF Next

LEMMA IInvImplies ==
  ASSUME IInv
  PROVE  AllOrNone /\ Recoverable /\ TornIsJournaled
<1>1. AllOrNone
  BY DEF IInv, Local, OutcomeOK, AllOrNone
<1>2. ASSUME NEW j \in Journal \ stale, Replayable(j), NEW i \in 1..Last(j)
      PROVE  Undone(j, i) = base[j][plan[j][i].path]
  <2>1. Control(j) /\ Local(j) /\ TypeInv
    BY DEF IInv
  <2>2. pc[j] # "idle"
    BY <1>2, <2>1 DEF Control, Replayable
  <2> QED BY <1>2, <2>1, <2>2, UndoneIsBase
<1>3. Recoverable
  BY <1>2 DEF Recoverable
<1> QED BY <1>1, <1>3 DEF IInv

(* Under the callers' discipline every transaction commits all of its       *)
(* writes or none: for any files, plans and number of transactions, across  *)
(* faults, crashes, torn copies and interrupted recoveries.                 *)
THEOREM CommitIsAllOrNone ==
  ASSUME NoOverlap, FreshRecovery
  PROVE  Spec => []AllOrNone
<1>1. Spec => []IInv
  BY InitIInv, NextIInv, PTL DEF Spec
<1>2. IInv => AllOrNone
  BY IInvImplies
<1> QED BY <1>1, <1>2, PTL

(* Until it is closed a journal can put every target back as it was, and no *)
(* torn file escapes the journals that still ask to be recovered.           *)
THEOREM AuthorityIsRecoverable ==
  ASSUME NoOverlap, FreshRecovery
  PROVE  Spec => [](Recoverable /\ TornIsJournaled)
<1>1. Spec => []IInv
  BY InitIInv, NextIInv, PTL DEF Spec
<1>2. IInv => Recoverable /\ TornIsJournaled
  BY IInvImplies
<1> QED BY <1>1, <1>2, PTL

LEMMA ReplaysOnlyCommittingStep ==
  ASSUME IInv, NEW j \in Journal
  PROVE  ReplaysOnlyCommitting(j)
<1> SUFFICES ASSUME RecoverItem(j), state[j] # "committing",
                    NEW p \in Path, disk[p] # Torn
             PROVE  disk'[p] = disk[p]
  BY DEF ReplaysOnlyCommitting
<1> USE DEF RecoverItem, UndoItem
<1>1. /\ j \in Journal \ stale /\ Replayable(j) /\ state[j] = "recovered" /\ pc[j] # "idle"
      /\ k[j] \in 1..Len(plan[j])
  BY DEF IInv, TypeInv, TypeOK, IndexOK, UnsettledFresh, Unsettled, Running, Control, Replayable
<1>2. Local(j) /\ TypeInv /\ TypeOK
  BY <1>1 DEF IInv, TypeInv
<1>3. Undone(j, k[j]) = base[j][plan[j][k[j]].path]
  BY <1>1, <1>2, UndoneIsBase DEF Last
<1>4. plan[j][k[j]].path \in Targets(j)
  BY <1>1, <1>2, WriteType
<1>5. p = plan[j][k[j]].path => disk[p] = base[j][p]
  BY <1>1, <1>2, <1>4 DEF Local, RecoveredOK
<1> QED BY <1>2, <1>3, <1>5 DEF TypeOK

(* A recovery that nobody asks of a superseded journal reverts nothing that *)
(* a rolled-back or recovered journal has already put back.                 *)
THEOREM RecoveryIsHarmless ==
  ASSUME NoOverlap, FreshRecovery
  PROVE  Spec => RestoresOnlyCommitting
<1>1. Spec => []IInv
  BY InitIInv, NextIInv, PTL DEF Spec
<1>2. IInv /\ [Next]_vars => [\A j \in Journal : ReplaysOnlyCommitting(j)]_vars
  BY ReplaysOnlyCommittingStep
<1> QED BY <1>1, <1>2, PTL DEF Spec, RestoresOnlyCommitting

-----------------------------------------------------------------------------
(***************************************************************************)
(* The refinement: a step of a transaction changes Settled only when it    *)
(* closes the journal after the last replacement, and then it is Apply.    *)
(***************************************************************************)
Seen(j, p) == IF Pending(j) THEN base[j][p] ELSE disk[p]

LEMMA SettledOn ==
  ASSUME IInv, NEW j \in Journal \ stale, pc[j] # "idle", NEW p \in Targets(j)
  PROVE  Settled[p] = Seen(j, p)
<1>1. p \in Path
  BY TargetsArePaths DEF IInv, TypeInv
<1>2. ASSUME NEW i \in Journal, Pending(i), p \in Targets(i) PROVE i = j
  BY <1>2 DEF IInv, Separate, UnsettledFresh, Pending, Unsettled, Running
<1> QED BY <1>1, <1>2 DEF Settled, Seen

LEMMA SettledOff ==
  ASSUME NEW p \in Path, \A j \in Journal : Pending(j) => p \notin Targets(j)
  PROVE  Settled[p] = disk[p]
  BY DEF Settled

LEMMA SettledType ==
  ASSUME IInv
  PROVE  Settled \in [Path -> Bytes \cup {Absent}]
<1> SUFFICES ASSUME NEW p \in Path PROVE Settled[p] \in Bytes \cup {Absent}
  BY DEF Settled
<1>1. CASE \E j \in Journal : Pending(j) /\ p \in Targets(j)
  <2>1. PICK j \in Journal : Pending(j) /\ p \in Targets(j)
    BY <1>1
  <2>2. j \notin stale /\ pc[j] # "idle"
    BY <2>1 DEF IInv, UnsettledFresh, Pending, Unsettled, Running
  <2>3. Settled[p] = base[j][p]
    BY <2>1, <2>2, SettledOn DEF Seen
  <2>4. base[j][p] \in Content /\ base[j][p] # Torn
    BY <2>1, <2>2 DEF IInv, TypeInv, TypeOK, Local, BaseOK
  <2> QED BY <2>3, <2>4 DEF Content
<1>2. CASE \A j \in Journal : Pending(j) => p \notin Targets(j)
  <2>1. Settled[p] = disk[p]
    BY <1>2, SettledOff
  <2>2. disk[p] # Torn
    BY <1>2 DEF IInv, TornIsJournaled, Pending
  <2> QED BY <2>1, <2>2 DEF IInv, TypeInv, TypeOK, Content
<1> QED BY <1>1, <1>2

(* Away from the targets of the one transaction that steps nothing changes. *)
LEMMA SettledElsewhere ==
  ASSUME IInv, IInv', NEW j \in Journal \ stale, pc[j] # "idle",
         UNCHANGED <<plan, base, stale>>,
         \A i \in Journal \ {j} : pc'[i] = pc[i] /\ state'[i] = state[i],
         \A p \in Path \ Targets(j) : disk'[p] = disk[p],
         NEW q \in Path, q \notin Targets(j)
  PROVE  Settled'[q] = Settled[q]
<1>1. \A i \in Journal : Targets(i)' = Targets(i)
  BY DEF Targets
<1>2. \A i \in Journal \ {j} : Pending(i)' <=> Pending(i)
  BY DEF Pending, Unsettled, Replayable
<1>3. \A i \in Journal : (Pending(i) /\ q \in Targets(i))' <=> Pending(i) /\ q \in Targets(i)
  BY <1>1, <1>2
<1>4. (CHOOSE i \in Journal : (Pending(i) /\ q \in Targets(i))')
        = CHOOSE i \in Journal : Pending(i) /\ q \in Targets(i)
  BY <1>3
<1> QED BY <1>3, <1>4 DEF Settled

(* A step that keeps what is seen at the targets of j is a stutter. *)
LEMMA SettledSame ==
  ASSUME IInv, IInv', NEW j \in Journal \ stale, pc[j] # "idle", pc'[j] # "idle",
         UNCHANGED <<plan, base, stale>>,
         \A i \in Journal \ {j} : pc'[i] = pc[i] /\ state'[i] = state[i],
         \A p \in Path \ Targets(j) : disk'[p] = disk[p],
         \A p \in Targets(j) : Seen(j, p)' = Seen(j, p)
  PROVE  Settled' = Settled
<1>1. Targets(j)' = Targets(j)
  BY DEF Targets
<1>2. ASSUME NEW p \in Path PROVE Settled'[p] = Settled[p]
  <2>1. CASE p \notin Targets(j)
    BY <2>1, SettledElsewhere
  <2>2. CASE p \in Targets(j)
    <3>1. Settled[p] = Seen(j, p)
      BY <2>2, SettledOn
    <3>2. ASSUME NEW i \in Journal, Pending(i)', p \in Targets(i)' PROVE i = j
      BY <1>1, <2>2, <3>2 DEF IInv, Separate, UnsettledFresh, Pending, Unsettled, Running
    <3>3. Settled'[p] = Seen(j, p)'
      BY <1>1, <2>2, <3>2 DEF Settled, Seen
    <3> QED BY <2>2, <3>1, <3>3
  <2> QED BY <2>1, <2>2
<1> QED BY <1>2 DEF Settled

LEMMA BeginSettled ==
  ASSUME IInv, IInv', NoOverlap, NEW j \in Journal, NEW w \in Plans, Begin(j, w)
  PROVE  Settled' = Settled
<1>1. \A i \in Journal : Pending(i)' <=> Pending(i)
  BY DEF Begin, Pending, Unsettled, Replayable, Running, IInv, TypeInv, TypeOK
<1>2. \A i \in Journal : Pending(i) => Targets(i)' = Targets(i) /\ base'[i] = base[i]
  BY DEF Begin, Pending, Unsettled, Running, Targets, IInv, TypeInv, TypeOK
<1>3. \A p \in Path, i \in Journal :
         (Pending(i) /\ p \in Targets(i))' <=> Pending(i) /\ p \in Targets(i)
  BY <1>1, <1>2
<1>4. \A p \in Path :
         (CHOOSE i \in Journal : (Pending(i) /\ p \in Targets(i))')
           = CHOOSE i \in Journal : Pending(i) /\ p \in Targets(i)
  BY <1>3
<1>5. ASSUME NEW p \in Path, \E i \in Journal : Pending(i) /\ p \in Targets(i)
      PROVE  Settled'[p] = Settled[p]
  <2> DEFINE c == CHOOSE i \in Journal : Pending(i) /\ p \in Targets(i)
  <2>1. c \in Journal /\ Pending(c)
    BY <1>5
  <2>2. Settled[p] = base[c][p]
    BY <1>5 DEF Settled
  <2>3. Settled'[p] = base'[c][p]
    BY <1>3, <1>4, <1>5 DEF Settled
  <2> QED BY <1>2, <2>1, <2>2, <2>3
<1>6. ASSUME NEW p \in Path, ~\E i \in Journal : Pending(i) /\ p \in Targets(i)
      PROVE  Settled'[p] = Settled[p]
  BY <1>3, <1>6 DEF Settled, Begin
<1>7. \A p \in Path : Settled'[p] = Settled[p]
  BY <1>5, <1>6
<1> QED BY <1>7 DEF Settled

(* Closing the journal after the last replacement applies the whole plan. *)
LEMMA CommitApplies ==
  ASSUME IInv, IInv', NEW j \in Journal, pc[j] = "committing", k[j] = Last(j),
         CommitDone(j) \/ CrashInStateWrite(j)
  PROVE  \E w \in Plans : Abstract!Apply(w)
<1>1. /\ j \in Journal \ stale /\ pc[j] # "idle" /\ pc'[j] # "idle"
      /\ Pending(j) /\ ~Pending(j)' /\ plan[j] \in Plans /\ plan[j] \in Seq(Write)
  BY DEF CommitDone, CrashInStateWrite, IInv, TypeInv, TypeOK, IndexOK, UnsettledFresh,
         Unsettled, Running, Control, Pending, Replayable
<1>2. UNCHANGED <<disk, plan, base, stale>>
  BY DEF CommitDone, CrashInStateWrite
<1>3. \A i \in Journal \ {j} : pc'[i] = pc[i] /\ state'[i] = state[i]
  BY DEF CommitDone, CrashInStateWrite, IInv, TypeInv, TypeOK
<1>4. DOMAIN plan[j] = 1..Last(j) /\ Last(j) \in Nat
  BY <1>1 DEF Last
<1>5. \A i \in 1..Last(j) : plan[j][i].path \in Targets(j) /\ plan[j][i].operation \in {"create", "update"}
  BY WriteType DEF IInv, TypeInv, Last, Write
<1>6. \A p \in Targets(j) : Settled[p] = base[j][p]
  BY <1>1, SettledOn DEF Seen
<1>7. \A p \in Targets(j) : Settled'[p] = disk[p]
  <2> SUFFICES ASSUME NEW p \in Targets(j) PROVE Settled'[p] = disk[p]
    OBVIOUS
  <2>1. p \in Path
    BY TargetsArePaths DEF IInv, TypeInv
  <2>2. Targets(j)' = Targets(j)
    BY <1>2 DEF Targets
  <2>3. ASSUME NEW i \in Journal, Pending(i)', p \in Targets(i)' PROVE FALSE
    <3>1. i # j /\ i \notin stale' /\ pc'[i] # "idle"
      BY <1>1, <2>3 DEF IInv, UnsettledFresh, Pending, Unsettled, Running
    <3>2. (Targets(i) \cap Targets(j) = {})'
      BY <1>1, <1>2, <3>1 DEF IInv, Separate
    <3> QED BY <2>2, <2>3, <3>2
  <2> QED BY <1>2, <2>1, <2>3 DEF Settled
<1>8. Local(j) /\ After(j)
  BY <1>1, AllReplaced DEF IInv
<1>9. \A i \in DOMAIN plan[j] :
         plan[j][i].operation = "create" <=> Settled[plan[j][i].path] = Absent
  BY <1>1, <1>4, <1>5, <1>6, <1>8 DEF Local, BaseOK, CreatesOK, Pending
<1>10. Settled' \in [Path -> Bytes \cup {Absent}]
  <2>1. \A p \in Path : disk'[p] = Torn =>
           \E i \in Journal : (Pending(i) /\ p \in Targets(i))'
    BY DEF IInv, TornIsJournaled, Pending
  <2>2. ASSUME NEW i \in Journal, NEW p \in Path, (Pending(i) /\ p \in Targets(i))'
        PROVE  base'[i][p] \in Bytes \cup {Absent}
    <3>1. i \in Journal \ stale' /\ pc'[i] # "idle"
      BY <2>2 DEF IInv, UnsettledFresh, Pending, Unsettled, Running
    <3>2. base'[i][p] # Torn
      BY <2>2, <3>1 DEF IInv, Local, BaseOK
    <3>3. base'[i][p] \in Content
      BY DEF IInv, TypeInv, TypeOK, Content
    <3> QED BY <3>2, <3>3 DEF Content
  <2>3. \A p \in Path : disk'[p] \in Bytes \cup {Absent, Torn}
    BY DEF IInv, TypeInv, TypeOK, Content
  <2> QED BY <2>1, <2>2, <2>3 DEF Settled
<1>11. \A p \in Path : (\A i \in DOMAIN plan[j] : plan[j][i].path # p) => Settled'[p] = Settled[p]
  BY <1>1, <1>2, <1>3, SettledElsewhere DEF Targets, TargetsOf
<1>12. \A i \in DOMAIN plan[j] :
          (\A m \in (i + 1)..Len(plan[j]) : plan[j][m].path # plan[j][i].path)
              => Settled'[plan[j][i].path] = plan[j][i].content
  BY <1>4, <1>5, <1>7, <1>8 DEF After, LastWrite, Last
<1>13. Abstract!Apply(plan[j])
  BY <1>9, <1>10, <1>11, <1>12 DEF Abstract!Apply
<1> QED BY <1>1, <1>13

(* Every other step of a transaction is a stutter. *)
LEMMA StepSettled ==
  ASSUME IInv, IInv', FreshRecovery, NEW j \in Journal,
         RecoverStart(j) \/ Step(j) \/ Fault(j),
         ~(pc[j] = "committing" /\ k[j] = Last(j) /\ (CommitDone(j) \/ CrashInStateWrite(j)))
  PROVE  Settled' = Settled
<1> USE DEF Pending, Unsettled, Replayable
<1>1. j \in Journal \ stale /\ pc[j] # "idle"
  BY DEF RecoverStart, MayRecover, Step, Fault, Stage, AbortBeforeCommit, BackUp, WriteManifest,
         MakeTemp, Replace, CommitFails, RollBack, RollBackDone, CommitDone, RemoveJournal,
         RecoverItem, RecoverDone, Crash, CrashInCopy, CrashInStateWrite, CrashInCleanup,
         IInv, UnsettledFresh, Running
<1>2. Local(j) /\ Control(j) /\ TypeInv /\ TypeOK /\ pc \in [Journal -> ProcessState]
  BY <1>1 DEF IInv, TypeInv, TypeOK
<1> DEFINE Quiet == /\ UNCHANGED <<plan, base, stale>>
                    /\ pc'[j] # "idle"
                    /\ \A i \in Journal \ {j} : pc'[i] = pc[i] /\ state'[i] = state[i]
                    /\ \A p \in Path \ Targets(j) : disk'[p] = disk[p]
<1>3. ASSUME Quiet, Pending(j), Pending(j)' PROVE Settled' = Settled
  BY <1>1, <1>3, SettledSame DEF Seen
<1>4. ASSUME Quiet, Before(j), disk' = disk PROVE Settled' = Settled
  BY <1>1, <1>4, SettledSame DEF Seen, Before
<1>5. ASSUME Quiet, ~Pending(j), ~Pending(j)', disk' = disk PROVE Settled' = Settled
  BY <1>1, <1>5, SettledSame DEF Seen
<1>6. CASE RecoverStart(j)
  <2>1. Quiet /\ disk' = disk /\ Pending(j)'
    BY <1>2, <1>6 DEF RecoverStart, TypeOK, Running
  <2>2. CASE pc[j] = "raised"
    BY <1>2, <1>4, <2>1, <2>2 DEF Local, OutcomeOK
  <2>3. CASE pc[j] = "abandoned"
    BY <1>3, <1>6, <2>1, <2>3 DEF RecoverStart
  <2> QED BY <1>6, <2>2, <2>3 DEF RecoverStart
<1>7. CASE Stage(j) \/ AbortBeforeCommit(j) \/ BackUp(j) \/ WriteManifest(j)
  <2>1. Quiet /\ disk' = disk
    BY <1>2, <1>7 DEF Stage, AbortBeforeCommit, BackUp, WriteManifest, TypeOK
  <2>2. Before(j)
    BY <1>2, <1>7 DEF Stage, AbortBeforeCommit, BackUp, WriteManifest, Local, UntouchedOK
  <2> QED BY <1>4, <2>1, <2>2
<1>8. CASE MakeTemp(j) \/ CommitFails(j)
  <2>1. Quiet /\ Pending(j) /\ Pending(j)'
    BY <1>2, <1>8 DEF MakeTemp, CommitFails, TypeOK, Control, Running
  <2> QED BY <1>3, <2>1
<1>9. CASE Replace(j)
  <2>1. k[j] + 1 \in 1..Len(plan[j])
    BY <1>2, <1>9 DEF Replace, TypeOK, Last
  <2>2. plan[j][k[j] + 1].path \in Targets(j)
    BY <1>2, <2>1, WriteType
  <2>3. Quiet /\ Pending(j) /\ Pending(j)'
    BY <1>2, <1>9, <2>2 DEF Replace, TypeOK, Control, Running
  <2> QED BY <1>3, <2>3
<1>10. CASE RollBack(j) \/ RecoverItem(j)
  <2>1. k[j] \in 1..Len(plan[j])
    BY <1>2, <1>10 DEF RollBack, RecoverItem, TypeInv, TypeOK, IndexOK
  <2>2. plan[j][k[j]].path \in Targets(j)
    BY <1>2, <2>1, WriteType
  <2>3. Quiet /\ Pending(j) /\ Pending(j)'
    BY <1>2, <1>10, <2>2 DEF RollBack, RecoverItem, UndoItem, TypeOK, Control, Running
  <2> QED BY <1>3, <2>3
<1>11. CASE RollBackDone(j) \/ RecoverDone(j)
  <2>1. Quiet /\ disk' = disk
    BY <1>2, <1>11 DEF RollBackDone, RecoverDone, TypeOK
  <2>2. Before(j)
    BY <1>1, <1>11, AllUndone DEF RollBackDone, RecoverDone
  <2> QED BY <1>4, <2>1, <2>2
<1>12. CASE RemoveJournal(j) \/ CrashInCleanup(j)
  <2>1. Quiet /\ disk' = disk /\ ~Pending(j) /\ ~Pending(j)'
    BY <1>2, <1>12 DEF RemoveJournal, CrashInCleanup, TypeOK, Control
  <2> QED BY <1>5, <2>1
<1>13. CASE Crash(j)
  <2>1. Quiet /\ disk' = disk /\ (Pending(j)' <=> Replayable(j))
    BY <1>2, <1>13 DEF Crash, TypeOK
  <2>2. Pending(j) <=> Replayable(j)
    BY <1>13 DEF Crash
  <2> QED BY <1>3, <1>5, <2>1, <2>2
<1>14. CASE CrashInCopy(j)
  <2>1. k[j] \in 1..Len(plan[j])
    BY <1>2, <1>14 DEF CrashInCopy, TypeInv, TypeOK, IndexOK
  <2>2. plan[j][k[j]].path \in Targets(j)
    BY <1>2, <2>1, WriteType
  <2>3. Quiet /\ Pending(j) /\ Pending(j)'
    BY <1>2, <1>14, <2>2 DEF CrashInCopy, TypeOK, Control, Running
  <2> QED BY <1>3, <2>3
<1>15. CASE CrashInStateWrite(j) /\ pc[j] # "committing"
  <2>1. Quiet /\ disk' = disk
    BY <1>2, <1>15 DEF CrashInStateWrite, TypeOK
  <2>2. Before(j)
    BY <1>1, <1>15, AllUndone DEF CrashInStateWrite
  <2> QED BY <1>4, <2>1, <2>2
<1> QED
  BY <1>6, <1>7, <1>8, <1>9, <1>10, <1>11, <1>12, <1>13, <1>14, <1>15
     DEF Step, Fault, CommitDone, CrashInStateWrite

(* The protocol implements AtomicCommit: whatever fails or dies, a reader   *)
(* who takes an unfinished journal as undone sees all of a plan or none.    *)
THEOREM CommitRefinesAtomicCommit ==
  ASSUME NoOverlap, FreshRecovery
  PROVE  Spec => ImplementsAtomicCommit
<1>1. Init => Abstract!Init
  <2> SUFFICES ASSUME Init PROVE Settled \in [Path -> Bytes \cup {Absent}]
    BY DEF Abstract!Init
  <2> QED BY InitIInv, SettledType
<1>2. IInv /\ IInv' /\ [Next]_vars => [Abstract!Next]_Settled
  <2> SUFFICES ASSUME IInv, IInv', [Next]_vars PROVE [Abstract!Next]_Settled
    OBVIOUS
  <2>1. CASE UNCHANGED vars
    BY <2>1 DEF vars, Settled, Pending, Unsettled, Replayable, Targets
  <2>2. ASSUME NEW j \in Journal, NEW w \in Plans, Begin(j, w) PROVE Settled' = Settled
    BY <2>2, BeginSettled
  <2>3. ASSUME NEW j \in Journal, RecoverStart(j) \/ Step(j) \/ Fault(j)
        PROVE  [Abstract!Next]_Settled
    BY <2>3, StepSettled, CommitApplies DEF Abstract!Next
  <2> QED BY <2>1, <2>2, <2>3 DEF Next
<1>3. Spec => []IInv
  BY InitIInv, NextIInv, PTL DEF Spec
<1> QED BY <1>1, <1>2, <1>3, PTL DEF Spec, ImplementsAtomicCommit, Abstract!Spec
=============================================================================
