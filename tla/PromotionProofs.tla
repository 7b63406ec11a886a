--------------------------- MODULE PromotionProofs ---------------------------
(***************************************************************************)
(* Proofs about Promotion, for every set of contracts, mutations and       *)
(* files.  However commands overlap, every variable keeps its type, and a  *)
(* commit writes only bytes whose fingerprints a human locked; to the      *)
(* locked targets, if an identifier is for one target.  With one command   *)
(* at a time, besides, no work is lost and evidence of success is true.    *)
(***************************************************************************)
EXTENDS Promotion, TLAPS

(* A document binds one image per mutation of its contract. *)
Fits(c, doc) == doc \in Doc /\ DOMAIN doc.bindings = DOMAIN Mutations[c]

(* What the memory of a command holds, by the step it has reached.           *)
Memory(c) ==
    LET r == proc[c] IN
    /\ Fits(c, pc[c])
    /\ r.at # "idle" => Fits(c, r.loaded)
    /\ r.at \in {"binding", "publishing"} =>
          r.n <= Len(r.writes) /\ DOMAIN r.writes = DOMAIN Mutations[c]
    /\ r.at \in {"reading", "committing"} => LockValid(c, r.loaded)
    /\ r.at = "committing" =>
          \A i \in DOMAIN Mutations[c] : r.writes[i].content = r.loaded.bindings[i]

IInv == TypeOK /\ \A c \in Contract : Memory(c)

USE MutationsAssumption, SerialAssumption

-----------------------------------------------------------------------------
LEMMA MutationType ==
  ASSUME NEW c \in Contract, NEW i \in DOMAIN Mutations[c]
  PROVE  /\ Mutations[c] \in Seq(Mutation) /\ i \in Nat /\ i \in 1..Len(Mutations[c])
         /\ Mutations[c][i].id \in MutationId
         /\ Mutations[c][i].target \in Path
         /\ Mutations[c][i].operation \in {"create", "amend"}
<1>1. Mutations[c] \in Seq(Mutation) /\ i \in 1..Len(Mutations[c])
  OBVIOUS
<1>2. Mutations[c][i] \in Mutation
  BY <1>1
<1> QED BY <1>1, <1>2 DEF Mutation

LEMMA WrittenType ==
  ASSUME NEW files \in Tree, NEW writes \in Seq(Planned), NEW n \in Nat, n <= Len(writes)
  PROVE  Written(files, writes, n) \in Tree
<1>1. ASSUME NEW p \in Path PROVE Written(files, writes, n)[p] \in File
  <2>1. CASE \E i \in 1..n : LastTo(writes, n, p, i)
    <3> DEFINE i == CHOOSE i \in 1..n : LastTo(writes, n, p, i)
    <3>1. i \in 1..n
      BY <2>1
    <3>2. writes[i] \in Planned
      BY <3>1
    <3>3. writes[i].content \in File
      BY <3>2 DEF Planned
    <3> QED BY <2>1, <3>3 DEF Written
  <2>2. CASE ~\E i \in 1..n : LastTo(writes, n, p, i)
    BY <2>2 DEF Written, Tree
  <2> QED BY <2>1, <2>2
<1> QED BY <1>1 DEF Written, Tree

LEMMA PostImageType ==
  ASSUME NEW c \in Contract, NEW i \in Nat, NEW file \in File
  PROVE  PostImage(c, i, file) \in File
  BY DEF PostImage, File, Version, Image

LEMMA FingerprintType ==
  ASSUME NEW c \in Contract, NEW doc \in Doc
  PROVE  Fingerprint(c, doc) \in Intent
  BY DEF Fingerprint, Intent, Doc

LEMMA DraftType ==
  ASSUME NEW c \in Contract, NEW tree \in Tree
  PROVE  Fits(c, Draft(c, tree))
<1>1. [i \in DOMAIN Mutations[c] |-> None] \in Bindings
  BY DEF Bindings
<1> QED BY <1>1 DEF Fits, Draft, Doc

LEMMA NoFileType == NoFile \in File
  BY DEF NoFile, File, Version

-----------------------------------------------------------------------------
LEMMA InitIInv == Init => IInv
<1> SUFFICES ASSUME Init PROVE IInv
  OBVIOUS
<1>1. authority \in Tree /\ head \in Tree
  BY NoFileType DEF Init, Tree, File, Version
<1>2. \A c \in Contract : Fits(c, pc[c]) /\ proc[c] = Idle
  BY <1>1, DraftType DEF Init
<1>3. pc \in [Contract -> Doc]
  BY <1>2 DEF Init, Fits
<1>4. proc \in [Contract -> Process]
  BY DEF Init, Idle, Process, Steps
<1>5. TypeOK
  BY <1>1, <1>3, <1>4 DEF Init, TypeOK
<1>6. \A c \in Contract : Memory(c)
  BY <1>2 DEF Memory, Idle
<1> QED BY <1>5, <1>6 DEF IInv

(* A step that changes one contract's command and document at most keeps    *)
(* IInv if it keeps the types and that contract's part of it.               *)
LEMMA OneContract ==
  ASSUME IInv, TypeOK', NEW c \in Contract, Memory(c)',
         \A d \in Contract \ {c} : proc'[d] = proc[d] /\ pc'[d] = pc[d]
  PROVE  IInv'
<1>1. ASSUME NEW d \in Contract \ {c} PROVE Memory(d)'
  BY <1>1 DEF IInv, Memory
<1> QED BY <1>1 DEF IInv

(* The command of c ends, and nothing else changes but the authority and    *)
(* what was reported.                                                       *)
LEMMA EndKeeps ==
  ASSUME IInv, NEW c \in Contract, proc' = [proc EXCEPT ![c] = Idle],
         authority' \in Tree, result' \in {None} \cup (Contract \X Results),
         UNCHANGED <<head, payloads, resolved, pc, commits>>
  PROVE  IInv'
<1>1. TypeOK'
  BY DEF IInv, TypeOK, Idle, Process, Steps
<1>2. Memory(c)' /\ \A d \in Contract \ {c} : proc'[d] = proc[d] /\ pc'[d] = pc[d]
  BY DEF IInv, TypeOK, Memory, Idle
<1> QED BY <1>1, <1>2, OneContract

LEMMA FinishKeeps ==
  ASSUME IInv, NEW c \in Contract, NEW s \in Results, Finish(c, s),
         UNCHANGED <<authority, head, payloads, resolved, pc, commits>>
  PROVE  IInv'
<1>1. authority' \in Tree
  BY DEF IInv, TypeOK
<1> QED BY <1>1, EndKeeps DEF Finish

-----------------------------------------------------------------------------
LEMMA PrepareStartKeeps ==
  ASSUME IInv, NEW c \in Contract, PrepareStart(c)
  PROVE  IInv'
<1> DEFINE w == [i \in DOMAIN Mutations[c] |->
                   [path |-> Mutations[c][i].target,
                    content |-> PostImage(c, i, authority[Mutations[c][i].target]),
                    operation |-> Mutations[c][i].operation]]
           r == [at |-> "binding", loaded |-> pc[c], n |-> 0, writes |-> w]
<1>1. \A i \in DOMAIN Mutations[c] : w[i] \in Planned
  <2> SUFFICES ASSUME NEW i \in DOMAIN Mutations[c] PROVE w[i] \in Planned
    OBVIOUS
  <2>1. authority[Mutations[c][i].target] \in File
    BY MutationType DEF IInv, TypeOK, Tree
  <2>2. PostImage(c, i, authority[Mutations[c][i].target]) \in File
    BY <2>1, MutationType, PostImageType
  <2> HIDE DEF w
  <2>3. w[i] = [path |-> Mutations[c][i].target,
                content |-> PostImage(c, i, authority[Mutations[c][i].target]),
                operation |-> Mutations[c][i].operation]
    BY DEF w
  <2> QED BY <2>2, <2>3, MutationType DEF Planned
<1>2. Mutations[c] \in Seq(Mutation) /\ DOMAIN Mutations[c] = 1..Len(Mutations[c])
  OBVIOUS
<1> HIDE DEF w
<1>3. DOMAIN w = DOMAIN Mutations[c]
  BY DEF w
<1>4. w \in Seq(Planned)
  <2>1. w = [i \in 1..Len(Mutations[c]) |-> w[i]]
    BY <1>2, <1>3 DEF w
  <2> QED BY <1>1, <1>2, <2>1
<1>5. pc[c] \in Doc /\ Fits(c, pc[c])
  BY DEF IInv, Memory, Fits
<1>6. r \in Process
  BY <1>4, <1>5 DEF Process, Steps
<1>7. proc' = [proc EXCEPT ![c] = r] /\ proc'[c] = r
  BY DEF PrepareStart, IInv, TypeOK, w
<1>8. TypeOK'
  BY <1>6, <1>7 DEF IInv, TypeOK, PrepareStart
<1>9. Memory(c)'
  BY <1>3, <1>4, <1>5, <1>7 DEF Memory, PrepareStart
<1> QED BY <1>7, <1>8, <1>9, OneContract DEF PrepareStart, IInv, TypeOK

LEMMA PrepareBindKeeps ==
  ASSUME IInv, NEW c \in Contract, PrepareBind(c)
  PROVE  IInv'
<1> DEFINE i == proc[c].n + 1
<1>1. proc[c] \in Process /\ proc[c].n < Len(proc[c].writes)
      /\ DOMAIN proc[c].writes = DOMAIN Mutations[c] /\ proc[c].at = "binding"
  BY DEF PrepareBind, IInv, TypeOK, Memory
<1>2. i \in DOMAIN proc[c].writes /\ proc[c].writes \in Seq(Planned) /\ proc[c].n \in Nat
  BY <1>1 DEF Process
<1>3. proc[c].writes[i] \in Planned
  BY <1>2
<1>4. proc[c].writes[i].content \in File
  BY <1>3 DEF Planned
<1>5. payloads' \in [MutationId -> File \cup {None}]
  BY <1>4, MutationType DEF PrepareBind, IInv, TypeOK
<1>6. /\ proc'[c].at = "binding" /\ proc'[c].n = i
      /\ proc'[c].writes = proc[c].writes /\ proc'[c].loaded = proc[c].loaded
      /\ proc'[c] \in Process
  <2>1. proc'[c] = [proc[c] EXCEPT !.n = i]
    BY DEF PrepareBind, IInv, TypeOK
  <2>2. i \in Nat
    BY <1>2
  <2> HIDE DEF i
  <2>3. proc'[c] \in Process
    BY <1>1, <2>1, <2>2 DEF Process
  <2>4. /\ proc'[c].at = proc[c].at /\ proc'[c].n = i
        /\ proc'[c].writes = proc[c].writes /\ proc'[c].loaded = proc[c].loaded
    BY <1>1, <2>1 DEF Process
  <2> QED BY <1>1, <2>3, <2>4
<1>7. TypeOK'
  BY <1>5, <1>6 DEF IInv, TypeOK, PrepareBind
<1>8. Memory(c)'
  BY <1>1, <1>2, <1>6 DEF IInv, Memory, PrepareBind
<1> QED BY <1>7, <1>8, OneContract DEF PrepareBind, IInv, TypeOK

LEMMA PrepareResolveKeeps ==
  ASSUME IInv, NEW c \in Contract, PrepareResolve(c)
  PROVE  IInv'
<1>1. resolved' \in [MutationId -> Path \cup {None}]
  <2> SUFFICES ASSUME NEW id \in MutationId,
                      NEW i \in DOMAIN Mutations[c], Mutations[c][i].id = id
               PROVE  (CHOOSE m \in {Mutations[c][k] : k \in DOMAIN Mutations[c]}
                          : m.id = id).target \in Path
    BY DEF PrepareResolve
  <2> DEFINE S == {Mutations[c][k] : k \in DOMAIN Mutations[c]}
  <2>1. Mutations[c][i] \in S /\ \A m \in S : m.target \in Path
    BY MutationType
  <2> HIDE DEF S
  <2>2. (CHOOSE m \in S : m.id = id) \in S
    BY <2>1
  <2> QED BY <2>1, <2>2 DEF S
<1>2. /\ proc'[c].at = "publishing" /\ proc'[c].n = proc[c].n /\ proc[c].at = "binding"
      /\ proc'[c].writes = proc[c].writes /\ proc'[c].loaded = proc[c].loaded
      /\ proc'[c] \in Process
  BY DEF PrepareResolve, IInv, TypeOK, Process, Steps
<1>3. TypeOK'
  BY <1>1, <1>2 DEF IInv, TypeOK, PrepareResolve
<1>4. Memory(c)'
  BY <1>2 DEF IInv, Memory, PrepareResolve
<1> QED BY <1>3, <1>4, OneContract DEF PrepareResolve, IInv, TypeOK

LEMMA PreparePublishKeeps ==
  ASSUME IInv, NEW c \in Contract, PreparePublish(c)
  PROVE  IInv'
<1> DEFINE r == proc[c]
           b == [i \in DOMAIN r.writes |-> r.writes[i].content]
<1>1. /\ r \in Process /\ r.at = "publishing"
      /\ r.loaded \in Doc /\ DOMAIN r.writes = DOMAIN Mutations[c]
  BY DEF PreparePublish, IInv, TypeOK, Memory, Fits
<1>2. r.writes \in Seq(Planned)
  BY <1>1 DEF Process
<1>3. b \in Bindings /\ DOMAIN b = DOMAIN Mutations[c]
  <2>1. DOMAIN r.writes = 1..Len(r.writes) /\ Len(r.writes) \in Nat
    BY <1>2
  <2>2. ASSUME NEW i \in 1..Len(r.writes) PROVE r.writes[i].content \in File
    <3>1. r.writes[i] \in Planned
      BY <1>2, <2>1
    <3> QED BY <3>1 DEF Planned
  <2>3. b = [i \in 1..Len(r.writes) |-> r.writes[i].content]
    BY <2>1
  <2> HIDE DEF b
  <2> QED BY <1>1, <2>1, <2>2, <2>3 DEF Bindings
<1> HIDE DEF b
<1>4. PICK valid \in BOOLEAN :
        pc' = [pc EXCEPT ![c] = [r.loaded EXCEPT
                 !.bindings = b, !.blocked = @ \/ ~valid \/ ~Equivalent(r.loaded)]]
  BY DEF PreparePublish, b
<1>5. pc'[c] = [r.loaded EXCEPT
                 !.bindings = b, !.blocked = @ \/ ~valid \/ ~Equivalent(r.loaded)]
  BY <1>4 DEF IInv, TypeOK
<1>6. pc'[c] \in Doc /\ pc'[c].bindings = b
  BY <1>1, <1>3, <1>5 DEF Doc
<1>7. proc' = [proc EXCEPT ![c] = Idle] /\ proc'[c] = Idle
  BY DEF PreparePublish, Finish, IInv, TypeOK
<1>8. TypeOK'
  BY <1>4, <1>6, <1>7 DEF IInv, TypeOK, PreparePublish, Finish, Idle, Process, Steps, Results
<1>9. Memory(c)'
  BY <1>3, <1>6, <1>7 DEF Memory, Fits, Idle
<1> QED BY <1>4, <1>7, <1>8, <1>9, OneContract DEF IInv, TypeOK

LEMMA LockKeeps ==
  ASSUME IInv, NEW c \in Contract, Lock(c)
  PROVE  IInv'
<1>1. Fingerprint(c, pc[c]) \in Intent
  BY FingerprintType DEF IInv, TypeOK
<1>2. pc'[c] \in Doc /\ pc'[c].bindings = pc[c].bindings
  BY <1>1 DEF Lock, IInv, TypeOK, Doc
<1>3. TypeOK'
  BY <1>2 DEF Lock, IInv, TypeOK
<1>4. Memory(c)'
  BY <1>2 DEF Lock, IInv, Memory, Fits
<1> QED BY <1>3, <1>4, OneContract DEF Lock, IInv, TypeOK

LEMMA RedraftKeeps ==
  ASSUME IInv, NEW c \in Contract, Redraft(c)
  PROVE  IInv'
<1>1. pc'[c] = Draft(c, head) /\ Fits(c, pc'[c])
  BY DraftType DEF Redraft, IInv, TypeOK
<1>2. TypeOK'
  BY <1>1 DEF Redraft, IInv, TypeOK, Fits
<1>3. Memory(c)'
  BY <1>1 DEF Redraft, IInv, Memory
<1> QED BY <1>2, <1>3, OneContract DEF Redraft, IInv, TypeOK

-----------------------------------------------------------------------------
LEMMA ApplyBeginsKeeps ==
  ASSUME IInv, NEW c \in Contract, ApplyRecoverEvidence(c) \/ ApplyStart(c)
  PROVE  IInv'
<1> DEFINE at == IF ApplyStart(c) THEN "reading" ELSE "evidence"
           r  == [at |-> at, loaded |-> pc[c], writes |-> << >>, n |-> 0]
<1>1. proc' = [proc EXCEPT ![c] = r]
  BY DEF ApplyRecoverEvidence, ApplyStart, Idle
<1>2. pc[c] \in Doc /\ Fits(c, pc[c])
  BY DEF IInv, Memory, Fits
<1>3. at = "reading" => LockValid(c, pc[c])
  BY DEF ApplyStart
<1>4. at \in {"reading", "evidence"}
  OBVIOUS
<1>5. UNCHANGED <<authority, head, payloads, resolved, pc, commits>> /\ result' = None
  BY DEF ApplyRecoverEvidence, ApplyStart
<1> HIDE DEF at
<1>6. r \in Process
  BY <1>2, <1>4 DEF Process, Steps
<1>7. proc'[c] = r
  BY <1>1 DEF IInv, TypeOK
<1>8. TypeOK'
  BY <1>1, <1>5, <1>6 DEF IInv, TypeOK
<1>9. Memory(c)'
  BY <1>2, <1>3, <1>4, <1>5, <1>7 DEF Memory
<1> QED BY <1>1, <1>5, <1>8, <1>9, OneContract DEF IInv, TypeOK

LEMMA ApplyReadKeeps ==
  ASSUME IInv, NEW c \in Contract, ApplyRead(c)
  PROVE  IInv'
<1> DEFINE d == proc[c].loaded
           w == [i \in DOMAIN Mutations[c] |->
                   [path |-> PathOf(Mutations[c][i]),
                    content |-> payloads[Mutations[c][i].id],
                    operation |-> Mutations[c][i].operation]]
<1>1. /\ proc[c] \in Process /\ proc[c].at = "reading" /\ d \in Doc
      /\ LockValid(c, d) /\ Fits(c, d) /\ WritesReady(c, d)
  BY DEF ApplyRead, IInv, TypeOK, Memory, Fits
<1>2. \A i \in DOMAIN Mutations[c] : w[i] \in Planned /\ w[i].content = d.bindings[i]
  <2> SUFFICES ASSUME NEW i \in DOMAIN Mutations[c]
               PROVE  w[i] \in Planned /\ w[i].content = d.bindings[i]
    OBVIOUS
  <2>1. payloads[Mutations[c][i].id] = d.bindings[i] /\ d.bindings[i] # None
    BY <1>1 DEF WritesReady, LockValid, Ready, Fits
  <2>2. payloads[Mutations[c][i].id] \in File
    BY <2>1, MutationType DEF IInv, TypeOK
  <2>3. PathOf(Mutations[c][i]) \in Path
    BY MutationType DEF IInv, TypeOK, PathOf
  <2> QED BY <2>1, <2>2, <2>3, MutationType DEF Planned
<1>3. Mutations[c] \in Seq(Mutation) /\ DOMAIN Mutations[c] = 1..Len(Mutations[c])
  OBVIOUS
<1>4. proc' = [proc EXCEPT ![c].at = "committing", ![c].writes = w]
  BY DEF ApplyRead
<1>5. DOMAIN w = 1..Len(Mutations[c]) /\ w = [i \in 1..Len(Mutations[c]) |-> w[i]]
  BY <1>3
<1> HIDE DEF w
<1>6. w \in Seq(Planned)
  BY <1>2, <1>3, <1>5
<1>7. proc'[c] = [[proc[c] EXCEPT !.at = "committing"] EXCEPT !.writes = w]
  BY <1>4 DEF IInv, TypeOK
<1>8. /\ proc'[c] \in Process /\ proc'[c].at = "committing"
      /\ proc'[c].loaded = d /\ proc'[c].writes = w
  BY <1>1, <1>6, <1>7 DEF Process, Steps
<1>9. TypeOK'
  BY <1>4, <1>8 DEF IInv, TypeOK, ApplyRead
<1>10. Memory(c)'
  BY <1>1, <1>2, <1>8 DEF ApplyRead, IInv, Memory
<1> QED BY <1>4, <1>9, <1>10, OneContract DEF ApplyRead, IInv, TypeOK

LEMMA CommitType ==
  ASSUME IInv, NEW c \in Contract, NEW n \in Nat, n <= Len(proc[c].writes)
  PROVE  Written(authority, proc[c].writes, n) \in Tree
<1>1. proc[c].writes \in Seq(Planned) /\ authority \in Tree
  BY DEF IInv, TypeOK, Process
<1> QED BY <1>1, WrittenType

LEMMA ApplyCommitKeeps ==
  ASSUME IInv, NEW c \in Contract, ApplyCommit(c)
  PROVE  IInv'
<1>1. authority' \in Tree
  <2>1. Len(proc[c].writes) \in Nat
    BY DEF IInv, TypeOK, Process
  <2> QED BY <2>1, CommitType DEF ApplyCommit
<1>2. proc[c] \in Process /\ proc[c].at = "committing"
  BY DEF ApplyCommit, IInv, TypeOK
<1>3. proc' = [proc EXCEPT ![c].at = "evidence"] /\ proc'[c] = [proc[c] EXCEPT !.at = "evidence"]
  BY DEF ApplyCommit, IInv, TypeOK
<1>4. proc'[c] \in Process /\ proc'[c].at = "evidence" /\ proc'[c].loaded = proc[c].loaded
  BY <1>2, <1>3 DEF Process, Steps
<1>5. TypeOK'
  BY <1>1, <1>3, <1>4 DEF IInv, TypeOK, ApplyCommit
<1>6. Memory(c)'
  BY <1>2, <1>4 DEF ApplyCommit, IInv, Memory
<1> QED BY <1>3, <1>5, <1>6, OneContract DEF ApplyCommit, IInv, TypeOK

LEMMA ApplyCommitDiesKeeps ==
  ASSUME IInv, NEW c \in Contract, ApplyCommitDies(c)
  PROVE  IInv'
<1>1. authority' \in Tree
  <2>1. Len(proc[c].writes) \in Nat
    BY DEF IInv, TypeOK, Process
  <2>2. PICK n \in 1..Len(proc[c].writes) : authority' = Written(authority, proc[c].writes, n)
    BY DEF ApplyCommitDies
  <2> QED BY <2>1, <2>2, CommitType
<1> QED BY <1>1, EndKeeps DEF ApplyCommitDies

LEMMA AppendEvidenceKeeps ==
  ASSUME IInv, NEW c \in Contract, AppendEvidence(c)
  PROVE  IInv'
<1>1. proc[c] \in Process /\ proc[c].at = "evidence" /\ proc[c].loaded \in Doc
      /\ Fits(c, proc[c].loaded) /\ pc[c] \in Doc /\ Fits(c, pc[c])
  BY DEF AppendEvidence, IInv, TypeOK, Memory, Fits
<1>2. Fingerprint(c, proc[c].loaded) \in Intent
  BY <1>1, FingerprintType
<1>3. pc'[c] = [pc[c] EXCEPT !.evidence = @ \cup {Fingerprint(c, proc[c].loaded)}]
  BY DEF AppendEvidence, IInv, TypeOK
<1>4. pc'[c] \in Doc /\ pc'[c].bindings = pc[c].bindings
  <2>1. pc[c].evidence \subseteq Intent
    BY <1>1 DEF Doc
  <2>2. pc[c].evidence \cup {Fingerprint(c, proc[c].loaded)} \in SUBSET Intent
    BY <1>2, <2>1
  <2> DEFINE e == pc[c].evidence \cup {Fingerprint(c, proc[c].loaded)}
  <2>3. pc'[c] = [pc[c] EXCEPT !.evidence = e]
    BY <1>3
  <2>4. e \in SUBSET Intent
    BY <2>2
  <2> HIDE DEF e
  <2> QED BY <1>1, <2>3, <2>4 DEF Doc
<1>5. proc'[c] = [proc[c] EXCEPT !.at = "regenerating"]
  BY DEF AppendEvidence, IInv, TypeOK
<1>6. /\ proc'[c] \in Process /\ proc'[c].at = "regenerating"
      /\ proc'[c].loaded = proc[c].loaded
  BY <1>1, <1>5 DEF Process, Steps
<1>7. TypeOK'
  BY <1>4, <1>6 DEF IInv, TypeOK, AppendEvidence
<1>8. Memory(c)'
  BY <1>1, <1>4, <1>6 DEF Memory, Fits
<1> QED BY <1>7, <1>8, OneContract DEF AppendEvidence, IInv, TypeOK

LEMMA DieKeeps ==
  ASSUME IInv, NEW c \in Contract, Die(c)
  PROVE  IInv'
<1>1. authority' \in Tree
  BY DEF Die, IInv, TypeOK
<1> QED BY <1>1, EndKeeps DEF Die

LEMMA DeveloperKeeps ==
  ASSUME IInv, GitCommit \/ GitRestore \/ \E p \in Path : Edit(p)
  PROVE  IInv'
<1>1. authority' \in Tree /\ head' \in Tree
  <2>1. CASE GitCommit \/ GitRestore
    BY <2>1 DEF GitCommit, GitRestore, IInv, TypeOK
  <2>2. ASSUME NEW p \in Path, Edit(p) PROVE authority' \in Tree /\ head' \in Tree
    <3>1. PICK v \in Edited : authority' = [authority EXCEPT ![p] = [is |-> v, from |-> v]]
      BY <2>2 DEF Edit
    <3>2. [is |-> v, from |-> v] \in File
      BY EditedAssumption DEF File, Version
    <3> QED BY <2>2, <3>1, <3>2 DEF Edit, IInv, TypeOK, Tree
  <2> QED BY <2>1, <2>2
<1>2. commits' \in 0..MaxCommits /\ result' = None /\ UNCHANGED <<payloads, resolved, pc, proc>>
  BY DEF GitCommit, GitRestore, Edit, IInv, TypeOK
<1>3. TypeOK'
  BY <1>1, <1>2 DEF IInv, TypeOK
<1>4. ASSUME NEW c \in Contract PROVE Memory(c)'
  BY <1>2, <1>4 DEF IInv, Memory
<1> QED BY <1>3, <1>4 DEF IInv

-----------------------------------------------------------------------------
(* The commands that end in a report and change nothing else. *)
LEMMA ReportKeeps ==
  ASSUME IInv, NEW c \in Contract,
         \/ ApplyBaselineMismatch(c) \/ ApplyAlreadyComplete(c) \/ ApplyTargetUnresolved(c)
         \/ ApplyNotLocked(c) \/ ApplyReadFails(c) \/ ApplyCommitFails(c)
         \/ AppendEvidenceFails(c) \/ Regenerate(c)
  PROVE  IInv'
<1>1. \E s \in Results : Finish(c, s)
  BY DEF ApplyBaselineMismatch, ApplyAlreadyComplete, ApplyTargetUnresolved, ApplyNotLocked,
         ApplyReadFails, ApplyCommitFails, AppendEvidenceFails, Regenerate, Results
<1>2. UNCHANGED <<authority, head, payloads, resolved, pc, commits>>
  BY DEF ApplyBaselineMismatch, ApplyAlreadyComplete, ApplyTargetUnresolved, ApplyNotLocked,
         ApplyReadFails, ApplyCommitFails, AppendEvidenceFails, Regenerate
<1> QED BY <1>1, <1>2, FinishKeeps

LEMMA NextIInv == IInv /\ [Next]_vars => IInv'
<1> SUFFICES ASSUME IInv, [Next]_vars PROVE IInv'
  OBVIOUS
<1>1. CASE UNCHANGED vars
  BY <1>1 DEF vars, IInv, TypeOK, Memory
<1>2. ASSUME NEW c \in Contract, Command(c) PROVE IInv'
  BY <1>2, PrepareStartKeeps, PrepareBindKeeps, PrepareResolveKeeps, PreparePublishKeeps,
     ReportKeeps, ApplyBeginsKeeps, ApplyReadKeeps, ApplyCommitKeeps, ApplyCommitDiesKeeps,
     AppendEvidenceKeeps, DieKeeps DEF Command
<1>3. ASSUME NEW c \in Contract, Lock(c) \/ Redraft(c) PROVE IInv'
  BY <1>3, LockKeeps, RedraftKeeps
<1>4. CASE GitCommit \/ GitRestore \/ \E p \in Path : Edit(p)
  BY <1>4, DeveloperKeeps
<1> QED BY <1>1, <1>2, <1>3, <1>4 DEF Next

LEMMA Inductive == Spec => []IInv
  BY InitIInv, NextIInv, PTL DEF Spec

(* Every state of the provider is a state the code can store. *)
THEOREM PromotionTypeCorrect == Spec => []TypeOK
<1>1. IInv => TypeOK
  BY DEF IInv
<1> QED BY <1>1, Inductive, PTL

(* A commit writes only bytes whose fingerprints a human locked, however    *)
(* many prepares rewrite the shared store meanwhile.                        *)
THEOREM OnlyLockedBytes == Spec => CommitsLockedBytes
<1>1. ASSUME IInv, NEW c \in Contract, ApplyCommit(c)
      PROVE  LET doc == proc[c].loaded IN
             /\ doc.lock = Fingerprint(c, doc)
             /\ \A i \in DOMAIN Mutations[c] : proc[c].writes[i].content = doc.bindings[i]
  BY <1>1 DEF IInv, Memory, ApplyCommit, LockValid
<1>2. IInv => \A c \in Contract : ApplyCommit(c) =>
          LET doc == proc[c].loaded IN
          /\ doc.lock = Fingerprint(c, doc)
          /\ \A i \in DOMAIN Mutations[c] : proc[c].writes[i].content = doc.bindings[i]
  BY <1>1
<1> QED BY <1>2, Inductive, PTL DEF CommitsLockedBytes

-----------------------------------------------------------------------------
(***************************************************************************)
(* One command at a time, and identifiers that name one target: what a     *)
(* contract binds was made from its baseline, what it commits replaces     *)
(* that baseline, and what evidence says stands in the tree.               *)
(***************************************************************************)

(* Contracts share the store by mutation identifiers: one identifier is     *)
(* for one target, in whatever contract.                                    *)
OneTarget ==
    \A c, d \in Contract : \A i \in DOMAIN Mutations[c], j \in DOMAIN Mutations[d] :
        Mutations[c][i].id = Mutations[d][j].id => Mutations[c][i].target = Mutations[d][j].target

(* A contract mutates a file once. *)
TargetsApart ==
    \A c \in Contract : \A i, j \in DOMAIN Mutations[c] :
        Mutations[c][i].target = Mutations[c][j].target => i = j

ResolvedAsNamed ==
    \A c \in Contract : \A i \in DOMAIN Mutations[c] :
        resolved[Mutations[c][i].id] \in {None, Mutations[c][i].target}

WritesAsNamed(c) ==
    proc[c].at = "committing" =>
        /\ DOMAIN proc[c].writes = DOMAIN Mutations[c]
        /\ \A i \in DOMAIN Mutations[c] : proc[c].writes[i].path = Mutations[c][i].target

Targeted == IInv /\ ResolvedAsNamed /\ \A c \in Contract : WritesAsNamed(c)

LEMMA InitTargeted == Init => Targeted
<1> SUFFICES ASSUME Init PROVE Targeted
  OBVIOUS
<1>1. ResolvedAsNamed
  BY MutationType DEF Init, ResolvedAsNamed
<1>2. \A c \in Contract : WritesAsNamed(c)
  BY DEF Init, WritesAsNamed, Idle
<1> QED BY <1>1, <1>2, InitIInv DEF Targeted

LEMMA PathAsNamed ==
  ASSUME ResolvedAsNamed, NEW c \in Contract, NEW i \in DOMAIN Mutations[c]
  PROVE  PathOf(Mutations[c][i]) = Mutations[c][i].target
  BY DEF ResolvedAsNamed, PathOf

LEMMA ResolveTargeted ==
  ASSUME Targeted, OneTarget, NEW c \in Contract, PrepareResolve(c)
  PROVE  ResolvedAsNamed'
<1> SUFFICES ASSUME NEW d \in Contract, NEW j \in DOMAIN Mutations[d]
             PROVE  resolved'[Mutations[d][j].id] \in {None, Mutations[d][j].target}
  BY DEF ResolvedAsNamed
<1> DEFINE id == Mutations[d][j].id
           S == {Mutations[c][i] : i \in DOMAIN Mutations[c]}
<1>1. id \in MutationId
  BY MutationType
<1>2. resolved'[id] = IF \E i \in DOMAIN Mutations[c] : Mutations[c][i].id = id
                      THEN (CHOOSE m \in S : m.id = id).target ELSE None
  BY <1>1 DEF PrepareResolve
<1>3. ASSUME NEW i \in DOMAIN Mutations[c], Mutations[c][i].id = id
      PROVE  (CHOOSE m \in S : m.id = id).target = Mutations[d][j].target
  <2>1. \E m \in S : m.id = id
    BY <1>3
  <2> DEFINE m == CHOOSE m \in S : m.id = id
  <2>2. m \in S /\ m.id = id
    BY <2>1
  <2> HIDE DEF m
  <2>3. PICK k \in DOMAIN Mutations[c] : m = Mutations[c][k]
    BY <2>2
  <2>4. m.target = Mutations[d][j].target
    BY <2>2, <2>3 DEF OneTarget
  <2> QED BY <2>4 DEF m
<1> QED BY <1>2, <1>3

(* A command changes its own memory and contract only, and only reading     *)
(* payloads leads to a commit.                                              *)
LEMMA OwnMemory ==
  ASSUME IInv, NEW c \in Contract, Command(c), NEW d \in Contract, d # c
  PROVE  proc'[d] = proc[d] /\ pc'[d] = pc[d]
<1>1. proc \in [Contract -> Process] /\ pc \in [Contract -> Doc]
  BY DEF IInv, TypeOK
<1> QED
  BY <1>1 DEF Command, PrepareStart, PrepareBind, PrepareResolve, PreparePublish, Finish,
     ApplyBaselineMismatch, ApplyAlreadyComplete, ApplyRecoverEvidence, ApplyTargetUnresolved,
     ApplyNotLocked, ApplyStart, ApplyRead, ApplyReadFails, ApplyCommit, ApplyCommitFails,
     ApplyCommitDies, AppendEvidence, AppendEvidenceFails, Regenerate, Die

LEMMA OnlyReadingCommits ==
  ASSUME IInv, NEW c \in Contract, Command(c), ~ ApplyRead(c)
  PROVE  proc'[c].at # "committing"
<1>1. proc \in [Contract -> Process] /\ proc[c] \in Process
  BY DEF IInv, TypeOK
<1>2. ASSUME PrepareStart(c) \/ ApplyRecoverEvidence(c) \/ ApplyStart(c)
      PROVE  proc'[c].at # "committing"
  <2>1. ASSUME NEW r, r.at # "committing", proc' = [proc EXCEPT ![c] = r]
        PROVE  proc'[c].at # "committing"
    BY <1>1, <2>1
  <2>2. CASE PrepareStart(c)
    BY <2>1, <2>2 DEF PrepareStart
  <2>3. CASE ApplyRecoverEvidence(c)
    <3>1. [Idle EXCEPT !.at = "evidence", !.loaded = pc[c]].at # "committing"
      BY DEF Idle
    <3> QED BY <2>1, <2>3, <3>1 DEF ApplyRecoverEvidence
  <2>4. CASE ApplyStart(c)
    <3>1. [Idle EXCEPT !.at = "reading", !.loaded = pc[c]].at # "committing"
      BY DEF Idle
    <3> QED BY <2>1, <2>4, <3>1 DEF ApplyStart
  <2> QED BY <1>2, <2>2, <2>3, <2>4
<1>3. ASSUME PrepareBind(c) \/ PrepareResolve(c) \/ ApplyCommit(c) \/ AppendEvidence(c)
      PROVE  proc'[c].at # "committing"
  BY <1>1, <1>3 DEF PrepareBind, PrepareResolve, ApplyCommit, AppendEvidence, Process
<1>4. ASSUME proc' = [proc EXCEPT ![c] = Idle]
      PROVE  proc'[c].at # "committing"
  BY <1>1, <1>4 DEF Idle
<1> QED
  BY <1>2, <1>3, <1>4 DEF Command, PreparePublish, Finish, ApplyBaselineMismatch,
     ApplyAlreadyComplete, ApplyTargetUnresolved, ApplyNotLocked, ApplyReadFails,
     ApplyCommitFails, ApplyCommitDies, AppendEvidenceFails, Regenerate, Die

LEMMA NextTargeted ==
  ASSUME Targeted, OneTarget, [Next]_vars
  PROVE  Targeted'
<1>1. IInv'
  BY NextIInv DEF Targeted
<1>2. ResolvedAsNamed'
  <2>1. CASE resolved' = resolved
    BY <2>1 DEF Targeted, ResolvedAsNamed
  <2>2. ASSUME NEW c \in Contract, PrepareResolve(c) PROVE ResolvedAsNamed'
    BY <2>2, ResolveTargeted
  <2>3. resolved' = resolved \/ \E c \in Contract : PrepareResolve(c)
    BY DEF Next, vars, Command, PrepareStart, PrepareBind, PreparePublish,
       ApplyBaselineMismatch, ApplyAlreadyComplete, ApplyRecoverEvidence, ApplyTargetUnresolved,
       ApplyNotLocked, ApplyStart, ApplyRead, ApplyReadFails, ApplyCommit, ApplyCommitFails,
       ApplyCommitDies, AppendEvidence, AppendEvidenceFails, Regenerate, Die, Lock, Redraft,
       GitCommit, GitRestore, Edit
  <2> QED BY <2>1, <2>2, <2>3
<1>3. ASSUME NEW c \in Contract PROVE WritesAsNamed(c)'
  <2>1. CASE proc'[c] = proc[c]
    BY <2>1 DEF Targeted, WritesAsNamed
  <2>2. CASE proc'[c].at # "committing"
    BY <2>2 DEF WritesAsNamed
  <2>3. CASE ApplyRead(c)
    <3> DEFINE w == [i \in DOMAIN Mutations[c] |->
                       [path |-> PathOf(Mutations[c][i]),
                        content |-> payloads[Mutations[c][i].id],
                        operation |-> Mutations[c][i].operation]]
    <3>1. proc'[c].writes = w
      <4>1. proc'[c] = [[proc[c] EXCEPT !.at = "committing"] EXCEPT !.writes = w]
        BY <2>3 DEF ApplyRead, Targeted, IInv, TypeOK
      <4>2. proc[c] \in Process
        BY DEF Targeted, IInv, TypeOK
      <4> HIDE DEF w
      <4> QED BY <4>1, <4>2 DEF Process
    <3>2. \A i \in DOMAIN Mutations[c] : w[i].path = Mutations[c][i].target
      BY PathAsNamed DEF Targeted
    <3> QED BY <3>1, <3>2 DEF WritesAsNamed
  <2>4. proc'[c] = proc[c] \/ proc'[c].at # "committing" \/ ApplyRead(c)
    <3>1. IInv
      BY DEF Targeted
    <3>2. CASE \E d \in Contract : Command(d)
      BY <3>1, <3>2, OwnMemory, OnlyReadingCommits
    <3>3. CASE ~ \E d \in Contract : Command(d)
      BY <3>3 DEF Next, vars, Lock, Redraft, GitCommit, GitRestore, Edit
    <3> QED BY <3>2, <3>3
  <2> QED BY <2>1, <2>2, <2>3, <2>4
<1> QED BY <1>1, <1>2, <1>3 DEF Targeted

(* Every write goes to the target its mutation names, if an identifier is   *)
(* for one target: shared identifiers are all that can misdirect a commit.  *)
THEOREM LockedTargets == OneTarget => (Spec => AppliesLockedTargets)
<1> SUFFICES ASSUME OneTarget PROVE Spec => AppliesLockedTargets
  OBVIOUS
<1>1. Spec => []Targeted
  BY InitTargeted, NextTargeted, PTL DEF Spec
<1>2. Targeted => \A c \in Contract : ApplyCommit(c) =>
          \A i \in DOMAIN Mutations[c] : proc[c].writes[i].path = Mutations[c][i].target
  BY DEF Targeted, WritesAsNamed, ApplyCommit
<1> QED BY <1>1, <1>2, PTL DEF AppliesLockedTargets

-----------------------------------------------------------------------------
ImageOn(c, i, tree) == PostImage(c, i, tree[Mutations[c][i].target])

(* An unblocked contract binds what its mutations make of its baseline. *)
MadeFrom(c, doc) ==
    ~ doc.blocked =>
        \A i \in DOMAIN Mutations[c] :
            doc.bindings[i] # None => doc.bindings[i] = ImageOn(c, i, doc.baseline)

(* What a command knows of the working tree while nobody else touches it.   *)
Tied(c) ==
    LET r == proc[c] IN
    /\ MadeFrom(c, pc[c])
    /\ r.at # "idle" => MadeFrom(c, r.loaded)
    /\ r.at \in {"binding", "publishing"} =>
          \A i \in DOMAIN Mutations[c] : r.writes[i].content = ImageOn(c, i, authority)
    /\ r.at \in {"reading", "committing"} => authority = r.loaded.baseline
    /\ r.at = "evidence" /\ TargetsApart =>
          \A i \in DOMAIN Mutations[c] :
              authority[Mutations[c][i].target] = r.loaded.bindings[i]

Alone == \A c, d \in Contract : proc[c].at # "idle" /\ proc[d].at # "idle" => c = d

SerialInv == Targeted /\ Alone /\ \A c \in Contract : Tied(c)

LEMMA InitSerial == Init => SerialInv
<1> SUFFICES ASSUME Init PROVE SerialInv
  OBVIOUS
<1>1. \A c \in Contract : proc[c].at = "idle"
  BY DEF Init, Idle
<1>2. \A c \in Contract : MadeFrom(c, pc[c])
  BY DEF Init, Draft, MadeFrom
<1> QED BY <1>1, <1>2, InitTargeted DEF SerialInv, Alone, Tied

(* Whoever runs, or starts while nobody runs, leaves the others idle.       *)
LEMMA OneTied ==
  ASSUME SerialInv, Targeted', NEW c \in Contract, Tied(c)',
         \A d \in Contract \ {c} : proc'[d] = proc[d] /\ pc'[d] = pc[d],
         \/ proc[c].at # "idle" \/ Quiet
         \/ authority' = authority /\ proc'[c] = proc[c]
  PROVE  SerialInv'
<1>1. ASSUME NEW d \in Contract \ {c} PROVE Tied(d)'
  <2>1. Tied(d) /\ proc'[d] = proc[d] /\ pc'[d] = pc[d]
    BY <1>1 DEF SerialInv
  <2>2. CASE authority' = authority
    BY <2>1, <2>2 DEF Tied, MadeFrom, ImageOn
  <2>3. CASE proc[d].at = "idle"
    BY <2>1, <2>3 DEF Tied, MadeFrom
  <2> QED BY <1>1, <2>2, <2>3 DEF SerialInv, Alone, Quiet
<1>2. Alone'
  BY DEF SerialInv, Alone, Quiet
<1> QED BY <1>1, <1>2 DEF SerialInv

(* The command of c is idle again, and the contract as it was. *)
LEMMA IdleTied ==
  ASSUME SerialInv, NEW c \in Contract, proc' = [proc EXCEPT ![c] = Idle], pc' = pc
  PROVE  Tied(c)'
<1>1. proc'[c] = Idle
  BY DEF SerialInv, Targeted, IInv, TypeOK
<1>2. MadeFrom(c, pc'[c])
  BY DEF SerialInv, Tied
<1> QED BY <1>1, <1>2 DEF Tied, MadeFrom, Idle

LEMMA PrepareTied ==
  ASSUME SerialInv, NEW c \in Contract,
         PrepareStart(c) \/ PrepareBind(c) \/ PrepareResolve(c)
  PROVE  Tied(c)'
<1>1. /\ proc[c] \in Process /\ proc \in [Contract -> Process] /\ Tied(c)
      /\ pc' = pc /\ authority' = authority
  BY DEF SerialInv, Targeted, IInv, TypeOK, PrepareStart, PrepareBind, PrepareResolve
<1>2. CASE PrepareStart(c)
  <2> DEFINE w == [i \in DOMAIN Mutations[c] |->
                     [path |-> Mutations[c][i].target,
                      content |-> PostImage(c, i, authority[Mutations[c][i].target]),
                      operation |-> Mutations[c][i].operation]]
  <2>1. proc'[c] = [at |-> "binding", loaded |-> pc[c], n |-> 0, writes |-> w]
    BY <1>1, <1>2 DEF PrepareStart
  <2>2. \A i \in DOMAIN Mutations[c] : w[i].content = ImageOn(c, i, authority)
    BY DEF ImageOn
  <2> HIDE DEF w
  <2> QED BY <1>1, <2>1, <2>2 DEF Tied, MadeFrom, ImageOn
<1>3. CASE PrepareBind(c) \/ PrepareResolve(c)
  <2>1. /\ proc[c].at = "binding" /\ proc'[c].at \in {"binding", "publishing"}
        /\ proc'[c].loaded = proc[c].loaded /\ proc'[c].writes = proc[c].writes
    BY <1>1, <1>3 DEF PrepareBind, PrepareResolve, Process
  <2> QED BY <1>1, <2>1 DEF Tied, MadeFrom, ImageOn
<1> QED BY <1>2, <1>3

(* The baseline is compared when the contract is published: what was made   *)
(* of the tree was made of the baseline.                                    *)
LEMMA PublishTied ==
  ASSUME SerialInv, NEW c \in Contract, PreparePublish(c)
  PROVE  Tied(c)'
<1> DEFINE r == proc[c]
           b == [i \in DOMAIN r.writes |-> r.writes[i].content]
<1>1. /\ r \in Process /\ r.at = "publishing" /\ r.loaded \in Doc
      /\ DOMAIN r.writes = DOMAIN Mutations[c]
      /\ \A i \in DOMAIN Mutations[c] : r.writes[i].content = ImageOn(c, i, authority)
      /\ pc \in [Contract -> Doc] /\ proc \in [Contract -> Process]
  BY DEF PreparePublish, SerialInv, Targeted, IInv, TypeOK, Memory, Fits, Tied
<1>2. \A i \in DOMAIN Mutations[c] : b[i] = ImageOn(c, i, authority)
  BY <1>1
<1>3. PICK valid \in BOOLEAN :
        pc' = [pc EXCEPT ![c] = [r.loaded EXCEPT
                 !.bindings = b, !.blocked = @ \/ ~valid \/ ~Equivalent(r.loaded)]]
  BY DEF PreparePublish
<1> HIDE DEF b
<1> DEFINE blocked == r.loaded.blocked \/ ~valid \/ ~Equivalent(r.loaded)
<1>4. pc'[c] = [[r.loaded EXCEPT !.bindings = b] EXCEPT !.blocked = blocked]
  BY <1>1, <1>3
<1>5. blocked \in BOOLEAN
  BY <1>1 DEF Doc, Equivalent
<1>6. ~ blocked => authority = r.loaded.baseline
  BY DEF Equivalent
<1> HIDE DEF blocked
<1>7. pc'[c].bindings = b /\ pc'[c].blocked = blocked /\ pc'[c].baseline = r.loaded.baseline
  BY <1>1, <1>4 DEF Doc
<1>8. MadeFrom(c, pc'[c])
  BY <1>2, <1>6, <1>7 DEF MadeFrom
<1>9. proc'[c] = Idle
  BY <1>1 DEF PreparePublish, Finish
<1> QED BY <1>8, <1>9 DEF Tied, MadeFrom, Idle

LEMMA ContractTied ==
  ASSUME SerialInv, NEW c \in Contract, Lock(c) \/ Redraft(c)
  PROVE  Tied(c)'
<1>1. /\ pc[c] \in Doc /\ pc \in [Contract -> Doc] /\ Tied(c)
      /\ proc[c].at = "idle" /\ proc' = proc
  BY DEF SerialInv, Targeted, IInv, TypeOK, Lock, Redraft
<1>2. CASE Lock(c)
  <2>1. /\ pc'[c].bindings = pc[c].bindings /\ pc'[c].blocked = pc[c].blocked
        /\ pc'[c].baseline = pc[c].baseline
    BY <1>1, <1>2 DEF Lock, Doc
  <2> QED BY <1>1, <2>1 DEF Tied, MadeFrom
<1>3. CASE Redraft(c)
  <2>1. pc'[c] = Draft(c, head)
    BY <1>1, <1>3 DEF Redraft
  <2>2. MadeFrom(c, pc'[c])
    BY <2>1 DEF Draft, MadeFrom
  <2> QED BY <1>1, <2>2 DEF Tied, MadeFrom
<1> QED BY <1>2, <1>3

LEMMA BeginTied ==
  ASSUME SerialInv, NEW c \in Contract, ApplyRecoverEvidence(c) \/ ApplyStart(c)
  PROVE  Tied(c)'
<1>1. /\ proc \in [Contract -> Process] /\ Tied(c) /\ pc' = pc /\ authority' = authority
      /\ authority = pc[c].baseline
  BY DEF SerialInv, Targeted, IInv, TypeOK, ApplyRecoverEvidence, ApplyStart, Equivalent
<1>2. ASSUME NEW at, proc' = [proc EXCEPT ![c] = [Idle EXCEPT !.at = at, !.loaded = pc[c]]]
      PROVE  proc'[c].at = at /\ proc'[c].loaded = pc[c]
  <2> DEFINE r == [Idle EXCEPT !.at = at, !.loaded = pc[c]]
  <2>1. r.at = at /\ r.loaded = pc[c]
    BY DEF Idle
  <2> HIDE DEF r
  <2>2. proc' = [proc EXCEPT ![c] = r]
    BY <1>2 DEF r
  <2> QED BY <1>1, <2>1, <2>2
<1>3. CASE ApplyRecoverEvidence(c)
  <2>1. proc'[c].at = "evidence" /\ proc'[c].loaded = pc[c]
    BY <1>2, <1>3 DEF ApplyRecoverEvidence
  <2>2. \A i \in DOMAIN Mutations[c] : authority[Mutations[c][i].target] = pc[c].bindings[i]
    BY <1>3, PathAsNamed DEF ApplyRecoverEvidence, PostImagesMatch, InPlace, SerialInv, Targeted
  <2> QED BY <1>1, <2>1, <2>2 DEF Tied, MadeFrom
<1>4. CASE ApplyStart(c)
  <2>1. proc'[c].at = "reading" /\ proc'[c].loaded = pc[c]
    BY <1>2, <1>4 DEF ApplyStart
  <2> QED BY <1>1, <2>1 DEF Tied, MadeFrom
<1> QED BY <1>3, <1>4

LEMMA ReadTied ==
  ASSUME SerialInv, NEW c \in Contract, ApplyRead(c)
  PROVE  Tied(c)'
<1>1. /\ proc \in [Contract -> Process] /\ proc[c] \in Process /\ Tied(c)
      /\ pc' = pc /\ authority' = authority /\ proc[c].at = "reading"
  BY DEF SerialInv, Targeted, IInv, TypeOK, ApplyRead
<1>2. ASSUME NEW w, proc' = [proc EXCEPT ![c].at = "committing", ![c].writes = w]
      PROVE  proc'[c].at = "committing" /\ proc'[c].loaded = proc[c].loaded
  BY <1>1, <1>2 DEF Process
<1>3. proc'[c].at = "committing" /\ proc'[c].loaded = proc[c].loaded
  BY <1>2 DEF ApplyRead
<1> QED BY <1>1, <1>3 DEF Tied, MadeFrom

(* Of writes to distinct files, each stands.                                *)
LEMMA EachStands ==
  ASSUME NEW files, NEW writes, NEW n \in Nat, NEW i \in 1..n, writes[i].path \in Path,
         \A j \in 1..n : writes[j].path = writes[i].path => j = i
  PROVE  Written(files, writes, n)[writes[i].path] = writes[i].content
<1> DEFINE p == writes[i].path
           k == CHOOSE j \in 1..n : LastTo(writes, n, p, j)
<1>1. LastTo(writes, n, p, i)
  BY DEF LastTo
<1>2. k \in 1..n /\ LastTo(writes, n, p, k)
  BY <1>1
<1>3. k = i
  BY <1>2 DEF LastTo
<1>4. Written(files, writes, n)[p] = writes[k].content
  BY <1>1 DEF Written
<1> QED BY <1>3, <1>4

LEMMA CommitTied ==
  ASSUME SerialInv, NEW c \in Contract, ApplyCommit(c)
  PROVE  Tied(c)'
<1> DEFINE w == proc[c].writes
<1>1. /\ proc \in [Contract -> Process] /\ proc[c] \in Process /\ Tied(c) /\ Memory(c)
      /\ WritesAsNamed(c) /\ pc' = pc /\ proc[c].at = "committing"
  BY DEF SerialInv, Targeted, IInv, TypeOK, ApplyCommit
<1>2. proc'[c].at = "evidence" /\ proc'[c].loaded = proc[c].loaded
  BY <1>1 DEF ApplyCommit, Process
<1>3. ASSUME TargetsApart, NEW i \in DOMAIN Mutations[c]
      PROVE  authority'[Mutations[c][i].target] = proc[c].loaded.bindings[i]
  <2>1. w \in Seq(Planned) /\ Len(w) \in Nat /\ DOMAIN w = 1..Len(w)
    BY <1>1 DEF Process
  <2>2. DOMAIN w = DOMAIN Mutations[c] /\ w[i].content = proc[c].loaded.bindings[i]
        /\ \A j \in DOMAIN Mutations[c] : w[j].path = Mutations[c][j].target
    BY <1>1 DEF WritesAsNamed, Memory
  <2>3. Mutations[c][i].target \in Path
    BY MutationType
  <2>4. authority' = Written(authority, w, Len(w))
    BY DEF ApplyCommit
  <2> HIDE DEF w
  <2>5. i \in 1..Len(w) /\ w[i].path = Mutations[c][i].target
    BY <2>1, <2>2
  <2>6. \A j \in 1..Len(w) : w[j].path = w[i].path => j = i
    BY <1>3, <2>1, <2>2 DEF TargetsApart
  <2> QED BY <2>1, <2>2, <2>3, <2>4, <2>5, <2>6, EachStands
<1> HIDE DEF w
<1> QED BY <1>1, <1>2, <1>3 DEF Tied, MadeFrom

LEMMA EvidenceTied ==
  ASSUME SerialInv, NEW c \in Contract, AppendEvidence(c)
  PROVE  Tied(c)'
<1>1. /\ proc \in [Contract -> Process] /\ proc[c] \in Process /\ Tied(c)
      /\ pc \in [Contract -> Doc] /\ pc[c] \in Doc /\ proc[c].at = "evidence"
  BY DEF SerialInv, Targeted, IInv, TypeOK, AppendEvidence
<1>2. proc'[c].at = "regenerating" /\ proc'[c].loaded = proc[c].loaded
  BY <1>1 DEF AppendEvidence, Process
<1>3. /\ pc'[c].bindings = pc[c].bindings /\ pc'[c].blocked = pc[c].blocked
      /\ pc'[c].baseline = pc[c].baseline
  BY <1>1 DEF AppendEvidence, Doc
<1> QED BY <1>1, <1>2, <1>3 DEF Tied, MadeFrom

LEMMA CommandTied ==
  ASSUME SerialInv, NEW c \in Contract, Command(c)
  PROVE  Tied(c)'
<1>1. ASSUME \/ PreparePublish(c) \/ AppendEvidence(c) \/ ApplyCommit(c) \/ ApplyRead(c)
             \/ ApplyRecoverEvidence(c) \/ ApplyStart(c)
             \/ PrepareStart(c) \/ PrepareBind(c) \/ PrepareResolve(c)
      PROVE  Tied(c)'
  BY <1>1, PublishTied, EvidenceTied, CommitTied, ReadTied, BeginTied, PrepareTied
<1>2. ASSUME \/ ApplyBaselineMismatch(c) \/ ApplyAlreadyComplete(c) \/ ApplyTargetUnresolved(c)
             \/ ApplyNotLocked(c) \/ ApplyReadFails(c) \/ ApplyCommitFails(c)
             \/ ApplyCommitDies(c) \/ AppendEvidenceFails(c) \/ Regenerate(c) \/ Die(c)
      PROVE  Tied(c)'
  <2>1. proc' = [proc EXCEPT ![c] = Idle] /\ pc' = pc
    BY <1>2 DEF ApplyBaselineMismatch, ApplyAlreadyComplete, ApplyTargetUnresolved,
       ApplyNotLocked, ApplyReadFails, ApplyCommitFails, ApplyCommitDies, AppendEvidenceFails,
       Regenerate, Die, Finish
  <2> QED BY <2>1, IdleTied
<1> QED BY <1>1, <1>2 DEF Command

(* A command that is not under way starts only when nobody is. *)
LEMMA CommandsWait ==
  ASSUME Serial, NEW c \in Contract, Command(c)
  PROVE  proc[c].at # "idle" \/ Quiet
  BY DEF Command, MayStart, PrepareStart, PrepareBind, PrepareResolve, PreparePublish,
     ApplyBaselineMismatch, ApplyAlreadyComplete, ApplyRecoverEvidence, ApplyTargetUnresolved,
     ApplyNotLocked, ApplyStart, ApplyRead, ApplyReadFails, ApplyCommit, ApplyCommitFails,
     ApplyCommitDies, AppendEvidence, AppendEvidenceFails, Regenerate, Die

LEMMA NextSerial ==
  ASSUME Serial, OneTarget, SerialInv, [Next]_vars
  PROVE  SerialInv'
<1>1. Targeted' /\ IInv
  BY NextTargeted DEF SerialInv, Targeted
<1>2. CASE UNCHANGED vars
  BY <1>1, <1>2 DEF vars, SerialInv, Alone, Tied, MadeFrom, ImageOn
<1>3. ASSUME NEW c \in Contract, Command(c) PROVE SerialInv'
  BY <1>1, <1>3, CommandTied, CommandsWait, OwnMemory, OneTied
<1>4. ASSUME NEW c \in Contract, Lock(c) \/ Redraft(c) PROVE SerialInv'
  <2>1. proc' = proc /\ authority' = authority
    BY <1>4 DEF Lock, Redraft
  <2>2. \A d \in Contract \ {c} : pc'[d] = pc[d]
    <3>1. pc \in [Contract -> Doc]
      BY <1>1 DEF IInv, TypeOK
    <3>2. ASSUME NEW doc, pc' = [pc EXCEPT ![c] = doc], NEW d \in Contract \ {c}
          PROVE  pc'[d] = pc[d]
      BY <3>1, <3>2
    <3>3. CASE Lock(c)
      BY <3>2, <3>3 DEF Lock
    <3>4. CASE Redraft(c)
      BY <3>2, <3>4 DEF Redraft
    <3> QED BY <1>4, <3>3, <3>4
  <2> QED BY <1>1, <1>4, <2>1, <2>2, ContractTied, OneTied
<1>5. CASE GitCommit \/ GitRestore \/ \E p \in Path : Edit(p)
  <2>1. proc' = proc /\ pc' = pc /\ Quiet
    BY <1>5 DEF GitCommit, GitRestore, Edit, MayStart
  <2>2. \A c \in Contract : Tied(c)'
    BY <2>1 DEF SerialInv, Tied, MadeFrom, Quiet
  <2>3. Alone'
    BY <2>1 DEF SerialInv, Alone
  <2> QED BY <1>1, <2>2, <2>3 DEF SerialInv
<1> QED BY <1>2, <1>3, <1>4, <1>5 DEF Next

(* With one command at a time, and identifiers that name one target, a      *)
(* commit replaces exactly what its post-images were made from: whatever    *)
(* people edit, commit and restore between prepare, lock and apply, and     *)
(* whatever other contracts did.                                            *)
THEOREM LosesNoWork == Serial /\ OneTarget => (Spec => NoLostWork)
<1> SUFFICES ASSUME Serial, OneTarget PROVE Spec => NoLostWork
  OBVIOUS
<1>1. Spec => []SerialInv
  BY InitSerial, NextSerial, PTL DEF Spec
<1>2. ASSUME SerialInv, NEW c \in Contract, ApplyCommit(c),
             NEW i \in DOMAIN proc[c].writes
      PROVE  LET w == proc[c].writes[i] IN
             authority[w.path] = w.content \/ authority[w.path].is = w.content.from
  <2> DEFINE w == proc[c].writes[i]
             doc == proc[c].loaded
             m == Mutations[c][i]
  <2>1. /\ proc[c].at = "committing" /\ Memory(c) /\ Tied(c) /\ WritesAsNamed(c)
    BY <1>2 DEF ApplyCommit, SerialInv, Targeted, IInv
  <2>2. /\ i \in DOMAIN Mutations[c] /\ w.path = m.target /\ w.content = doc.bindings[i]
        /\ authority = doc.baseline /\ MadeFrom(c, doc)
    BY <1>2, <2>1 DEF WritesAsNamed, Memory, Tied
  <2>3. ~ doc.blocked /\ doc.bindings[i] # None
    BY <2>1, <2>2 DEF Memory, LockValid, Ready, Fits
  <2>4. w.content = PostImage(c, i, authority[w.path])
    BY <2>2, <2>3 DEF MadeFrom, ImageOn
  <2> HIDE DEF w
  <2>5. authority[w.path] = w.content \/ authority[w.path].is = w.content.from
    BY <2>4 DEF PostImage
  <2> QED BY <2>5 DEF w
<1>3. SerialInv => \A c \in Contract : ApplyCommit(c) =>
          \A i \in DOMAIN proc[c].writes :
              LET w == proc[c].writes[i] IN
              authority[w.path] = w.content \/ authority[w.path].is = w.content.from
  BY <1>2
<1> QED BY <1>1, <1>3, PTL DEF NoLostWork

(* If a contract, besides, mutates a file once, its evidence of success is  *)
(* true when it is written, whether the commit or a recovery writes it.     *)
THEOREM EvidenceAlwaysTrue == Serial /\ OneTarget /\ TargetsApart => (Spec => EvidenceIsTrue)
<1> SUFFICES ASSUME Serial, OneTarget, TargetsApart PROVE Spec => EvidenceIsTrue
  OBVIOUS
<1>1. Spec => []SerialInv
  BY InitSerial, NextSerial, PTL DEF Spec
<1>2. SerialInv => \A c \in Contract : AppendEvidence(c) =>
          \A i \in DOMAIN Mutations[c] :
              authority[Mutations[c][i].target] = proc[c].loaded.bindings[i]
  BY DEF SerialInv, Tied, AppendEvidence
<1> QED BY <1>1, <1>2, PTL DEF EvidenceIsTrue
=============================================================================
