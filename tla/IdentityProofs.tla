--------------------------- MODULE IdentityProofs ---------------------------
(***************************************************************************)
(* How the repository gives out identities: numbers of ADRs by type        *)
(* (IdAllocation), UUIDs of everything they declare (IdentityMigration).   *)
(***************************************************************************)
EXTENDS IdAllocation, IdentityMigration, TLAPS

(***************************************************************************)
(* IdAllocation: types for all constants; under serial use, no number is   *)
(* handed out that a document of the directory declares, and none twice as *)
(* long as no write of the marks is cut short.                             *)
(***************************************************************************)
LEMMA IdleType == Idle \in Invocation
BY TypeAssumption, BandAssumption DEF Idle, NoMarks, Invocation, Steps, Marks

LEMMA NormalBand == /\ NormalEnd \in Nat /\ 0 \in 0..NormalEnd
                    /\ \A t \in Type : Occupied(t) \subseteq 0..NormalEnd
BY BandAssumption DEF Occupied

LEMMA InitType == AllocInit => IdTypeOK
<1> SUFFICES ASSUME AllocInit PROVE IdTypeOK
  OBVIOUS
<1>1. numbers \in [File -> {NoFile, Unreadable} \cup 0..ReservedEnd] /\ marks \in Marks
  BY BandAssumption DEF AllocInit, NoMarks, Marks
<1>2. \A p \in Process : proc[p] = Idle /\ proc[p].at = "idle"
  BY DEF AllocInit, Idle
<1>3. proc \in [Process -> Invocation]
  BY IdleType DEF AllocInit
<1> QED BY <1>1, <1>2, <1>3 DEF AllocInit, IdTypeOK

(* No mark, no local variable and no identifier leaves its range. *)
THEOREM AllocationTypeCorrect == AllocSpec => []IdTypeOK
<1>1. AllocInit => IdTypeOK
  BY InitType
<1>2. IdTypeOK /\ [AllocNext]_allocVars => IdTypeOK'
  <2> SUFFICES ASSUME IdTypeOK, [AllocNext]_allocVars PROVE IdTypeOK'
    OBVIOUS
  <2> USE NormalBand, BandAssumption
  <2>1. ASSUME NEW p \in Process, Fails(p) PROVE IdTypeOK'
    BY <2>1, IdleType DEF Fails, IdTypeOK, Idle
  <2>2. ASSUME NEW p \in Process, NEW t \in Type, Start(p, t) PROVE IdTypeOK'
    <3>1. [Idle EXCEPT !.at = "loading", !.type = t] \in Invocation
      BY IdleType DEF Invocation, Steps
    <3>2. [Idle EXCEPT !.at = "loading", !.type = t].at = "loading"
      BY IdleType DEF Invocation
    <3> QED BY <2>2, <3>1, <3>2 DEF Start, IdTypeOK
  <2>3. ASSUME NEW p \in Process, Load(p) PROVE IdTypeOK'
    BY <2>3 DEF Load, IdTypeOK, Invocation, Steps, Marks
  <2>4. ASSUME NEW p \in Process, Scan(p) PROVE IdTypeOK'
    <3>1. proc[p] \in Invocation /\ proc[p].type \in Type
      BY DEF IdTypeOK, Invocation
    <3>2. PICK n \in {proc[p].highest} \cup Occupied(proc[p].type) :
             proc' = [proc EXCEPT ![p].at = "scanned", ![p].highest = n]
      BY <2>4 DEF Scan, Greatest
    <3>3. n \in 0..NormalEnd
      BY <3>1 DEF Invocation
    <3>4. [proc[p] EXCEPT !.at = "scanned", !.highest = n] \in Invocation
      BY <3>1, <3>3 DEF Invocation, Steps
    <3>5. proc' = [proc EXCEPT ![p] = [proc[p] EXCEPT !.at = "scanned", !.highest = n]]
      BY <3>2
    <3>6. [proc[p] EXCEPT !.at = "scanned", !.highest = n].at = "scanned"
      BY <3>1 DEF Invocation
    <3> QED BY <2>4, <3>4, <3>5, <3>6 DEF Scan, IdTypeOK
  <2>5. ASSUME NEW p \in Process, SaveRead(p) PROVE IdTypeOK'
    <3>1. proc[p] \in Invocation /\ marks \in Marks
      BY <2>5 DEF SaveRead, IdTypeOK
    <3>2. proc[p].highest < NormalEnd
      BY <2>5, <3>1 DEF SaveRead, Invocation
    <3> DEFINE r == [proc[p] EXCEPT !.at = "saving", !.data = marks]
    <3>3. r \in Invocation /\ r.highest = proc[p].highest
      BY <3>1 DEF Invocation, Steps
    <3>4. proc' = [proc EXCEPT ![p] = r]
      BY <2>5 DEF SaveRead
    <3> HIDE DEF r
    <3> QED BY <2>5, <3>2, <3>3, <3>4 DEF SaveRead, IdTypeOK
  <2>6. ASSUME NEW p \in Process, SaveWrite(p) PROVE IdTypeOK'
    <3>1. proc[p] \in Invocation /\ proc[p].type \in Type /\ proc[p].highest < NormalEnd
      BY <2>6 DEF SaveWrite, IdTypeOK, Invocation
    <3>2. marks' \in Marks
      <4>1. proc[p].data \in Marks /\ proc[p].highest + 1 \in 0..NormalEnd
        BY <3>1 DEF Invocation
      <4> QED BY <2>6, <3>1, <4>1 DEF SaveWrite, Greatest, Marks
    <3>3. [proc[p] EXCEPT !.at = "returning"] \in Invocation
      BY <3>1 DEF Invocation, Steps
    <3>4. proc' = [proc EXCEPT ![p] = [proc[p] EXCEPT !.at = "returning"]]
      BY <2>6 DEF SaveWrite
    <3>5. [proc[p] EXCEPT !.at = "returning"].highest = proc[p].highest
      BY <3>1 DEF Invocation
    <3> QED BY <2>6, <3>1, <3>2, <3>3, <3>4, <3>5 DEF SaveWrite, IdTypeOK
  <2>7. ASSUME NEW p \in Process, SaveWriteDies(p) PROVE IdTypeOK'
    BY <2>7, IdleType DEF SaveWriteDies, IdTypeOK, NoMarks, Marks, Idle
  <2>8. ASSUME NEW p \in Process, Return(p) PROVE IdTypeOK'
    <3>1. proc[p].highest + 1 \in 1..NormalEnd /\ proc[p].type \in Type
      BY <2>8 DEF Return, IdTypeOK, Invocation
    <3>2. numbers' \in [File -> {NoFile, Unreadable} \cup 0..ReservedEnd]
      BY <2>8, <3>1 DEF Return, IdTypeOK
    <3>3. issued' \in [Type -> SUBSET (1..NormalEnd)]
      BY <2>8, <3>1 DEF Return, IdTypeOK
    <3> QED BY <2>8, <3>2, <3>3, IdleType DEF Return, IdTypeOK, Idle
  <2>9. ASSUME NEW f \in File, Author(f) PROVE IdTypeOK'
    BY <2>9, DeclaredAssumption DEF Author, IdTypeOK
  <2>10. CASE Repair
    BY <2>10 DEF Repair, IdTypeOK, NoMarks, Marks
  <2>11. CASE UNCHANGED allocVars
    BY <2>11 DEF allocVars, IdTypeOK
  <2> QED
    BY <2>1, <2>2, <2>3, <2>4, <2>5, <2>6, <2>7, <2>8, <2>9, <2>10, <2>11
    DEF AllocNext, Command, LoadFails, ScanFails, Exhausted, Die
<1> QED BY <1>1, <1>2, PTL DEF AllocSpec

-----------------------------------------------------------------------------
(* Serial use: while an invocation runs nothing else does, so that what it  *)
(* has read still holds when it returns.                                    *)
Alone == \A p, q \in Process : proc[p].at # "idle" /\ proc[q].at # "idle" => p = q

(* The documents it scanned are not above the number it found.              *)
Scanned == {"scanned", "saving", "returning"}

AboveDocs(p) ==
    proc[p].at \in Scanned => \A n \in Occupied(proc[p].type) : n <= proc[p].highest

(* Nor are the numbers handed out since the marks were last lost: the marks *)
(* cover them, and only grow, those of the other types included.            *)
Covered == \A t \in Type : \A n \in issued[t] : marks \in Marks /\ n <= marks[t]

AboveIssued(p) ==
    /\ proc[p].at \in Scanned \cup {"scanning"} =>
          \A n \in issued[proc[p].type] : n <= proc[p].highest
    /\ proc[p].at = "saving" => proc[p].data = marks
    /\ proc[p].at = "returning" => marks \in Marks /\ proc[p].highest + 1 <= marks[proc[p].type]

IInv ==
    /\ IdTypeOK /\ Alone
    /\ \A p \in Process : AboveDocs(p)
    /\ Covered /\ \A p \in Process : AboveIssued(p)

(* A step of the running invocation: it becomes r, every other one is idle. *)
LEMMA StepKeeps ==
  ASSUME IInv, Serial, IdTypeOK', NEW p \in Process, proc[p].at # "idle",
         NEW r, proc' = [proc EXCEPT ![p] = r],
         r.at # "idle" => numbers' = numbers /\ AboveDocs(p)' /\ AboveIssued(p)',
         Covered'
  PROVE  IInv'
<1>1. proc'[p] = r /\ \A q \in Process \ {p} : proc'[q].at = "idle"
  BY DEF IInv, Alone, IdTypeOK
<1>2. Alone'
  BY <1>1 DEF Alone
<1>3. r.at = "idle" => AboveDocs(p)' /\ AboveIssued(p)'
  BY <1>1 DEF AboveDocs, AboveIssued, Scanned
<1>4. \A q \in Process \ {p} : AboveDocs(q)' /\ AboveIssued(q)'
  BY <1>1 DEF AboveDocs, AboveIssued, Scanned
<1> QED BY <1>2, <1>3, <1>4 DEF IInv

LEMMA FailsKeeps ==
  ASSUME IInv, Serial, IdTypeOK', NEW p \in Process, proc[p].at # "idle", Fails(p)
  PROVE  IInv'
<1>1. Covered'
  BY DEF Fails, IInv, Covered
<1> QED BY <1>1, StepKeeps DEF Fails, Idle

LEMMA StartKeeps ==
  ASSUME IInv, Serial, IdTypeOK', NEW p \in Process, NEW t \in Type, Start(p, t)
  PROVE  IInv'
<1> DEFINE r == [Idle EXCEPT !.at = "loading", !.type = t]
<1>1. proc' = [proc EXCEPT ![p] = r] /\ r.at = "loading"
  BY DEF Start, Idle
<1>2. \A q \in Process : proc[q].at = "idle"
  BY DEF Start, MayStart
<1>3. proc'[p].at = "loading" /\ \A q \in Process \ {p} : proc'[q].at = "idle"
  BY <1>1, <1>2 DEF IInv, IdTypeOK
<1>4. Alone' /\ \A q \in Process : AboveDocs(q)' /\ AboveIssued(q)'
  BY <1>3 DEF Alone, AboveDocs, AboveIssued, Scanned
<1>5. Covered'
  BY DEF Start, IInv, Covered
<1> QED BY <1>4, <1>5 DEF IInv

LEMMA LoadKeeps ==
  ASSUME IInv, Serial, IdTypeOK', NEW p \in Process, Load(p)
  PROVE  IInv'
<1> DEFINE r == [proc[p] EXCEPT !.at = "scanning", !.highest = marks[proc[p].type]]
<1>1. proc' = [proc EXCEPT ![p] = r] /\ proc[p].at # "idle" /\ proc[p] \in Invocation
  BY DEF Load, IInv, IdTypeOK
<1>2. r.at = "scanning" /\ r.highest = marks[proc[p].type] /\ r.type = proc[p].type
  BY <1>1 DEF Invocation
<1>3. proc'[p] = r
  BY <1>1 DEF IInv, IdTypeOK
<1>4. AboveIssued(p)'
  BY <1>1, <1>2, <1>3 DEF Load, IInv, Covered, AboveIssued, Scanned, Invocation
<1>5. AboveDocs(p)' /\ Covered'
  BY <1>2, <1>3 DEF Load, IInv, Covered, AboveDocs, Scanned
<1> HIDE DEF r
<1> QED BY <1>1, <1>4, <1>5, StepKeeps DEF Load

LEMMA ScanKeeps ==
  ASSUME IInv, Serial, IdTypeOK', NEW p \in Process, Scan(p)
  PROVE  IInv'
<1>1. proc[p].at = "scanning" /\ proc[p] \in Invocation /\ proc[p].highest \in Nat
  BY BandAssumption DEF Scan, IInv, IdTypeOK, Invocation
<1>2. PICK n \in Greatest({proc[p].highest} \cup Occupied(proc[p].type)) :
        proc' = [proc EXCEPT ![p].at = "scanned", ![p].highest = n]
  BY DEF Scan
<1>3. /\ proc[p].highest <= n /\ \A m \in Occupied(proc[p].type) : m <= n
      /\ n \in Nat
  <2>1. Occupied(proc[p].type) \subseteq Nat
    BY <1>1, BandAssumption DEF Occupied
  <2> DEFINE S == {proc[p].highest} \cup Occupied(proc[p].type)
  <2>2. n \in S /\ \A m \in S : m <= n
    BY <1>2 DEF Greatest
  <2> QED BY <1>1, <2>1, <2>2
<1> DEFINE r == [proc[p] EXCEPT !.at = "scanned", !.highest = n]
<1>4. r.at = "scanned" /\ r.highest = n /\ r.type = proc[p].type
  BY <1>1 DEF Invocation
<1>5. proc' = [proc EXCEPT ![p] = r] /\ proc'[p] = r
  BY <1>2 DEF IInv, IdTypeOK
<1>6. \A t : Occupied(t)' = Occupied(t)
  BY DEF Scan, Occupied, InDirectory
<1>7. AboveDocs(p)'
  BY <1>3, <1>4, <1>5, <1>6 DEF AboveDocs
<1>8. AboveIssued(p)'
  <2> SUFFICES ASSUME NEW m \in issued[proc[p].type] PROVE m <= n
    BY <1>4, <1>5 DEF Scan, AboveIssued, Scanned
  <2>1. m <= proc[p].highest /\ m \in Nat
    BY <1>1, BandAssumption DEF IInv, AboveIssued, Scanned, IdTypeOK, Invocation
  <2> QED BY <2>1, <1>1, <1>3
<1>9. Covered'
  BY DEF Scan, IInv, Covered
<1> HIDE DEF r
<1> QED BY <1>1, <1>4, <1>5, <1>7, <1>8, <1>9, StepKeeps DEF Scan

LEMMA SaveReadKeeps ==
  ASSUME IInv, Serial, IdTypeOK', NEW p \in Process, SaveRead(p)
  PROVE  IInv'
<1>1. proc[p].at = "scanned" /\ proc[p] \in Invocation
  BY DEF SaveRead, IInv, IdTypeOK
<1> DEFINE r == [proc[p] EXCEPT !.at = "saving", !.data = marks]
<1>2. /\ r.at = "saving" /\ r.highest = proc[p].highest /\ r.type = proc[p].type
      /\ r.data = marks
  BY <1>1 DEF Invocation
<1>3. proc' = [proc EXCEPT ![p] = r] /\ proc'[p] = r
  BY DEF SaveRead, IInv, IdTypeOK
<1>4. \A t : Occupied(t)' = Occupied(t)
  BY DEF SaveRead, Occupied, InDirectory
<1>5. AboveDocs(p)' /\ AboveIssued(p)'
  BY <1>1, <1>2, <1>3, <1>4 DEF SaveRead, IInv, AboveDocs, AboveIssued, Scanned
<1>6. Covered'
  BY DEF SaveRead, IInv, Covered
<1> HIDE DEF r
<1> QED BY <1>1, <1>2, <1>3, <1>5, <1>6, StepKeeps DEF SaveRead

LEMMA SaveWriteKeeps ==
  ASSUME IInv, Serial, IdTypeOK', NEW p \in Process, SaveWrite(p)
  PROVE  IInv'
<1>1. /\ proc[p].at = "saving" /\ proc[p] \in Invocation /\ proc[p].type \in Type
      /\ proc[p].highest \in Nat /\ proc[p].data \in Marks
  BY BandAssumption DEF SaveWrite, IInv, IdTypeOK, Invocation
<1>2. PICK n \in Greatest({proc[p].data[proc[p].type], proc[p].highest + 1}) :
        marks' = [proc[p].data EXCEPT ![proc[p].type] = n]
  BY DEF SaveWrite
<1>3. n >= proc[p].data[proc[p].type] /\ n >= proc[p].highest + 1 /\ n \in Nat
  BY <1>1, BandAssumption DEF Greatest, Marks
<1> DEFINE r == [proc[p] EXCEPT !.at = "returning"]
<1>4. r.at = "returning" /\ r.highest = proc[p].highest /\ r.type = proc[p].type
  BY <1>1 DEF Invocation
<1>5. proc' = [proc EXCEPT ![p] = r] /\ proc'[p] = r
  BY DEF SaveWrite, IInv, IdTypeOK
<1>6. \A t : Occupied(t)' = Occupied(t)
  BY DEF SaveWrite, Occupied, InDirectory
<1>7. AboveDocs(p)'
  BY <1>1, <1>4, <1>5, <1>6 DEF IInv, AboveDocs, Scanned
<1>8. marks'[proc[p].type] = n
  BY <1>1, <1>2 DEF Marks
<1>9. marks' \in Marks
  <2>1. proc[p].highest < NormalEnd
    BY <1>1 DEF IInv, IdTypeOK
  <2>2. proc[p].highest + 1 \in 0..NormalEnd /\ proc[p].data[proc[p].type] \in 0..NormalEnd
    BY <1>1, <2>1, BandAssumption DEF Marks
  <2>3. n \in 0..NormalEnd
    BY <2>2, <1>2 DEF Greatest
  <2> QED BY <1>1, <1>2, <2>3 DEF Marks
<1>10. AboveIssued(p)'
  <2>1. \A m \in issued[proc[p].type] : m <= proc[p].highest
    BY <1>1 DEF IInv, AboveIssued, Scanned
  <2>2. proc[p].highest + 1 <= n
    BY <1>1, <1>3
  <2>3. issued' = issued
    BY DEF SaveWrite
  <2> HIDE DEF r
  <2> QED BY <1>4, <1>5, <1>8, <1>9, <2>1, <2>2, <2>3 DEF AboveIssued, Marks
<1>11. Covered'
  <2>1. marks = proc[p].data /\ marks \in Marks
    BY <1>1 DEF IInv, AboveIssued
  <2>2. ASSUME NEW t \in Type, NEW m \in issued[t] PROVE m <= marks'[t]
    <3>1. m <= marks[t] /\ m \in Nat /\ marks[t] \in Nat
      BY <2>1, <2>2, BandAssumption DEF IInv, Covered, IdTypeOK, Marks
    <3>2. marks[t] <= marks'[t] /\ marks'[t] \in Nat
      BY <1>1, <1>2, <1>3, <1>8, <2>1, <3>1 DEF Marks
    <3> QED BY <3>1, <3>2
  <2> QED BY <1>9, <2>2 DEF Covered, SaveWrite
<1> HIDE DEF r
<1> QED BY <1>1, <1>4, <1>5, <1>7, <1>10, <1>11, StepKeeps DEF SaveWrite

LEMMA SaveWriteDiesKeeps ==
  ASSUME IInv, Serial, IdTypeOK', NEW p \in Process, SaveWriteDies(p)
  PROVE  IInv'
<1>1. Covered'
  BY DEF SaveWriteDies, Covered
<1> QED BY <1>1, StepKeeps DEF SaveWriteDies, Idle

LEMMA ReturnKeeps ==
  ASSUME IInv, Serial, IdTypeOK', NEW p \in Process, Return(p)
  PROVE  IInv'
<1>1. /\ proc[p].at = "returning" /\ proc[p].type \in Type /\ proc[p].highest \in Nat
      /\ proc' = [proc EXCEPT ![p] = Idle]
  BY BandAssumption DEF Return, IInv, IdTypeOK, Invocation
<1>2. Covered'
  <2>1. marks' \in Marks
    BY <1>1 DEF Return, IInv, AboveIssued
  <2>2. ASSUME NEW t \in Type, NEW m \in issued'[t] PROVE m <= marks'[t]
    <3>1. CASE m \in issued[t]
      BY <3>1 DEF Return, IInv, Covered
    <3>2. CASE m \notin issued[t]
      <4>1. t = proc[p].type /\ m = proc[p].highest + 1
        BY <1>1, <2>2, <3>2 DEF Return, IInv, IdTypeOK
      <4> QED BY <1>1, <4>1 DEF Return, IInv, AboveIssued
    <3> QED BY <3>1, <3>2
  <2> QED BY <2>1, <2>2 DEF Covered
<1> QED BY <1>1, <1>2, StepKeeps DEF Idle

LEMMA PeopleKeep ==
  ASSUME IInv, Serial, IdTypeOK', Repair \/ \E f \in File : Author(f)
  PROVE  IInv'
<1>1. \A p \in Process : proc'[p].at = "idle"
  BY DEF Repair, Author, MayStart
<1>2. Alone' /\ \A p \in Process : AboveDocs(p)' /\ AboveIssued(p)'
  BY <1>1 DEF Alone, AboveDocs, AboveIssued, Scanned
<1>3. Covered'
  <2>1. CASE Repair
    BY <2>1, MarkerAssumption DEF Repair, Marks, IInv, Covered
  <2>2. CASE \E f \in File : Author(f)
    BY <2>2 DEF IInv, Covered, Author
  <2> QED BY <2>1, <2>2
<1> QED BY <1>2, <1>3 DEF IInv

LEMMA Inductive == ASSUME Serial PROVE AllocSpec => []IInv
<1>1. AllocInit => IInv
  <2> SUFFICES ASSUME AllocInit PROVE IInv
    OBVIOUS
  <2>1. \A p \in Process : proc[p].at = "idle"
    BY DEF AllocInit, Idle
  <2>2. Alone /\ \A p \in Process : AboveDocs(p) /\ AboveIssued(p)
    BY <2>1 DEF Alone, AboveDocs, AboveIssued, Scanned
  <2>3. Covered
    BY NormalBand DEF AllocInit, Covered, NoMarks, Marks
  <2> QED BY <2>2, <2>3, InitType DEF IInv
<1>2. IInv /\ IdTypeOK' /\ [AllocNext]_allocVars => IInv'
  <2> SUFFICES ASSUME IInv, IdTypeOK', [AllocNext]_allocVars PROVE IInv'
    OBVIOUS
  <2>1. CASE UNCHANGED allocVars
    BY <2>1 DEF allocVars, IInv, IdTypeOK, Alone, AboveDocs, AboveIssued, Covered, Occupied, InDirectory
  <2>2. ASSUME NEW p \in Process, Command(p) PROVE IInv'
    <3>1. CASE \E t \in Type : Start(p, t)
      BY <3>1, StartKeeps
    <3>2. CASE LoadFails(p) \/ ScanFails(p) \/ Exhausted(p) \/ Die(p)
      BY <3>2, FailsKeeps DEF LoadFails, ScanFails, Exhausted, Die
    <3>3. CASE Load(p) \/ Scan(p) \/ SaveRead(p)
      BY <3>3, LoadKeeps, ScanKeeps, SaveReadKeeps
    <3>4. CASE SaveWrite(p) \/ SaveWriteDies(p) \/ Return(p)
      BY <3>4, SaveWriteKeeps, SaveWriteDiesKeeps, ReturnKeeps
    <3> QED BY <2>2, <3>1, <3>2, <3>3, <3>4 DEF Command
  <2>3. CASE Repair \/ \E f \in File : Author(f)
    BY <2>3, PeopleKeep
  <2> QED BY <2>1, <2>2, <2>3 DEF AllocNext
<1> QED BY <1>1, <1>2, AllocationTypeCorrect, PTL DEF AllocSpec

(* No number is handed out that a document of the type's directory declares, *)
(* whatever was lost of the marks.                                          *)
THEOREM AllocatesFreeNumber == ASSUME Serial PROVE AllocSpec => NeverOccupied
<1>1. IInv /\ [AllocNext]_allocVars =>
        [\A p \in Process :
            Return(p) => proc[p].highest + 1 \notin Occupied(proc[p].type)]_allocVars
  <2> SUFFICES ASSUME IInv, NEW p \in Process, Return(p)
               PROVE  proc[p].highest + 1 \notin Occupied(proc[p].type)
    OBVIOUS
  <2>1. proc[p].highest \in Nat /\ \A n \in Occupied(proc[p].type) : n <= proc[p].highest
    BY BandAssumption DEF Return, IInv, AboveDocs, Scanned, IdTypeOK, Invocation
  <2> QED BY <2>1
<1> QED BY <1>1, Inductive, PTL DEF AllocSpec, NeverOccupied

(* No number is handed out twice, whatever documents were deleted, until a   *)
(* write of the marks is cut short.                                         *)
THEOREM AllocatesOnce == ASSUME Serial PROVE AllocSpec => NeverReissued
<1>1. IInv /\ [AllocNext]_allocVars =>
        [\A p \in Process :
            Return(p) => proc[p].highest + 1 \notin issued[proc[p].type]]_allocVars
  <2> SUFFICES ASSUME IInv, NEW p \in Process, Return(p)
               PROVE  proc[p].highest + 1 \notin issued[proc[p].type]
    OBVIOUS
  <2>1. proc[p].highest \in Nat /\ \A n \in issued[proc[p].type] : n <= proc[p].highest
    BY BandAssumption DEF Return, IInv, AboveIssued, Scanned, IdTypeOK, Invocation
  <2> QED BY <2>1
<1> QED BY <1>1, Inductive, PTL DEF AllocSpec, NeverReissued

(***************************************************************************)
(* IdentityMigration.  Every variable keeps its type, and the identities   *)
(* of all documents are apart (Named) if people who replace a UUID of a    *)
(* map write new ones, whatever else happens.  If no *)
(* document is of schema 1.3 before the migration, and interrupted applies *)
(* are recovered first, each document is either legacy or as the one map   *)
(* of its migration says (Phased): an identity is minted once, references  *)
(* keep what they name, the map describes the corpus, check is right.      *)
(***************************************************************************)
GoodDoc(doc, d) ==
    /\ doc \in DocumentOf(d)
    /\ \A e \in EntitiesOf(d) : doc.v13 <=> doc.alias[e] # None

GoodMap(m) == DOMAIN m.base \subseteq Entity /\ m \in MapOn(DOMAIN m.base)

DocsShape ==
    /\ docs = [d \in Doc |-> docs[d]]
    /\ \A d \in Doc : docs[d] \in {Absent, Deleted} \/ GoodDoc(docs[d], d)

MapsShape ==
    /\ maps = [k \in 1..MaxPlans |-> maps[k]]
    /\ \A k \in 1..MaxPlans : maps[k] # None => GoodMap(maps[k])

JournalsShape ==
    \A j \in journals : \A d \in DOMAIN j : d \in Doc /\ GoodDoc(j[d], d)

Shape == DocsShape /\ MapsShape /\ JournalsShape

(* The entry of an identifier that a map knows is one of the map. *)
LEMMA EntryInMap ==
  ASSUME NEW m, NEW i \in Known(m)
  PROVE  EntryOf(m, i) \in DOMAIN m.base
  BY DEF Known, EntryOf

(* What is inventoried has an identifier. *)
LEMMA BaselineType ==
  ASSUME DocsShape
  PROVE  /\ DOMAIN Baseline \subseteq Entity
         /\ Baseline \in [DOMAIN Baseline -> Identifier]
         /\ \A e \in Entity : Present(Home[e]) <=> e \in DOMAIN Baseline
         /\ \A e \in DOMAIN Baseline : Baseline[e] = Id(e)
  <1>1. \A e \in Entity : Present(Home[e]) => Id(e) \in Identifier
    <2> TAKE e \in Entity
    <2> HAVE Present(Home[e])
    <2>1. Home[e] \in Doc /\ e \in EntitiesOf(Home[e])
      BY ShapeAssumption DEF EntitiesOf
    <2>2. docs[Home[e]] \in DocumentOf(Home[e])
      BY <2>1 DEF Present, DocsShape, GoodDoc
    <2> QED BY <2>1, <2>2 DEF DocumentOf, Id
  <1> QED BY <1>1 DEF Baseline

(* A rewritten document is one of schema 1.3, with an alias for every       *)
(* identity: the admitted map knows all that the document declares.         *)
LEMMA RewrittenType ==
  ASSUME DocsShape, NEW m, GoodMap(m), m.base = Baseline, NEW d \in Doc, Present(d)
  PROVE  GoodDoc(Rewritten(m, d), d)
  <1> DEFINE doc == docs[d]
             new == {e \in EntitiesOf(d) : doc.id[e] \in Known(m) /\ (e = Root[d] \/ doc.alias[e] = None)}
             Target(i) == CASE i \in Known(m) -> m.uuid[EntryOf(m, i)]
                            [] i \in Alias \ Known(m) -> Dropped
                            [] OTHER -> i
             id == [e \in EntitiesOf(d) |->
                      IF e \in new THEN m.uuid[EntryOf(m, doc.id[e])] ELSE doc.id[e]]
             alias == [e \in EntitiesOf(d) |-> IF e \in new THEN doc.id[e] ELSE doc.alias[e]]
             ref == [r \in ReferencesOf(d) |-> Target(doc.ref[r])]
  <1>1. doc \in DocumentOf(d) /\ \A e \in EntitiesOf(d) : doc.v13 <=> doc.alias[e] # None
    BY DEF DocsShape, GoodDoc, Present
  <1>2. /\ doc.id \in [EntitiesOf(d) -> Identifier]
        /\ doc.alias \in [EntitiesOf(d) -> Identifier \cup {None}]
        /\ doc.ref \in [ReferencesOf(d) -> Identifier \cup {Dropped}]
    BY <1>1 DEF DocumentOf
  <1>3. \A e \in EntitiesOf(d) : doc.id[e] \in Known(m)
    BY BaselineType DEF EntitiesOf, Known, Id
  <1>4. Root[d] \in EntitiesOf(d)
    BY ShapeAssumption DEF EntitiesOf
  <1>5. \A i \in Known(m) : m.uuid[EntryOf(m, i)] \in UUID
    BY EntryInMap DEF GoodMap, MapOn
  <1>6. Rewritten(m, d) = [v13 |-> TRUE, id |-> id, alias |-> alias, ref |-> ref]
    BY <1>3, <1>4 DEF Rewritten
  <1>7. id \in [EntitiesOf(d) -> Identifier]
    BY <1>2, <1>3, <1>5 DEF Identifier
  <1>8. /\ alias \in [EntitiesOf(d) -> Identifier \cup {None}]
        /\ \A e \in EntitiesOf(d) : alias[e] # None
    BY <1>2, <1>3, DistinctAssumption
  <1>9. ref \in [ReferencesOf(d) -> Identifier \cup {Dropped}]
    <2> SUFFICES ASSUME NEW r \in ReferencesOf(d)
                 PROVE  Target(doc.ref[r]) \in Identifier \cup {Dropped}
      OBVIOUS
    <2>1. doc.ref[r] \in Identifier \cup {Dropped} BY <1>2
    <2>2. CASE doc.ref[r] \in Known(m) BY <2>2, <1>5 DEF Identifier
    <2>3. CASE doc.ref[r] \in Alias \ Known(m) BY <2>3
    <2>4. CASE doc.ref[r] \notin Known(m) /\ doc.ref[r] \notin Alias \ Known(m) BY <2>4, <2>1
    <2> QED BY <2>2, <2>3, <2>4
  <1> HIDE DEF id, alias, ref
  <1>10. Rewritten(m, d) \in DocumentOf(d)
    BY <1>6, <1>7, <1>8, <1>9 DEF DocumentOf
  <1> QED BY <1>6, <1>8, <1>10 DEF GoodDoc

(* A document that is there is neither absent nor deleted. *)
LEMMA GoodIsPresent ==
  ASSUME NEW d \in Doc, NEW doc, GoodDoc(doc, d)
  PROVE  doc \notin {Absent, Deleted}
  BY DistinctAssumption DEF GoodDoc

-----------------------------------------------------------------------------
LEMMA InitShape == Init => Shape
  BY DEF Init, Shape, DocsShape, MapsShape, JournalsShape

LEMMA PlanShape ==
  ASSUME Shape, NEW k \in 1..MaxPlans, Plan(k)
  PROVE  Shape'
  <1> DEFINE D == DOMAIN Baseline
             u == [e \in D |-> <<k, e>>]
             m == [base |-> Baseline, uuid |-> u, accepted |-> D \ ToReview(Baseline), seal |-> None]
  <1>1. D \subseteq Entity /\ Baseline \in [D -> Identifier]
    BY BaselineType DEF Shape
  <1>2. u \in [D -> UUID]
    BY <1>1, BoundAssumption DEF UUID
  <1>3. m \in MapOn(D)
    BY <1>1, <1>2 DEF MapOn
  <1>4. m.base = Baseline OBVIOUS
  <1>5. GoodMap(m)
    BY <1>1, <1>3, <1>4 DEF GoodMap
  <1>6. maps' = [maps EXCEPT ![k] = m] /\ docs' = docs /\ journals' = journals
    BY DEF Plan
  <1> HIDE DEF m
  <1>7. MapsShape'
    BY <1>5, <1>6 DEF Shape, MapsShape
  <1> QED BY <1>6, <1>7 DEF Shape, DocsShape, JournalsShape

LEMMA SealShape ==
  ASSUME Shape, NEW k \in 1..MaxPlans, Seal(k)
  PROVE  Shape'
  <1> DEFINE E == DOMAIN maps[k].base
  <1>1. PICK turned :
          maps' = [maps EXCEPT ![k] =
            [[maps[k] EXCEPT !.accepted = E \ turned]
               EXCEPT !.seal = Intent([maps[k] EXCEPT !.accepted = E \ turned])]]
    BY DEF Seal
  <1> DEFINE acc == [maps[k] EXCEPT !.accepted = E \ turned]
             m == [acc EXCEPT !.seal = Intent(acc)]
  <1>2. E \subseteq Entity /\ maps[k] \in MapOn(E)
    BY DEF Shape, MapsShape, GoodMap, Seal
  <1>3. acc \in MapOn(E) /\ acc.base = maps[k].base
    BY <1>2 DEF MapOn
  <1> HIDE DEF acc
  <1>4. Intent(acc) \in ContentOn(E)
    BY <1>3 DEF MapOn, ContentOn, Intent
  <1>5. m \in MapOn(E) /\ m.base = maps[k].base
    BY <1>3, <1>4 DEF MapOn
  <1>6. GoodMap(m)
    BY <1>2, <1>5 DEF GoodMap
  <1>7. maps' = [maps EXCEPT ![k] = m] /\ docs' = docs /\ journals' = journals
    BY <1>1 DEF Seal, acc
  <1> HIDE DEF m
  <1>8. MapsShape'
    BY <1>6, <1>7 DEF Shape, MapsShape
  <1> QED BY <1>7, <1>8 DEF Shape, DocsShape, JournalsShape

LEMMA ReviseShape ==
  ASSUME Shape, NEW k \in 1..MaxPlans, Revise(k)
  PROVE  Shape'
  <1> DEFINE E == DOMAIN maps[k].base
  <1>1. PICK e \in DOMAIN maps[k].uuid, u \in Replacements :
          maps' = [maps EXCEPT ![k].uuid[e] = u]
    BY DEF Revise
  <1> DEFINE m == [maps[k] EXCEPT !.uuid[e] = u]
  <1>2. E \subseteq Entity /\ maps[k] \in MapOn(E)
    BY DEF Shape, MapsShape, GoodMap, Revise
  <1>3. e \in E
    BY <1>2 DEF MapOn
  <1>4. u \in UUID
    BY BoundAssumption
  <1>5. m \in MapOn(E) /\ m.base = maps[k].base
    BY <1>2, <1>4 DEF MapOn
  <1>6. GoodMap(m)
    BY <1>2, <1>5 DEF GoodMap
  <1>7. maps' = [maps EXCEPT ![k] = m] /\ docs' = docs /\ journals' = journals
    BY <1>1 DEF Revise, Shape, MapsShape
  <1> HIDE DEF m
  <1>8. MapsShape'
    BY <1>6, <1>7 DEF Shape, MapsShape
  <1> QED BY <1>7, <1>8 DEF Shape, DocsShape, JournalsShape

LEMMA ApplyShape ==
  ASSUME Shape, NEW k \in 1..MaxPlans, Apply(k)
  PROVE  Shape'
  <1>1. GoodMap(maps[k]) /\ maps[k].base = Baseline
    BY DEF Apply, Admitted, Shape, MapsShape
  <1>2. docs' = [d \in Doc |-> IF Present(d) THEN Rewritten(maps[k], d) ELSE docs[d]]
    BY DEF Apply
  <1>3. \A d \in Doc : docs'[d] \in {Absent, Deleted} \/ GoodDoc(docs'[d], d)
    BY <1>1, <1>2, RewrittenType DEF Shape, DocsShape, Present
  <1> QED BY <1>2, <1>3 DEF Apply, Shape, DocsShape, MapsShape, JournalsShape

LEMMA ApplyDiesShape ==
  ASSUME Shape, NEW k \in 1..MaxPlans, ApplyDies(k)
  PROVE  Shape'
  <1>1. GoodMap(maps[k]) /\ maps[k].base = Baseline
    BY DEF ApplyDies, Admitted, Shape, MapsShape
  <1>2. PICK done \in SUBSET Written :
          docs' = [d \in Doc |-> IF d \in done THEN Rewritten(maps[k], d) ELSE docs[d]]
    BY DEF ApplyDies
  <1>3. \A d \in Doc : docs'[d] \in {Absent, Deleted} \/ GoodDoc(docs'[d], d)
    BY <1>1, <1>2, RewrittenType DEF Shape, DocsShape, Written
  <1>4. DocsShape' BY <1>2, <1>3 DEF DocsShape
  <1>5. \A d \in Written : d \in Doc /\ GoodDoc(docs[d], d)
    BY DEF Shape, DocsShape, Written, Present
  <1>6. JournalsShape'
    BY <1>5 DEF ApplyDies, Shape, JournalsShape
  <1>7. MapsShape' BY DEF ApplyDies, Shape, MapsShape
  <1> QED BY <1>4, <1>6, <1>7 DEF Shape

LEMMA RecoverShape ==
  ASSUME Shape, NEW j \in journals, Recover(j)
  PROVE  Shape'
  BY DEF Recover, Shape, DocsShape, MapsShape, JournalsShape

(* What a person writes is a document of its schema. *)
LEMMA AuthoredType ==
  ASSUME Shape, NEW d \in Doc, NEW v \in BOOLEAN
  PROVE  GoodDoc(Authored(d, v), d)
  <1> DEFINE id == [e \in EntitiesOf(d) |-> IF v THEN <<0, e>> ELSE AliasOf[e]]
             Name(e) == CASE Home[e] = d -> id[e]
                          [] Home[e] # d /\ Present(Home[e]) -> Id(e)
                          [] OTHER -> AliasOf[e]
             alias == [e \in EntitiesOf(d) |-> IF v THEN AliasOf[e] ELSE None]
             ref == [r \in ReferencesOf(d) |-> Name(To[r])]
             doc == [v13 |-> v, id |-> id, alias |-> alias, ref |-> ref]
  <1>2. EntitiesOf(d) \subseteq Entity BY DEF EntitiesOf
  <1>3. id \in [EntitiesOf(d) -> Identifier]
    BY <1>2, ShapeAssumption, BoundAssumption DEF Identifier, UUID
  <1>4. /\ alias \in [EntitiesOf(d) -> Identifier \cup {None}]
        /\ \A e \in EntitiesOf(d) : v <=> alias[e] # None
    BY <1>2, ShapeAssumption, DistinctAssumption DEF Identifier
  <1>5. \A e \in Entity : Name(e) \in Identifier
    <2> TAKE e \in Entity
    <2>1. CASE Home[e] = d
      <3>1. e \in EntitiesOf(d) BY <2>1 DEF EntitiesOf
      <3> QED BY <2>1, <3>1, <1>3
    <2>2. CASE Home[e] # d /\ Present(Home[e])
      <3>1. Id(e) \in Identifier BY <2>2, BaselineType DEF Shape
      <3> QED BY <2>2, <3>1
    <2>3. CASE Home[e] # d /\ ~Present(Home[e])
      BY <2>3, ShapeAssumption DEF Identifier
    <2> QED BY <2>1, <2>2, <2>3
  <1>6. ref \in [ReferencesOf(d) -> Identifier \cup {Dropped}]
    <2>1. \A r \in ReferencesOf(d) : To[r] \in Entity
      BY ShapeAssumption DEF ReferencesOf
    <2> HIDE DEF Name
    <2> QED BY <2>1, <1>5
  <1>7. Authored(d, v) = doc BY DEF Authored
  <1> HIDE DEF id, alias, ref
  <1>8. GoodDoc(doc, d)
    BY <1>3, <1>4, <1>6 DEF GoodDoc, DocumentOf
  <1> QED BY <1>7, <1>8

LEMMA AddShape ==
  ASSUME Shape, NEW d \in Doc, Add(d)
  PROVE  Shape'
  <1>1. PICK v \in BOOLEAN : docs' = [docs EXCEPT ![d] = Authored(d, v)]
    BY DEF Add
  <1>2. DocsShape'
    BY <1>1, AuthoredType DEF Shape, DocsShape
  <1> QED BY <1>2 DEF Add, Shape, MapsShape, JournalsShape

LEMMA RemoveShape ==
  ASSUME Shape, NEW d \in Doc, Remove(d)
  PROVE  Shape'
  BY DEF Remove, Shape, DocsShape, MapsShape, JournalsShape

LEMMA NextShape == Shape /\ [Next]_vars => Shape'
  <1> SUFFICES ASSUME Shape, [Next]_vars PROVE Shape' OBVIOUS
  <1>1. ASSUME NEW k \in 1..MaxPlans,
               Plan(k) \/ Seal(k) \/ Revise(k) \/ Apply(k) \/ ApplyDies(k)
        PROVE  Shape'
    BY <1>1, PlanShape, SealShape, ReviseShape, ApplyShape, ApplyDiesShape
  <1>2. ASSUME NEW j \in journals, Recover(j) PROVE Shape'
    BY <1>2, RecoverShape
  <1>3. ASSUME NEW d \in Doc, Add(d) \/ Remove(d) PROVE Shape'
    BY <1>3, AddShape, RemoveShape
  <1>4. CASE UNCHANGED vars
    BY <1>4 DEF vars, Shape, DocsShape, MapsShape, JournalsShape
  <1> QED BY <1>1, <1>2, <1>3, <1>4 DEF Next

(* Documents, maps and journals keep their types, whatever is interrupted   *)
(* and in whatever schema documents are written: in particular a document   *)
(* of schema 1.3 has an alias for every identity it declares.               *)
THEOREM MigrationTypeCorrect == Spec => []MigrationTypeOK
  <1>1. Shape => MigrationTypeOK
    BY DEF Shape, DocsShape, MapsShape, GoodDoc, GoodMap, MigrationTypeOK, Written, Present
  <1> QED BY <1>1, InitShape, NextShape, PTL DEF Spec

-----------------------------------------------------------------------------
(* An identity is an alias or was minted for the entity that bears it: a     *)
(* map mints for its own entities, and finds one entry per identifier.      *)
(* What people write into a map keeps to that only if they replace UUIDs by *)
(* new ones.                                                                *)
MintsOf(e) == (0 .. 2 * MaxPlans) \X {e}

OwnNames(doc, d) == \A e \in EntitiesOf(d) : doc.id[e] \in Alias \cup MintsOf(e)

MintedIn(k, uuid, E) == \A e \in E : uuid[e] \in {<<k, e>>, <<MaxPlans + k, e>>}

MapLaw ==
    \A k \in 1..MaxPlans : maps[k] # None =>
        /\ IsInjective(maps[k].base)
        /\ maps[k].seal # None => maps[k].seal.base = maps[k].base

MapsOwn ==
    \A k \in 1..MaxPlans : maps[k] # None =>
        /\ MintedIn(k, maps[k].uuid, DOMAIN maps[k].base)
        /\ maps[k].seal # None => MintedIn(k, maps[k].seal.uuid, DOMAIN maps[k].base)

DocsOwn == \A d \in Written : OwnNames(docs[d], d)

JournalsOwn == \A j \in journals : \A d \in DOMAIN j : OwnNames(j[d], d)

Own == MapsOwn /\ DocsOwn /\ JournalsOwn

Named == Shape /\ MapLaw /\ (RevisedAfresh => Own)

LEMMA MintsApart ==
  ASSUME NEW e, NEW f, NEW i \in MintsOf(e), i \in MintsOf(f)
  PROVE  e = f
  BY DEF MintsOf

LEMMA MintsTyped ==
  ASSUME NEW e \in Entity, NEW i \in MintsOf(e)
  PROVE  i \in UUID
  BY DEF MintsOf, UUID

LEMMA UuidIsMint ==
  ASSUME NEW k \in 1..MaxPlans, NEW e, NEW i \in {<<k, e>>, <<MaxPlans + k, e>>}
  PROVE  i \in MintsOf(e)
  BY BoundAssumption DEF MintsOf

(* The entry of an identifier in a map planned after a preflight is that of  *)
(* the entity that bore it.                                                 *)
LEMMA EntryIsOwn ==
  ASSUME NEW m, IsInjective(m.base), NEW e \in DOMAIN m.base
  PROVE  m.base[e] \in Known(m) /\ EntryOf(m, m.base[e]) = e
  <1>1. m.base[e] \in Known(m) BY DEF Known
  <1>2. /\ EntryOf(m, m.base[e]) \in DOMAIN m.base
        /\ m.base[EntryOf(m, m.base[e])] = m.base[e]
    BY DEF EntryOf
  <1> QED BY <1>1, <1>2 DEF IsInjective

(* What an admitted map makes of the identities of a document. *)
LEMMA RewrittenIds ==
  ASSUME Shape, NEW m, GoodMap(m), IsInjective(m.base), m.base = Baseline,
         NEW d \in Written
  PROVE  /\ EntitiesOf(d) \subseteq DOMAIN m.base
         /\ \A e \in EntitiesOf(d) :
              /\ m.base[e] = docs[d].id[e]
              /\ Rewritten(m, d).id[e] =
                   IF e = Root[d] \/ docs[d].alias[e] = None THEN m.uuid[e] ELSE docs[d].id[e]
              /\ Rewritten(m, d).alias[e] =
                   IF e = Root[d] \/ docs[d].alias[e] = None THEN docs[d].id[e] ELSE docs[d].alias[e]
  <1> DEFINE doc == docs[d]
             new == {e \in EntitiesOf(d) : doc.id[e] \in Known(m) /\ (e = Root[d] \/ doc.alias[e] = None)}
             Target(i) == CASE i \in Known(m) -> m.uuid[EntryOf(m, i)]
                            [] i \in Alias \ Known(m) -> Dropped
                            [] OTHER -> i
             id == [e \in EntitiesOf(d) |->
                      IF e \in new THEN m.uuid[EntryOf(m, doc.id[e])] ELSE doc.id[e]]
             alias == [e \in EntitiesOf(d) |-> IF e \in new THEN doc.id[e] ELSE doc.alias[e]]
             ref == [r \in ReferencesOf(d) |-> Target(doc.ref[r])]
  <1>1. d \in Doc /\ Present(d) BY DEF Written
  <1>2. \A e \in EntitiesOf(d) : e \in Entity /\ Home[e] = d BY DEF EntitiesOf
  <1>3. \A e \in EntitiesOf(d) : e \in DOMAIN m.base /\ m.base[e] = doc.id[e]
    BY <1>1, <1>2, BaselineType DEF Shape, Id
  <1>4. \A e \in EntitiesOf(d) : doc.id[e] \in Known(m) /\ EntryOf(m, doc.id[e]) = e
    BY <1>3, EntryIsOwn
  <1>5. Root[d] \in EntitiesOf(d)
    BY <1>1, ShapeAssumption DEF EntitiesOf
  <1>6. Rewritten(m, d) = [v13 |-> TRUE, id |-> id, alias |-> alias, ref |-> ref]
    BY <1>4, <1>5 DEF Rewritten
  <1>7. Rewritten(m, d).id = id /\ Rewritten(m, d).alias = alias
    BY <1>6
  <1>8. \A e \in EntitiesOf(d) : e \in new <=> e = Root[d] \/ doc.alias[e] = None
    BY <1>4
  <1> QED BY <1>3, <1>4, <1>7, <1>8

LEMMA RewrittenOwn ==
  ASSUME Named, Own, NEW k \in 1..MaxPlans, maps[k] # None, maps[k].base = Baseline,
         NEW d \in Written
  PROVE  OwnNames(Rewritten(maps[k], d), d)
  <1>1. GoodMap(maps[k]) /\ IsInjective(maps[k].base)
    BY DEF Named, Shape, MapsShape, MapLaw
  <1>2. \A e \in EntitiesOf(d) :
          /\ e \in DOMAIN maps[k].base
          /\ Rewritten(maps[k], d).id[e] = maps[k].uuid[e] \/ Rewritten(maps[k], d).id[e] = docs[d].id[e]
    BY <1>1, RewrittenIds DEF Named
  <1>3. \A e \in DOMAIN maps[k].base : maps[k].uuid[e] \in MintsOf(e)
    BY UuidIsMint DEF Own, MapsOwn, MintedIn
  <1>4. \A e \in EntitiesOf(d) : docs[d].id[e] \in Alias \cup MintsOf(e)
    BY DEF Own, DocsOwn, OwnNames
  <1> QED BY <1>2, <1>3, <1>4 DEF OwnNames

LEMMA AuthoredOwn ==
  ASSUME NEW d \in Doc, NEW v \in BOOLEAN
  PROVE  OwnNames(Authored(d, v), d)
  <1>1. \A e \in EntitiesOf(d) : Authored(d, v).id[e] = IF v THEN <<0, e>> ELSE AliasOf[e]
    BY DEF Authored
  <1>2. \A e \in EntitiesOf(d) : AliasOf[e] \in Alias /\ <<0, e>> \in MintsOf(e)
    BY ShapeAssumption, BoundAssumption DEF EntitiesOf, MintsOf
  <1> QED BY <1>1, <1>2 DEF OwnNames

LEMMA InitNamed == Init => Named
  <1> SUFFICES ASSUME Init PROVE Named OBVIOUS
  <1>1. Shape BY InitShape
  <1>2. Written = {} /\ journals = {} BY DEF Init, Written, Present
  <1>3. MapLaw /\ MapsOwn BY DEF Init, MapLaw, MapsOwn
  <1> QED BY <1>1, <1>2, <1>3 DEF Named, Own, DocsOwn, JournalsOwn

(* One map changes at a time, and obeys the law; a UUID that people have     *)
(* written stays where it is.                                               *)
LEMMA OneMapChanges ==
  ASSUME Named, NEW k \in 1..MaxPlans, NEW m,
         maps' = [maps EXCEPT ![k] = m], docs' = docs, journals' = journals,
         Shape', m # None,
         IsInjective(m.base), m.seal # None => m.seal.base = m.base,
         RevisedAfresh' /\ MintedIn(k, m.uuid, DOMAIN m.base) =>
            /\ maps[k] # None => MintedIn(k, maps[k].uuid, DOMAIN maps[k].uuid)
            /\ MapsOwn /\ m.seal # None => MintedIn(k, m.seal.uuid, DOMAIN m.base)
  PROVE  Named'
  <1>1. \A j \in 1..MaxPlans : maps'[j] = IF j = k THEN m ELSE maps[j]
    BY DEF Named, Shape, MapsShape
  <1>2. MapLaw' BY <1>1 DEF Named, MapLaw
  <1>3. ASSUME RevisedAfresh' PROVE Own'
    <2>1. GoodMap(m)
      <3>1. maps'[k] = m BY <1>1
      <3> QED BY <3>1 DEF Shape, MapsShape
    <2>2. DOMAIN m.uuid = DOMAIN m.base BY <2>1 DEF GoodMap, MapOn
    <2>3. MintedIn(k, m.uuid, DOMAIN m.base)
      BY <1>1, <1>3, <2>2 DEF RevisedAfresh, MintedIn
    <2>4. RevisedAfresh
      <3> SUFFICES ASSUME NEW j \in 1..MaxPlans, maps[j] # None, NEW e \in DOMAIN maps[j].uuid
                   PROVE  maps[j].uuid[e] \in {<<j, e>>, <<MaxPlans + j, e>>}
        BY DEF RevisedAfresh
      <3>1. CASE j = k BY <1>3, <2>3, <3>1 DEF MintedIn
      <3>2. CASE j # k
        <4>1. maps'[j] = maps[j] BY <1>1, <3>2
        <4> QED BY <1>3, <4>1 DEF RevisedAfresh
      <3> QED BY <3>1, <3>2
    <2>5. Own BY <2>4 DEF Named
    <2>6. MapsOwn'
      BY <1>1, <1>3, <2>3, <2>5 DEF Own, MapsOwn
    <2> QED BY <2>5, <2>6 DEF Own, DocsOwn, JournalsOwn, Written, Present
  <1> QED BY <1>2, <1>3 DEF Named

LEMMA PlanNamed ==
  ASSUME Named, NEW k \in 1..MaxPlans, Plan(k), Shape'
  PROVE  Named'
  <1> DEFINE D == DOMAIN Baseline
             u == [e \in D |-> <<k, e>>]
             m == [base |-> Baseline, uuid |-> u, accepted |-> D \ ToReview(Baseline), seal |-> None]
  <1>1. m.base = Baseline /\ m.seal = None /\ maps[k] = None
    BY DEF Plan
  <1>2. /\ maps' = [maps EXCEPT ![k] = m] /\ docs' = docs /\ journals' = journals
        /\ IsInjective(Baseline)
    BY DEF Plan, Preflight
  <1>3. m # None
    <2>1. Baseline \in [D -> Identifier] /\ D \subseteq Entity
      BY BaselineType DEF Named, Shape
    <2>2. u \in [D -> UUID] BY <2>1, BoundAssumption DEF UUID
    <2>3. m \in MapOn(D) BY <2>1, <2>2 DEF MapOn
    <2> QED BY <2>1, <2>3, DistinctAssumption
  <1> HIDE DEF m
  <1> QED BY <1>1, <1>2, <1>3, OneMapChanges

LEMMA SealNamed ==
  ASSUME Named, NEW k \in 1..MaxPlans, Seal(k), Shape'
  PROVE  Named'
  <1> DEFINE E == DOMAIN maps[k].base
  <1>1. PICK turned :
          maps' = [maps EXCEPT ![k] =
            [[maps[k] EXCEPT !.accepted = E \ turned]
               EXCEPT !.seal = Intent([maps[k] EXCEPT !.accepted = E \ turned])]]
    BY DEF Seal
  <1> DEFINE acc == [maps[k] EXCEPT !.accepted = E \ turned]
             m == [acc EXCEPT !.seal = Intent(acc)]
  <1>2. maps[k] \in MapOn(E) /\ E \subseteq Entity
    BY DEF Named, Shape, MapsShape, GoodMap, Seal
  <1>3. acc \in MapOn(E) /\ acc.base = maps[k].base /\ acc.uuid = maps[k].uuid
    BY <1>2 DEF MapOn
  <1>4. /\ m.base = maps[k].base /\ m.uuid = maps[k].uuid
        /\ m.seal.base = maps[k].base /\ m.seal.uuid = maps[k].uuid
    BY <1>3 DEF MapOn, Intent
  <1>5. maps' = [maps EXCEPT ![k] = m] /\ docs' = docs /\ journals' = journals
    BY <1>1 DEF Seal
  <1>6. IsInjective(maps[k].base) /\ DOMAIN maps[k].uuid = E
    BY <1>2 DEF Seal, Named, MapLaw, MapOn
  <1>7. m # None
    <2>1. Intent(acc) \in ContentOn(E) BY <1>3 DEF Intent, MapOn, ContentOn
    <2>2. m \in MapOn(E) BY <1>3, <2>1 DEF MapOn
    <2> QED BY <1>2, <2>2, DistinctAssumption
  <1> HIDE DEF m
  <1> QED BY <1>4, <1>5, <1>6, <1>7, OneMapChanges

LEMMA ReviseNamed ==
  ASSUME Named, NEW k \in 1..MaxPlans, Revise(k), Shape'
  PROVE  Named'
  <1> DEFINE E == DOMAIN maps[k].base
  <1>1. PICK e \in DOMAIN maps[k].uuid, u \in Replacements :
          maps' = [maps EXCEPT ![k].uuid[e] = u]
    BY DEF Revise
  <1> DEFINE m == [maps[k] EXCEPT !.uuid[e] = u]
  <1>2. maps[k] \in MapOn(E) /\ E \subseteq Entity /\ maps[k] # None
    BY DEF Named, Shape, MapsShape, GoodMap, Revise
  <1>3. m.base = maps[k].base /\ m.seal = maps[k].seal
    BY <1>2 DEF MapOn
  <1>4. m \in MapOn(E)
    BY <1>2, BoundAssumption DEF MapOn
  <1>5. m # None BY <1>2, <1>4, DistinctAssumption
  <1>6. maps' = [maps EXCEPT ![k] = m] /\ docs' = docs /\ journals' = journals
    BY <1>1 DEF Revise, Named, Shape, MapsShape
  <1>7. /\ IsInjective(maps[k].base)
        /\ maps[k].seal # None => maps[k].seal.base = maps[k].base
    BY <1>2 DEF Named, MapLaw
  <1>8. /\ MintedIn(k, maps[k].uuid, DOMAIN maps[k].uuid)
        /\ MapsOwn /\ maps[k].seal # None => MintedIn(k, maps[k].seal.uuid, E)
    BY <1>2 DEF Revise, MintedIn, MapsOwn
  <1> HIDE DEF m
  <1> QED BY <1>3, <1>5, <1>6, <1>7, <1>8, OneMapChanges

(* However many documents an apply gets to rewrite. *)
LEMMA RewriteNamed ==
  ASSUME Named, NEW k \in 1..MaxPlans, Admitted(k), Shape', maps' = maps,
         NEW done \in SUBSET Written,
         docs' = [d \in Doc |-> IF d \in done THEN Rewritten(maps[k], d) ELSE docs[d]],
         journals' \subseteq journals \cup {[d \in Written |-> docs[d]]}
  PROVE  Named'
  <1>1. MapLaw' /\ (RevisedAfresh' => Own /\ MapsOwn')
    BY DEF Named, MapLaw, RevisedAfresh, Own, MapsOwn
  <1>2. ASSUME Own PROVE DocsOwn' /\ JournalsOwn'
    <2>1. \A d \in done : OwnNames(Rewritten(maps[k], d), d)
      BY <1>2, RewrittenOwn DEF Admitted
    <2>2. \A d \in Written' : d \in Written \cup done
      BY DEF Written, Present
    <2>3. DocsOwn'
      BY <1>2, <2>1, <2>2 DEF Own, DocsOwn, Written
    <2> QED BY <1>2, <2>3 DEF Own, DocsOwn, JournalsOwn
  <1> QED BY <1>1, <1>2 DEF Named, Own

LEMMA NextNamed == Named /\ [Next]_vars => Named'
  <1> SUFFICES ASSUME Named, [Next]_vars PROVE Named' OBVIOUS
  <1>0. Shape' BY NextShape DEF Named
  <1>1. ASSUME NEW k \in 1..MaxPlans, Plan(k) \/ Seal(k) \/ Revise(k)
        PROVE  Named'
    BY <1>0, <1>1, PlanNamed, SealNamed, ReviseNamed
  <1>2. ASSUME NEW k \in 1..MaxPlans, Apply(k)
        PROVE  Named'
    <2>1. docs' = [d \in Doc |-> IF d \in Written THEN Rewritten(maps[k], d) ELSE docs[d]]
      BY <1>2 DEF Apply, Written
    <2>2. Admitted(k) /\ maps' = maps /\ journals' = journals
      BY <1>2 DEF Apply
    <2> QED BY <1>0, <2>1, <2>2, RewriteNamed
  <1>3. ASSUME NEW k \in 1..MaxPlans, ApplyDies(k)
        PROVE  Named'
    <2>1. PICK done \in SUBSET Written :
            docs' = [d \in Doc |-> IF d \in done THEN Rewritten(maps[k], d) ELSE docs[d]]
      BY <1>3 DEF ApplyDies
    <2>2. /\ Admitted(k) /\ maps' = maps
          /\ journals' = journals \cup {[d \in Written |-> docs[d]]}
      BY <1>3 DEF ApplyDies
    <2> QED BY <1>0, <2>1, <2>2, RewriteNamed
  <1>4. ASSUME maps' = maps, Own => DocsOwn' /\ JournalsOwn'
        PROVE  Named'
    <2>1. MapLaw' /\ (RevisedAfresh' => Own /\ MapsOwn')
      BY <1>4 DEF Named, MapLaw, RevisedAfresh, Own, MapsOwn
    <2> QED BY <1>0, <1>4, <2>1 DEF Named, Own
  <1>5. ASSUME NEW j \in journals, Recover(j)
        PROVE  Named'
    <2>1. Own => DocsOwn'
      BY <1>5 DEF Recover, Own, DocsOwn, JournalsOwn, Written, Present
    <2>2. maps' = maps /\ (Own => JournalsOwn')
      BY <1>5 DEF Recover, Own, JournalsOwn
    <2> QED BY <1>4, <2>1, <2>2
  <1>6. ASSUME NEW d \in Doc, Add(d)
        PROVE  Named'
    <2>1. PICK v \in BOOLEAN : docs' = [docs EXCEPT ![d] = Authored(d, v)]
      BY <1>6 DEF Add
    <2>2. Own => DocsOwn'
      BY <2>1, AuthoredOwn DEF Named, Shape, DocsShape, Own, DocsOwn, Written, Present
    <2>3. maps' = maps /\ (Own => JournalsOwn')
      BY <1>6 DEF Add, Own, JournalsOwn
    <2> QED BY <1>4, <2>2, <2>3
  <1>7. ASSUME NEW d \in Doc, Remove(d)
        PROVE  Named'
    <2>1. Own => DocsOwn'
      BY <1>7 DEF Remove, Named, Shape, DocsShape, Own, DocsOwn, Written, Present
    <2>2. maps' = maps /\ (Own => JournalsOwn')
      BY <1>7 DEF Remove, Own, JournalsOwn
    <2> QED BY <1>4, <2>1, <2>2
  <1>8. CASE UNCHANGED vars
    <2>1. maps' = maps /\ (Own => DocsOwn' /\ JournalsOwn')
      BY <1>8 DEF vars, Own, DocsOwn, JournalsOwn, Written, Present
    <2> QED BY <1>4, <2>1
  <1> QED BY <1>1, <1>2, <1>3, <1>5, <1>6, <1>7, <1>8 DEF Next

(* As long as people who replace a UUID of a map write one that nobody has:  *)
(* whatever schema documents are written in, and whatever is killed and     *)
(* recovered in whatever order, no two entities ever share a UUID, since    *)
(* planning and rewriting give each entity an identity of its own.          *)
THEOREM DistinctAlways == Spec => []IdentitiesDistinct
  <1>1. Named => IdentitiesDistinct
    <2> SUFFICES ASSUME Named, RevisedAfresh, NEW e \in Entity, NEW f \in Entity, e # f,
                        Present(Home[e]), Present(Home[f]), Id(e) \in UUID, Id(e) = Id(f)
                 PROVE  FALSE
      BY DEF IdentitiesDistinct
    <2>1. Id(e) \in Alias \cup MintsOf(e) /\ Id(f) \in Alias \cup MintsOf(f)
      BY ShapeAssumption DEF Named, Own, DocsOwn, OwnNames, Written, EntitiesOf, Id
    <2>2. Id(e) \notin Alias BY DistinctAssumption
    <2> QED BY <2>1, <2>2, MintsApart
  <1> QED BY <1>1, InitNamed, NextNamed, PTL DEF Spec

-----------------------------------------------------------------------------
(* When no document is of schema 1.3 before the migration and interrupted    *)
(* applies are recovered first, a document is as people wrote it in the old  *)
(* schema, or was rewritten from a sealed map, or was written in 1.3.       *)
LegacyDoc(d) ==
    [v13 |-> FALSE, id |-> [e \in EntitiesOf(d) |-> AliasOf[e]],
     alias |-> [e \in EntitiesOf(d) |-> None],
     ref |-> [r \in ReferencesOf(d) |-> AliasOf[To[r]]]]

Sealed(k) == maps[k] # None /\ maps[k].seal # None

MigratedBy(k, d) ==
    /\ Sealed(k)
    /\ \A e \in EntitiesOf(d) :
          /\ e \in DOMAIN maps[k].base
          /\ docs[d].id[e] = maps[k].seal.uuid[e]
          /\ docs[d].alias[e] = AliasOf[e]

Migrated(d) == \E k \in 1..MaxPlans : MigratedBy(k, d)

StillLegacy(d) == ~ docs[d].v13 /\ \A e \in EntitiesOf(d) : docs[d].id[e] = AliasOf[e]

BornV13(d) == \A e \in EntitiesOf(d) : docs[d].id[e] = <<0, e>>

(* Of a legacy document, whether it was rewritten or not. *)
Stems(d) == StillLegacy(d) \/ Migrated(d)

Kinds == \A d \in Written : Stems(d) \/ BornV13(d)

(* Before the map is on disk, nothing has been rewritten. *)
Untouched == mapFile = Absent /\ journals = {} => \A d \in Written : docs[d] = LegacyDoc(d)

(* A backup is the corpus as it was, and nobody has added to it since. *)
Interrupted ==
    \A j \in journals :
        /\ j = [d \in Written |-> LegacyDoc(d)]
        /\ \A d \in Written : Stems(d)

(* The map on disk is one that was sealed, and rewrote what it covers. *)
Mapped ==
    mapFile # Absent /\ journals = {} =>
        \E k \in 1..MaxPlans :
            /\ Sealed(k) /\ mapFile.base = maps[k].base /\ mapFile.seal = maps[k].seal
            /\ \A e \in DOMAIN mapFile.base : Present(Home[e]) => MigratedBy(k, Home[e])

(* A map covers whole documents, which are not added again. *)
Planned ==
    \A k \in 1..MaxPlans : maps[k] # None =>
        \A e \in DOMAIN maps[k].base :
            /\ docs[Home[e]] # Absent
            /\ Root[Home[e]] \in DOMAIN maps[k].base
            /\ maps[k].base[e] \in Alias =>
                  maps[k].base[e] = AliasOf[e] /\ (Present(Home[e]) => Stems(Home[e]))

Phased == Named /\ Kinds /\ Untouched /\ Interrupted /\ Mapped /\ Planned

(* A map keeps what it covers, and a seal is given once. *)
MapsStay ==
    \A k \in 1..MaxPlans : maps[k] # None =>
        /\ maps'[k] # None /\ maps'[k].base = maps[k].base
        /\ maps[k].seal # None => maps'[k].seal = maps[k].seal

LEMMA OneMapStays ==
  ASSUME NEW k \in 1..MaxPlans, MapsShape, NEW m, maps' = [maps EXCEPT ![k] = m],
         maps[k] # None =>
            m # None /\ m.base = maps[k].base /\ (maps[k].seal # None => m.seal = maps[k].seal)
  PROVE  MapsStay
  BY DEF MapsStay, MapsShape

LEMMA NextMapsStay ==
  ASSUME Named, [Next]_vars
  PROVE  MapsStay
  <1>0. MapsShape /\ \A k \in 1..MaxPlans : maps[k] # None =>
          maps[k] \in MapOn(DOMAIN maps[k].base) /\ DOMAIN maps[k].base \subseteq Entity
    BY DEF Named, Shape, MapsShape, GoodMap
  <1>1. ASSUME NEW k \in 1..MaxPlans, Plan(k) PROVE MapsStay
    BY <1>0, <1>1 DEF Plan, MapsStay, MapsShape
  <1>2. ASSUME NEW k \in 1..MaxPlans, Seal(k) PROVE MapsStay
    <2> DEFINE E == DOMAIN maps[k].base
    <2>1. PICK turned :
            maps' = [maps EXCEPT ![k] =
              [[maps[k] EXCEPT !.accepted = E \ turned]
                 EXCEPT !.seal = Intent([maps[k] EXCEPT !.accepted = E \ turned])]]
      BY <1>2 DEF Seal
    <2> DEFINE acc == [maps[k] EXCEPT !.accepted = E \ turned]
               m == [acc EXCEPT !.seal = Intent(acc)]
    <2>2. maps[k] # None /\ maps[k].seal = None /\ maps[k] \in MapOn(E) /\ E \subseteq Entity
      BY <1>0, <1>2 DEF Seal
    <2>3. acc \in MapOn(E) /\ acc.base = maps[k].base
      BY <2>2 DEF MapOn
    <2>4. m.base = maps[k].base /\ m \in MapOn(E)
      <3>1. Intent(acc) \in ContentOn(E) BY <2>3 DEF MapOn, ContentOn, Intent
      <3> HIDE DEF acc
      <3> QED BY <2>3, <3>1 DEF MapOn
    <2>5. m # None BY <2>2, <2>4, DistinctAssumption
    <2> HIDE DEF m
    <2> QED BY <1>0, <2>1, <2>2, <2>4, <2>5, OneMapStays DEF m
  <1>3. ASSUME NEW k \in 1..MaxPlans, Revise(k) PROVE MapsStay
    <2> DEFINE E == DOMAIN maps[k].base
    <2>1. PICK e \in DOMAIN maps[k].uuid, u \in Replacements :
            maps' = [maps EXCEPT ![k].uuid[e] = u]
      BY <1>3 DEF Revise
    <2> DEFINE m == [maps[k] EXCEPT !.uuid[e] = u]
    <2>2. maps[k] # None /\ maps[k] \in MapOn(E) /\ E \subseteq Entity
      BY <1>0, <1>3 DEF Revise
    <2>3. e \in E BY <2>2 DEF MapOn
    <2>4. u \in UUID BY BoundAssumption
    <2>5. m.base = maps[k].base /\ m.seal = maps[k].seal /\ m \in MapOn(E)
      BY <2>2, <2>4 DEF MapOn
    <2>6. m # None BY <2>2, <2>5, DistinctAssumption
    <2>7. maps' = [maps EXCEPT ![k] = m]
      BY <1>0, <2>1 DEF MapsShape
    <2> HIDE DEF m
    <2> QED BY <1>0, <2>5, <2>6, <2>7, OneMapStays
  <1>4. CASE maps' = maps
    BY <1>4 DEF MapsStay
  <1>5. ASSUME NEW k \in 1..MaxPlans, Apply(k) \/ ApplyDies(k) PROVE maps' = maps
    BY <1>5 DEF Apply, ApplyDies
  <1>6. ASSUME NEW j \in journals, Recover(j) PROVE maps' = maps
    BY <1>6 DEF Recover
  <1>7. ASSUME NEW d \in Doc, Add(d) \/ Remove(d) PROVE maps' = maps
    BY <1>7 DEF Add, Remove
  <1>8. CASE UNCHANGED vars
    BY <1>4, <1>8 DEF vars
  <1> QED BY <1>1, <1>2, <1>3, <1>4, <1>5, <1>6, <1>7, <1>8 DEF Next

(* What a map rewrote stays rewritten by it. *)
LEMMA MigrationStays ==
  ASSUME MapsStay, NEW k \in 1..MaxPlans, NEW d, docs'[d] = docs[d], MigratedBy(k, d)
  PROVE  MigratedBy(k, d)'
  BY DEF MapsStay, MigratedBy, Sealed

LEMMA StemsStays ==
  ASSUME MapsStay, NEW d, docs'[d] = docs[d], Stems(d)
  PROVE  Stems(d)'
  BY MigrationStays DEF Stems, StillLegacy, Migrated

LEMMA KindStays ==
  ASSUME MapsStay, NEW d, docs'[d] = docs[d], Stems(d) \/ BornV13(d)
  PROVE  (Stems(d) \/ BornV13(d))'
  BY StemsStays DEF BornV13

LEMMA LegacyIsStill ==
  ASSUME NEW d \in Doc, docs[d] = LegacyDoc(d)
  PROVE  /\ StillLegacy(d)
         /\ \A e \in EntitiesOf(d) : docs[d].alias[e] = None
         /\ \A r \in ReferencesOf(d) : docs[d].ref[r] = AliasOf[To[r]]
  BY DEF StillLegacy, LegacyDoc

(* Nothing a map says is a legacy identifier. *)
LEMMA MigratedIsMinted ==
  ASSUME Named, NEW k \in 1..MaxPlans, NEW d \in Doc, MigratedBy(k, d)
  PROVE  \A e \in EntitiesOf(d) : docs[d].id[e] \notin Alias
  <1> DEFINE E == DOMAIN maps[k].base
  <1>1. maps[k].seal \in ContentOn(E)
    BY DEF MigratedBy, Sealed, Named, Shape, MapsShape, GoodMap, MapOn
  <1>2. maps[k].seal.uuid \in [E -> UUID]
    BY <1>1 DEF ContentOn
  <1> QED BY <1>2, DistinctAssumption DEF MigratedBy

LEMMA BornIsMinted ==
  ASSUME NEW d \in Doc, BornV13(d)
  PROVE  \A e \in EntitiesOf(d) : docs[d].id[e] \notin Alias
  <1>1. \A e \in EntitiesOf(d) : <<0, e>> \in UUID
    BY BoundAssumption DEF EntitiesOf, UUID
  <1> QED BY <1>1, DistinctAssumption DEF BornV13

LEMMA InitPhased == Init => Phased
  <1> SUFFICES ASSUME Init PROVE Phased OBVIOUS
  <1>1. Named BY InitNamed
  <1>2. Written = {} /\ journals = {} /\ mapFile = Absent BY DEF Init, Written, Present
  <1>3. Planned BY DEF Init, Planned
  <1> QED BY <1>1, <1>2, <1>3 DEF Phased, Kinds, Untouched, Interrupted, Mapped

(* A step that leaves the documents, the map on disk and the backups alone.  *)
LEMMA MapStepPhased ==
  ASSUME Phased, [Next]_vars, docs' = docs, mapFile' = mapFile, journals' = journals, Planned'
  PROVE  Phased'
  <1>1. Named' /\ MapsStay BY NextNamed, NextMapsStay DEF Phased
  <1>2. Kinds'
    BY <1>1, KindStays DEF Phased, Kinds, Written, Present
  <1>3. Untouched' BY DEF Phased, Untouched, Written, Present, LegacyDoc
  <1>4. Interrupted'
    BY <1>1, StemsStays DEF Phased, Interrupted, Written, Present, LegacyDoc
  <1>5. Mapped'
    <2> SUFFICES ASSUME mapFile # Absent, journals = {}
                 PROVE  \E k \in 1..MaxPlans :
                          /\ Sealed(k)' /\ mapFile.base = maps'[k].base /\ mapFile.seal = maps'[k].seal
                          /\ \A e \in DOMAIN mapFile.base :
                               Present(Home[e]) => MigratedBy(k, Home[e])'
      BY DEF Mapped, Present
    <2>1. PICK k \in 1..MaxPlans :
            /\ Sealed(k) /\ mapFile.base = maps[k].base /\ mapFile.seal = maps[k].seal
            /\ \A e \in DOMAIN mapFile.base : Present(Home[e]) => MigratedBy(k, Home[e])
      BY DEF Phased, Mapped
    <2>2. Sealed(k)' /\ mapFile.base = maps'[k].base /\ mapFile.seal = maps'[k].seal
      BY <1>1, <2>1 DEF MapsStay, Sealed
    <2> QED BY <1>1, <2>1, <2>2, MigrationStays
  <1> QED BY <1>1, <1>2, <1>3, <1>4, <1>5 DEF Phased

LEMMA PlanPhased ==
  ASSUME Phased, NEW k \in 1..MaxPlans, Plan(k)
  PROVE  Phased'
  <1>1. docs' = docs /\ mapFile' = mapFile /\ journals' = journals
    BY DEF Plan
  <1> DEFINE D == DOMAIN Baseline
             m == [base |-> Baseline, uuid |-> [e \in D |-> <<k, e>>],
                   accepted |-> D \ ToReview(Baseline), seal |-> None]
  <1>2. maps' = [maps EXCEPT ![k] = m] /\ m.base = Baseline
    BY DEF Plan
  <1>3. /\ D \subseteq Entity /\ \A e \in Entity : Present(Home[e]) <=> e \in D
        /\ \A e \in D : Baseline[e] = Id(e)
    BY BaselineType DEF Phased, Named, Shape
  <1>4. \A e \in D :
          /\ docs[Home[e]] # Absent
          /\ Root[Home[e]] \in D
          /\ Baseline[e] \in Alias => Baseline[e] = AliasOf[e] /\ Stems(Home[e])
    <2> TAKE e \in D
    <2>1. e \in Entity /\ Home[e] \in Doc /\ Home[e] \in Written /\ e \in EntitiesOf(Home[e])
      BY <1>3, ShapeAssumption DEF Written, EntitiesOf
    <2>2. docs[Home[e]] # Absent BY <2>1 DEF Written, Present
    <2>3. Root[Home[e]] \in D
      BY <1>3, <2>1, ShapeAssumption DEF Written
    <2>4. Baseline[e] = docs[Home[e]].id[e] BY <1>3 DEF Id
    <2>5. ASSUME Baseline[e] \in Alias
          PROVE  Baseline[e] = AliasOf[e] /\ Stems(Home[e])
      <3>1. ~ BornV13(Home[e]) BY <2>1, <2>4, <2>5, BornIsMinted
      <3>2. ~ Migrated(Home[e])
        BY <2>1, <2>4, <2>5, MigratedIsMinted DEF Migrated, Phased
      <3>3. StillLegacy(Home[e]) BY <2>1, <3>1, <3>2 DEF Phased, Kinds, Stems
      <3> QED BY <2>1, <2>4, <3>3 DEF StillLegacy, Stems
    <2> QED BY <2>2, <2>3, <2>5
  <1> HIDE DEF m
  <1>5. Next BY DEF Next
  <1>6. MapsStay BY <1>5, NextMapsStay DEF Phased
  <1>7. \A d : Stems(d) => Stems(d)' BY <1>1, <1>6, StemsStays
  <1>8. Planned'
    BY <1>1, <1>2, <1>4, <1>7 DEF Phased, Named, Shape, MapsShape, Planned, Present
  <1> QED BY <1>1, <1>5, <1>8, MapStepPhased

LEMMA SealRevisePhased ==
  ASSUME Phased, NEW k \in 1..MaxPlans, Seal(k) \/ Revise(k)
  PROVE  Phased'
  <1>1. docs' = docs /\ mapFile' = mapFile /\ journals' = journals
    BY DEF Seal, Revise
  <1>2. Next BY DEF Next
  <1>3. MapsStay BY <1>2, NextMapsStay DEF Phased
  <1>4. \A j \in 1..MaxPlans : maps'[j] # None => maps[j] # None
    BY DEF Seal, Revise, Phased, Named, Shape, MapsShape
  <1>5. Planned'
    BY <1>1, <1>3, <1>4, StemsStays DEF Phased, Planned, MapsStay, Present
  <1> QED BY <1>1, <1>2, <1>5, MapStepPhased

(* What an admitted map makes of a legacy document. *)
LEMMA LegacyRewritten ==
  ASSUME Phased, NEW k \in 1..MaxPlans, Admitted(k), maps' = maps,
         NEW d \in Written, docs[d] = LegacyDoc(d), docs'[d] = Rewritten(maps[k], d)
  PROVE  MigratedBy(k, d)'
  <1>1. /\ GoodMap(maps[k]) /\ IsInjective(maps[k].base) /\ maps[k].base = Baseline
        /\ maps[k].seal = Intent(maps[k]) /\ maps[k] # None
    BY DEF Admitted, Verified, Phased, Named, Shape, MapsShape, MapLaw
  <1>2. /\ EntitiesOf(d) \subseteq DOMAIN maps[k].base
        /\ \A e \in EntitiesOf(d) :
              /\ docs'[d].id[e] = maps[k].uuid[e]
              /\ docs'[d].alias[e] = AliasOf[e]
    <2>1. d \in Doc /\ \A e \in EntitiesOf(d) : docs[d].alias[e] = None /\ docs[d].id[e] = AliasOf[e]
      BY LegacyIsStill DEF Written, StillLegacy
    <2> QED BY <1>1, <2>1, RewrittenIds DEF Phased, Named
  <1>3. maps[k].seal.uuid = maps[k].uuid BY <1>1 DEF Intent
  <1>4. maps[k].seal # None
    <2>1. maps[k].seal \in ContentOn(DOMAIN maps[k].base)
      BY <1>1 DEF GoodMap, MapOn, ContentOn, Intent
    <2> QED BY <1>1, <2>1, DistinctAssumption DEF GoodMap
  <1> QED BY <1>1, <1>2, <1>3, <1>4 DEF MigratedBy, Sealed

LEMMA RewrittenIsPresent ==
  ASSUME Phased, NEW k \in 1..MaxPlans, Admitted(k), NEW d \in Written
  PROVE  Rewritten(maps[k], d) \notin {Absent, Deleted}
  <1>1. GoodMap(maps[k]) /\ maps[k].base = Baseline
    BY DEF Admitted, Phased, Named, Shape, MapsShape
  <1> QED BY <1>1, RewrittenType, GoodIsPresent DEF Phased, Named, Shape, Written

LEMMA ApplyPhased ==
  ASSUME Phased, NEW k \in 1..MaxPlans, Apply(k), RecoverFirst
  PROVE  Phased'
  <1>1. /\ Admitted(k) /\ mapFile = Absent /\ journals = {} /\ journals' = {}
        /\ maps' = maps /\ mapFile' = maps[k]
        /\ docs' = [d \in Doc |-> IF d \in Written THEN Rewritten(maps[k], d) ELSE docs[d]]
    BY DEF Apply, Admitted, Free, Written
  <1>2. Next BY DEF Next
  <1>3. Named' BY <1>2, NextNamed DEF Phased
  <1>4. Written' = Written
    BY <1>1, RewrittenIsPresent DEF Written, Present
  <1>5. \A d \in Written : MigratedBy(k, d)'
    BY <1>1, LegacyRewritten DEF Phased, Untouched, Written
  <1>6. Kinds' BY <1>4, <1>5 DEF Kinds, Stems, Migrated
  <1>7. mapFile' # Absent /\ maps[k].base = Baseline /\ maps[k] # None
    BY <1>1, DistinctAssumption DEF Admitted, Phased, Named, Shape, MapsShape, GoodMap
  <1>8. Mapped'
    <2>1. \A e \in DOMAIN maps[k].base : Home[e] \in Written
      BY <1>7, BaselineType, ShapeAssumption DEF Phased, Named, Shape, Written
    <2>2. Sealed(k)'
      <3>1. maps[k].seal \in ContentOn(DOMAIN maps[k].base)
        BY <1>1, <1>7 DEF Admitted, Verified, Phased, Named, Shape, MapsShape, GoodMap, MapOn,
                          ContentOn, Intent
      <3> QED BY <1>1, <1>7, <3>1, BaselineType, DistinctAssumption
              DEF Sealed, Phased, Named, Shape
    <2> QED BY <1>1, <1>5, <2>1, <2>2 DEF Mapped
  <1>9. Planned'
    <2> SUFFICES ASSUME NEW i \in 1..MaxPlans, maps[i] # None, NEW e \in DOMAIN maps[i].base
                 PROVE  /\ docs'[Home[e]] # Absent
                        /\ Root[Home[e]] \in DOMAIN maps[i].base
                        /\ maps[i].base[e] \in Alias =>
                              /\ maps[i].base[e] = AliasOf[e]
                              /\ Present(Home[e])' => Stems(Home[e])'
      BY <1>1 DEF Planned
    <2>1. Home[e] \in Doc
      BY ShapeAssumption DEF Phased, Named, Shape, MapsShape, GoodMap
    <2>2. CASE Home[e] \in Written
      <3>1. Home[e] \in Written' /\ docs'[Home[e]] # Absent
        BY <1>4, <2>2 DEF Written, Present
      <3>2. Stems(Home[e])' BY <1>5, <2>2 DEF Stems, Migrated
      <3> QED BY <3>1, <3>2 DEF Phased, Planned
    <2>3. CASE Home[e] \notin Written
      BY <1>1, <1>4, <2>1, <2>3 DEF Phased, Planned, Written, Present
    <2> QED BY <2>2, <2>3
  <1> QED BY <1>1, <1>3, <1>6, <1>7, <1>8, <1>9 DEF Phased, Untouched, Interrupted

LEMMA ApplyDiesPhased ==
  ASSUME Phased, NEW k \in 1..MaxPlans, ApplyDies(k), RecoverFirst
  PROVE  Phased'
  <1>1. PICK done \in SUBSET Written :
          docs' = [d \in Doc |-> IF d \in done THEN Rewritten(maps[k], d) ELSE docs[d]]
    BY DEF ApplyDies
  <1>2. /\ Admitted(k) /\ mapFile = Absent /\ journals = {} /\ maps' = maps
        /\ journals' = {[d \in Written |-> docs[d]]}
    BY DEF ApplyDies, Admitted, Free
  <1>3. Next BY DEF Next
  <1>4. Named' BY <1>3, NextNamed DEF Phased
  <1>5. MapsStay BY <1>2 DEF MapsStay
  <1>6. Written' = Written
    BY <1>1, <1>2, RewrittenIsPresent DEF Written, Present
  <1>7. \A d \in Written : d \in Doc /\ docs[d] = LegacyDoc(d)
    BY <1>2 DEF Phased, Untouched, Written
  <1>8. \A d \in Written : IF d \in done THEN MigratedBy(k, d)' ELSE docs'[d] = LegacyDoc(d)
    BY <1>1, <1>2, <1>7, LegacyRewritten
  <1>9. \A d \in Written : Stems(d)'
    <2> TAKE d \in Written
    <2>1. CASE d \in done
      BY <1>8, <2>1 DEF Stems, Migrated
    <2>2. CASE d \notin done
      <3>1. docs'[d] = docs[d] BY <1>1, <1>7, <2>2
      <3>2. Stems(d) BY <1>7, LegacyIsStill DEF Stems
      <3> QED BY <1>5, <3>1, <3>2, StemsStays
    <2> QED BY <2>1, <2>2
  <1>10. Kinds' BY <1>6, <1>9 DEF Kinds
  <1>11. Interrupted'
    <2>1. [d \in Written |-> docs[d]] = [d \in Written |-> LegacyDoc(d)]
      BY <1>7
    <2> QED BY <1>2, <1>6, <1>9, <2>1 DEF Interrupted, LegacyDoc
  <1>12. Planned'
    <2> SUFFICES ASSUME NEW i \in 1..MaxPlans, maps[i] # None, NEW e \in DOMAIN maps[i].base
                 PROVE  /\ docs'[Home[e]] # Absent
                        /\ Root[Home[e]] \in DOMAIN maps[i].base
                        /\ maps[i].base[e] \in Alias =>
                              /\ maps[i].base[e] = AliasOf[e]
                              /\ Present(Home[e])' => Stems(Home[e])'
      BY <1>2 DEF Planned
    <2>1. Home[e] \in Doc
      BY ShapeAssumption DEF Phased, Named, Shape, MapsShape, GoodMap
    <2>2. CASE Home[e] \in Written
      <3>1. Home[e] \in Written' BY <1>6, <2>2
      <3> QED BY <1>9, <2>2, <3>1 DEF Phased, Planned, Written, Present
    <2>3. CASE Home[e] \notin Written
      BY <1>1, <1>6, <2>1, <2>3 DEF Phased, Planned, Written, Present
    <2> QED BY <2>2, <2>3
  <1>13. journals' # {} BY <1>2
  <1> QED BY <1>4, <1>10, <1>11, <1>12, <1>13 DEF Phased, Untouched, Mapped

(* Recovery puts the whole corpus back. *)
LEMMA RecoveredIsLegacy ==
  ASSUME Phased, NEW j \in journals, Recover(j)
  PROVE  /\ Written' = Written /\ journals' = {} /\ mapFile' = Absent
         /\ docs' = [d \in Doc |-> IF d \in Written THEN LegacyDoc(d) ELSE docs[d]]
  <1>1. \A i \in journals : i = [d \in Written |-> LegacyDoc(d)]
    BY DEF Phased, Interrupted
  <1>2. journals' = {} /\ mapFile' = Absent BY <1>1 DEF Recover
  <1>3. docs' = [d \in Doc |-> IF d \in Written THEN LegacyDoc(d) ELSE docs[d]]
    BY <1>1 DEF Recover, Written
  <1>4. \A d \in Written : LegacyDoc(d) \notin {Absent, Deleted}
    <2> TAKE d \in Written
    <2>1. GoodDoc(j[d], d) /\ d \in Doc BY <1>1 DEF Phased, Named, Shape, JournalsShape
    <2>2. j[d] = LegacyDoc(d) BY <1>1
    <2> QED BY <2>1, <2>2, GoodIsPresent
  <1> QED BY <1>2, <1>3, <1>4 DEF Written, Present

LEMMA RecoverPhased ==
  ASSUME Phased, NEW j \in journals, Recover(j)
  PROVE  Phased'
  <1>1. Next BY DEF Next
  <1>2. Named' BY <1>1, NextNamed DEF Phased
  <1>3. /\ Written' = Written /\ journals' = {} /\ mapFile' = Absent /\ maps' = maps
        /\ docs' = [d \in Doc |-> IF d \in Written THEN LegacyDoc(d) ELSE docs[d]]
    BY RecoveredIsLegacy DEF Recover
  <1>4. \A d \in Written : d \in Doc /\ docs'[d] = LegacyDoc(d)
    BY <1>3 DEF Written
  <1>5. \A d \in Written : Stems(d)'
    <2> TAKE d \in Written
    <2>1. docs'[d] = LegacyDoc(d) BY <1>4
    <2>2. docs'[d].v13 = FALSE /\ docs'[d].id = [e \in EntitiesOf(d) |-> AliasOf[e]]
      BY <2>1 DEF LegacyDoc
    <2> QED BY <2>2 DEF StillLegacy, Stems
  <1>6. Kinds' BY <1>3, <1>5 DEF Kinds
  <1>7. Untouched' BY <1>3, <1>4 DEF Untouched, LegacyDoc
  <1>8. Planned'
    <2> SUFFICES ASSUME NEW i \in 1..MaxPlans, maps[i] # None, NEW e \in DOMAIN maps[i].base
                 PROVE  /\ docs'[Home[e]] # Absent
                        /\ Root[Home[e]] \in DOMAIN maps[i].base
                        /\ maps[i].base[e] \in Alias =>
                              /\ maps[i].base[e] = AliasOf[e]
                              /\ Present(Home[e])' => Stems(Home[e])'
      BY <1>3 DEF Planned
    <2>1. Home[e] \in Doc
      BY ShapeAssumption DEF Phased, Named, Shape, MapsShape, GoodMap
    <2>2. CASE Home[e] \in Written
      <3>1. Home[e] \in Written' BY <1>3, <2>2
      <3> QED BY <1>5, <2>2, <3>1 DEF Phased, Planned, Written, Present
    <2>3. CASE Home[e] \notin Written
      BY <1>3, <2>1, <2>3 DEF Phased, Planned, Written, Present
    <2> QED BY <2>2, <2>3
  <1> QED BY <1>2, <1>3, <1>6, <1>7, <1>8 DEF Phased, Interrupted, Mapped

(* One document changes while nothing is interrupted; no map covers it, or   *)
(* it goes away.                                                            *)
LEMMA DocStepPhased ==
  ASSUME Phased, Named', MapsStay, maps' = maps, mapFile' = mapFile, journals = {}, journals' = {},
         NEW d \in Doc, NEW doc, docs' = [docs EXCEPT ![d] = doc], doc # Absent,
         docs[d] = Absent \/ doc = Deleted,
         doc # Deleted => (Stems(d) \/ BornV13(d))',
         doc # Deleted /\ mapFile = Absent => doc = LegacyDoc(d)
  PROVE  Phased'
  <1>1. \A f \in Doc : docs'[f] = IF f = d THEN doc ELSE docs[f]
    BY DEF Phased, Named, Shape, DocsShape
  <1>2. Kinds'
    <2> SUFFICES ASSUME NEW f \in Written'
                 PROVE  (Stems(f) \/ BornV13(f))'
      BY DEF Kinds
    <2>1. CASE f = d
      BY <1>1, <2>1 DEF Written, Present
    <2>2. CASE f # d
      <3>1. docs'[f] = docs[f] /\ f \in Written
        BY <1>1, <2>2 DEF Written, Present
      <3> QED BY <3>1, KindStays DEF Phased, Kinds
    <2> QED BY <2>1, <2>2
  <1>3. Untouched'
    BY <1>1 DEF Phased, Untouched, Written, Present, LegacyDoc
  <1>4. \A k \in 1..MaxPlans : maps[k] # None =>
          \A e \in DOMAIN maps[k].base : Home[e] \in Doc /\ docs[Home[e]] # Absent
    BY ShapeAssumption DEF Phased, Planned, Named, Shape, MapsShape, GoodMap
  <1>5. \A k \in 1..MaxPlans : maps[k] # None =>
          \A e \in DOMAIN maps[k].base :
            Present(Home[e])' => Present(Home[e]) /\ docs'[Home[e]] = docs[Home[e]]
    BY <1>1, <1>4 DEF Present
  <1>6. Mapped'
    <2> SUFFICES ASSUME mapFile # Absent
                 PROVE  \E k \in 1..MaxPlans :
                          /\ Sealed(k)' /\ mapFile.base = maps[k].base /\ mapFile.seal = maps[k].seal
                          /\ \A e \in DOMAIN mapFile.base :
                               Present(Home[e])' => MigratedBy(k, Home[e])'
      BY DEF Mapped
    <2>1. PICK k \in 1..MaxPlans :
            /\ Sealed(k) /\ mapFile.base = maps[k].base /\ mapFile.seal = maps[k].seal
            /\ \A e \in DOMAIN mapFile.base : Present(Home[e]) => MigratedBy(k, Home[e])
      BY DEF Phased, Mapped
    <2>2. Sealed(k)' /\ maps[k] # None BY <2>1 DEF Sealed
    <2> QED BY <1>5, <2>1, <2>2, MigrationStays
  <1>7. Planned'
    <2> SUFFICES ASSUME NEW k \in 1..MaxPlans, maps[k] # None, NEW e \in DOMAIN maps[k].base
                 PROVE  /\ docs'[Home[e]] # Absent
                        /\ Root[Home[e]] \in DOMAIN maps[k].base
                        /\ maps[k].base[e] \in Alias =>
                              /\ maps[k].base[e] = AliasOf[e]
                              /\ Present(Home[e])' => Stems(Home[e])'
      BY DEF Planned
    <2> QED BY <1>1, <1>4, <1>5, StemsStays DEF Phased, Planned
  <1> QED BY <1>2, <1>3, <1>6, <1>7 DEF Phased, Interrupted

LEMMA AddPhased ==
  ASSUME Phased, NEW d \in Doc, Add(d), LegacyOnly, RecoverFirst
  PROVE  Phased'
  <1>1. Next BY DEF Next
  <1>2. Named' /\ MapsStay BY <1>1, NextNamed, NextMapsStay DEF Phased
  <1>3. PICK v \in BOOLEAN :
          (v => mapFile # Absent) /\ docs' = [docs EXCEPT ![d] = Authored(d, v)]
    BY DEF Add
  <1>4. /\ maps' = maps /\ mapFile' = mapFile /\ journals = {} /\ journals' = {}
        /\ docs[d] = Absent
    BY DEF Add, Free
  <1>5. Authored(d, v) \notin {Absent, Deleted}
    BY AuthoredType, GoodIsPresent DEF Phased, Named
  <1>6. docs'[d] = Authored(d, v)
    BY <1>3 DEF Phased, Named, Shape, DocsShape
  <1>7. (Stems(d) \/ BornV13(d))'
    BY <1>6 DEF Authored, Stems, StillLegacy, BornV13
  <1>8. ASSUME mapFile = Absent PROVE Authored(d, v) = LegacyDoc(d)
    <2>1. v = FALSE BY <1>3, <1>8
    <2> DEFINE id == [e \in EntitiesOf(d) |-> IF v THEN <<0, e>> ELSE AliasOf[e]]
               alias == [e \in EntitiesOf(d) |-> IF v THEN AliasOf[e] ELSE None]
               Name(e) == CASE Home[e] = d -> id[e]
                            [] Home[e] # d /\ Present(Home[e]) -> Id(e)
                            [] OTHER -> AliasOf[e]
    <2>2. \A e \in Entity : Name(e) = AliasOf[e]
      <3> TAKE e \in Entity
      <3>1. CASE Home[e] = d BY <2>1, <3>1 DEF EntitiesOf
      <3>2. CASE Home[e] # d /\ Present(Home[e])
        <4>1. Home[e] \in Written /\ e \in EntitiesOf(Home[e])
          BY <3>2, ShapeAssumption DEF Written, EntitiesOf
        <4>2. docs[Home[e]] = LegacyDoc(Home[e])
          BY <1>4, <1>8, <4>1 DEF Phased, Untouched
        <4>3. Id(e) = AliasOf[e] BY <4>1, <4>2 DEF Id, LegacyDoc
        <4> QED BY <3>2, <4>3
      <3>3. CASE Home[e] # d /\ ~ Present(Home[e]) BY <3>3
      <3> QED BY <3>1, <3>2, <3>3
    <2>3. \A r \in ReferencesOf(d) : To[r] \in Entity
      BY ShapeAssumption DEF ReferencesOf
    <2>4. Authored(d, v) =
            [v13 |-> v, id |-> id, alias |-> alias, ref |-> [r \in ReferencesOf(d) |-> Name(To[r])]]
      BY DEF Authored
    <2>5. /\ id = [e \in EntitiesOf(d) |-> AliasOf[e]]
          /\ alias = [e \in EntitiesOf(d) |-> None]
      BY <2>1
    <2> HIDE DEF Name, id, alias
    <2>6. [r \in ReferencesOf(d) |-> Name(To[r])] = [r \in ReferencesOf(d) |-> AliasOf[To[r]]]
      BY <2>2, <2>3
    <2> QED BY <2>1, <2>4, <2>5, <2>6 DEF LegacyDoc
  <1> QED BY <1>2, <1>3, <1>4, <1>5, <1>7, <1>8, DocStepPhased

LEMMA RemovePhased ==
  ASSUME Phased, NEW d \in Doc, Remove(d), RecoverFirst
  PROVE  Phased'
  <1>1. Next BY DEF Next
  <1>2. Named' /\ MapsStay BY <1>1, NextNamed, NextMapsStay DEF Phased
  <1>3. /\ maps' = maps /\ mapFile' = mapFile /\ journals = {} /\ journals' = {}
        /\ docs' = [docs EXCEPT ![d] = Deleted] /\ docs[d] # Absent
    BY DEF Remove, Free, Present
  <1> QED BY <1>2, <1>3, DistinctAssumption, DocStepPhased

LEMMA NextPhased ==
  ASSUME LegacyOnly, RecoverFirst, Phased, [Next]_vars
  PROVE  Phased'
  <1>1. ASSUME NEW k \in 1..MaxPlans,
               Plan(k) \/ Seal(k) \/ Revise(k) \/ Apply(k) \/ ApplyDies(k)
        PROVE  Phased'
    BY <1>1, PlanPhased, SealRevisePhased, ApplyPhased, ApplyDiesPhased
  <1>2. ASSUME NEW j \in journals, Recover(j) PROVE Phased'
    BY <1>2, RecoverPhased
  <1>3. ASSUME NEW d \in Doc, Add(d) \/ Remove(d) PROVE Phased'
    BY <1>3, AddPhased, RemovePhased
  <1>4. CASE UNCHANGED vars
    <2>1. Planned'
      <3>1. MapsStay BY NextMapsStay DEF Phased
      <3> QED BY <1>4, <3>1, StemsStays DEF vars, Phased, Planned, Present
    <2> QED BY <1>4, <2>1, MapStepPhased DEF vars
  <1> QED BY <1>1, <1>2, <1>3, <1>4 DEF Next

-----------------------------------------------------------------------------
(* A step that changes the identities of a document starts while they are   *)
(* legacy, or is a recovery.                                                *)
LEMMA StepMintsOnce ==
  ASSUME RecoverFirst, Phased, [Next]_vars
  PROVE  \A d \in Doc : \A e \in EntitiesOf(d) :
           Present(d) /\ Present(d)' /\ Id(e) \in UUID =>
             Id(e)' = Id(e) \/ \E j \in journals : Recover(j)
  <1> SUFFICES ASSUME NEW d \in Doc, NEW e \in EntitiesOf(d),
                      Present(d), Present(d)', Id(e) \in UUID
               PROVE  Id(e)' = Id(e) \/ \E j \in journals : Recover(j)
    OBVIOUS
  <1>1. Home[e] = d BY DEF EntitiesOf
  <1>2. CASE UNCHANGED vars
    BY <1>2 DEF vars, Id
  <1>3. ASSUME NEW k \in 1..MaxPlans, Plan(k) \/ Seal(k) \/ Revise(k)
        PROVE  Id(e)' = Id(e)
    BY <1>3 DEF Plan, Seal, Revise, Id
  <1>4. ~ \E k \in 1..MaxPlans : Apply(k) \/ ApplyDies(k)
    <2> SUFFICES ASSUME NEW k \in 1..MaxPlans, Apply(k) \/ ApplyDies(k)
                 PROVE  FALSE
      OBVIOUS
    <2>1. mapFile = Absent /\ journals = {}
      BY DEF Apply, ApplyDies, Admitted, Free
    <2>2. StillLegacy(d)
      BY <2>1, LegacyIsStill DEF Phased, Untouched, Written
    <2>3. AliasOf[e] \in Alias BY ShapeAssumption DEF EntitiesOf
    <2> QED BY <1>1, <2>2, <2>3, DistinctAssumption DEF StillLegacy, Id
  <1>5. ASSUME NEW f \in Doc, Add(f) \/ Remove(f)
        PROVE  Id(e)' = Id(e)
    <2>1. CASE Add(f)
      BY <1>1, <2>1 DEF Add, Present, Id, Phased, Named, Shape, DocsShape
    <2>2. CASE Remove(f)
      BY <1>1, <2>2 DEF Remove, Present, Id, Phased, Named, Shape, DocsShape
    <2> QED BY <1>5, <2>1, <2>2
  <1> QED BY <1>2, <1>3, <1>4, <1>5 DEF Next

(* Migration never remints: once a document has a UUID, no plan, map,       *)
(* revision, apply or kill ever replaces it; only recovery takes it back.   *)
THEOREM MintsOnce ==
  ASSUME LegacyOnly, RecoverFirst
  PROVE  Spec => MintedOnce
  <1>1. Phased /\ [Next]_vars => Phased'
    BY NextPhased
  <1>2. Phased /\ [Next]_vars =>
          [\A d \in Doc : \A e \in EntitiesOf(d) :
             Present(d) /\ Present(d)' /\ Id(e) \in UUID =>
               Id(e)' = Id(e) \/ \E j \in journals : Recover(j)]_vars
    BY StepMintsOnce
  <1> QED BY InitPhased, <1>1, <1>2, PTL DEF Spec, MintedOnce

(* What an admitted map makes of a reference that names what is there: the   *)
(* identity that it mints for it.                                           *)
LEMMA ReferenceRewritten ==
  ASSUME Phased, NEW k \in 1..MaxPlans, Admitted(k), NEW r \in Reference, Resolves(r),
         From[r] \in Written
  PROVE  Rewritten(maps[k], From[r]).ref[r] = maps[k].uuid[To[r]]
  <1> DEFINE d == From[r]
             m == maps[k]
             doc == docs[d]
             new == {e \in EntitiesOf(d) : doc.id[e] \in Known(m) /\ (e = Root[d] \/ doc.alias[e] = None)}
             Target(i) == CASE i \in Known(m) -> m.uuid[EntryOf(m, i)]
                            [] i \in Alias \ Known(m) -> Dropped
                            [] OTHER -> i
             id == [e \in EntitiesOf(d) |->
                      IF e \in new THEN m.uuid[EntryOf(m, doc.id[e])] ELSE doc.id[e]]
             alias == [e \in EntitiesOf(d) |-> IF e \in new THEN doc.id[e] ELSE doc.alias[e]]
             ref == [q \in ReferencesOf(d) |-> Target(doc.ref[q])]
  <1>1. /\ IsInjective(m.base) /\ m.base = Baseline
        /\ \A e \in Entity : Present(Home[e]) <=> e \in DOMAIN m.base
        /\ \A e \in DOMAIN m.base : m.base[e] = Id(e)
    BY BaselineType DEF Admitted, Phased, Named, Shape, MapLaw
  <1>2. /\ To[r] \in DOMAIN m.base /\ doc.ref[r] = m.base[To[r]] /\ r \in ReferencesOf(d)
        /\ d \in Doc
    BY <1>1, ShapeAssumption DEF Resolves, ReferencesOf
  <1>3. doc.ref[r] \in Known(m) /\ EntryOf(m, doc.ref[r]) = To[r]
    BY <1>1, <1>2, EntryIsOwn
  <1>4. doc.id[Root[d]] \in Known(m)
    <2>1. Root[d] \in Entity /\ Home[Root[d]] = d BY <1>2, ShapeAssumption
    <2>2. Root[d] \in DOMAIN m.base /\ m.base[Root[d]] = doc.id[Root[d]]
      BY <1>1, <2>1 DEF Written, Id
    <2> QED BY <2>2 DEF Known
  <1>5. Rewritten(m, d) = [v13 |-> TRUE, id |-> id, alias |-> alias, ref |-> ref]
    BY <1>4 DEF Rewritten
  <1>6. Target(doc.ref[r]) = m.uuid[To[r]] BY <1>3
  <1> HIDE DEF Target, id, alias
  <1>7. Rewritten(m, d).ref[r] = Target(doc.ref[r]) BY <1>2, <1>5
  <1> QED BY <1>6, <1>7

LEMMA StepKeepsReferences ==
  ASSUME LegacyOnly, RecoverFirst, Phased, [Next]_vars
  PROVE  journals' = {} => \A r \in Reference :
            Resolves(r) /\ Present(From[r])' /\ Present(Home[To[r]])' => Resolves(r)'
  <1> SUFFICES ASSUME journals' = {}, NEW r \in Reference, Resolves(r),
                      Present(From[r])', Present(Home[To[r]])'
               PROVE  docs'[From[r]].ref[r] = docs'[Home[To[r]]].id[To[r]]
    BY DEF Resolves, Id
  <1>1. /\ From[r] \in Doc /\ To[r] \in Entity /\ Home[To[r]] \in Doc
        /\ Present(From[r]) /\ Present(Home[To[r]])
        /\ docs[From[r]].ref[r] = docs[Home[To[r]]].id[To[r]]
        /\ r \in ReferencesOf(From[r]) /\ To[r] \in EntitiesOf(Home[To[r]])
    BY ShapeAssumption DEF Resolves, Id, ReferencesOf, EntitiesOf
  <1>2. CASE docs' = docs BY <1>1, <1>2
  <1>3. ASSUME NEW k \in 1..MaxPlans, Plan(k) \/ Seal(k) \/ Revise(k) PROVE docs' = docs
    BY <1>3 DEF Plan, Seal, Revise
  <1>4. ASSUME NEW k \in 1..MaxPlans, Apply(k)
        PROVE  docs'[From[r]].ref[r] = docs'[Home[To[r]]].id[To[r]]
    <2>1. Admitted(k) /\ journals = {} /\ mapFile = Absent
      BY <1>4 DEF Apply, Admitted, Free
    <2>2. /\ docs'[From[r]] = Rewritten(maps[k], From[r])
          /\ docs'[Home[To[r]]] = Rewritten(maps[k], Home[To[r]])
      BY <1>1, <1>4 DEF Apply
    <2>3. From[r] \in Written /\ Home[To[r]] \in Written BY <1>1 DEF Written
    <2>4. docs'[From[r]].ref[r] = maps[k].uuid[To[r]]
      BY <2>1, <2>2, <2>3, ReferenceRewritten
    <2>5. docs[Home[To[r]]].alias[To[r]] = None
      BY <1>1, <2>1, <2>3, LegacyIsStill DEF Phased, Untouched
    <2>6. Rewritten(maps[k], Home[To[r]]).id[To[r]] = maps[k].uuid[To[r]]
      BY <1>1, <2>1, <2>3, <2>5, RewrittenIds
      DEF Admitted, Phased, Named, Shape, MapsShape, MapLaw
    <2> QED BY <2>2, <2>4, <2>6
  <1>5. ASSUME NEW k \in 1..MaxPlans PROVE ~ ApplyDies(k)
    BY DEF ApplyDies
  <1>6. ASSUME NEW j \in journals, Recover(j)
        PROVE  docs'[From[r]].ref[r] = docs'[Home[To[r]]].id[To[r]]
    <2>1. docs' = [d \in Doc |-> IF d \in Written THEN LegacyDoc(d) ELSE docs[d]]
      BY <1>6, RecoveredIsLegacy
    <2>2. From[r] \in Written /\ Home[To[r]] \in Written BY <1>1 DEF Written
    <2>3. /\ docs'[From[r]] = LegacyDoc(From[r])
          /\ docs'[Home[To[r]]] = LegacyDoc(Home[To[r]])
      BY <1>1, <2>1, <2>2
    <2> QED BY <1>1, <2>3 DEF LegacyDoc
  <1>7. ASSUME NEW d \in Doc, Add(d) \/ Remove(d)
        PROVE  docs'[From[r]].ref[r] = docs'[Home[To[r]]].id[To[r]]
    <2>1. CASE Add(d)
      BY <1>1, <2>1 DEF Add, Present, Phased, Named, Shape, DocsShape
    <2>2. CASE Remove(d)
      BY <1>1, <2>2 DEF Remove, Present, Phased, Named, Shape, DocsShape
    <2> QED BY <1>7, <2>1, <2>2
  <1>8. CASE UNCHANGED vars BY <1>2, <1>8 DEF vars
  <1> QED BY <1>2, <1>3, <1>4, <1>5, <1>6, <1>7, <1>8 DEF Next

(* No reference is retargeted or left dangling: applying a map, recovering   *)
(* an apply killed anywhere, and people's own additions and removals keep    *)
(* every reference between documents that stay on the entity it named.      *)
THEOREM KeepsReferences ==
  ASSUME LegacyOnly, RecoverFirst
  PROVE  Spec => ReferencesKept
  <1>1. Phased /\ [Next]_vars => Phased'
    BY NextPhased
  <1>2. Phased /\ [Next]_vars =>
          [journals' = {} => \A r \in Reference :
             Resolves(r) /\ Present(From[r])' /\ Present(Home[To[r]])' => Resolves(r)']_vars
    BY StepKeepsReferences
  <1> QED BY InitPhased, <1>1, <1>2, PTL DEF Spec, ReferencesKept

(* The identity map on disk stays what was sealed, and the documents it      *)
(* covers keep the UUIDs that it records, until they are removed.           *)
THEOREM MapDescribes ==
  ASSUME LegacyOnly, RecoverFirst
  PROVE  Spec => []MapDescribesCorpus
  <1>1. Phased /\ [Next]_vars => Phased'
    BY NextPhased
  <1>2. Phased => MapDescribesCorpus
    <2> SUFFICES ASSUME Phased, journals = {}, mapFile # Absent,
                        NEW e \in DOMAIN mapFile.base, Present(Home[e])
                 PROVE  Id(e) = mapFile.seal.uuid[e]
      BY DEF MapDescribesCorpus
    <2>1. PICK k \in 1..MaxPlans :
            /\ Sealed(k) /\ mapFile.base = maps[k].base /\ mapFile.seal = maps[k].seal
            /\ MigratedBy(k, Home[e])
      BY DEF Phased, Mapped
    <2>2. e \in Entity
      BY <2>1 DEF Sealed, Phased, Named, Shape, MapsShape, GoodMap
    <2>3. e \in EntitiesOf(Home[e]) BY <2>2 DEF EntitiesOf
    <2> QED BY <2>1, <2>3 DEF MigratedBy, Id
  <1> QED BY InitPhased, <1>1, <1>2, PTL DEF Spec

(* Check reads the identity of the documents only, and yet what it accepts,  *)
(* for any map planned for a legacy corpus, sealed or revised since, is a    *)
(* corpus in which nested entities have the identities of that map too: two  *)
(* maps never mint the same UUID, and people write new ones.                *)
THEOREM CheckSound ==
  ASSUME LegacyOnly, RecoverFirst
  PROVE  Spec => []CheckIsSound
  <1>1. Phased /\ [Next]_vars => Phased'
    BY NextPhased
  <1>2. Phased => CheckIsSound
    <2> SUFFICES ASSUME Phased, RevisedAfresh, NEW k \in 1..MaxPlans, maps[k] # None,
                        Known(maps[k]) \subseteq Alias, CheckPasses(maps[k]),
                        NEW e \in DOMAIN maps[k].base, Present(Home[e])
                 PROVE  Id(e) = maps[k].uuid[e]
      BY DEF CheckIsSound
    <2> DEFINE d == Home[e]
               a == Root[d]
    <2>1. /\ e \in Entity /\ d \in Doc /\ d \in Written /\ e \in EntitiesOf(d)
          /\ a \in Entity /\ a \in EntitiesOf(d) /\ a \in DOMAIN maps[k].base
          /\ maps[k].base[a] \in Alias
      BY ShapeAssumption
      DEF Phased, Named, Shape, MapsShape, GoodMap, Planned, Written, EntitiesOf, Known
    <2>2. maps[k].base[a] = AliasOf[a] /\ Stems(d)
      BY <2>1, ShapeAssumption DEF Phased, Planned, EntitiesOf
    <2>3. docs[d].v13 BY <2>1 DEF CheckPasses
    <2>4. PICK n \in 1..MaxPlans : MigratedBy(n, d)
      BY <2>2, <2>3 DEF Stems, StillLegacy, Migrated
    <2>5. docs[d].alias[a] = maps[k].base[a] /\ docs[d].id[a] = maps[n].seal.uuid[a]
      BY <2>1, <2>2, <2>4 DEF MigratedBy
    <2>6. docs[d].id[a] = maps[k].uuid[a]
      <3>1. IsInjective(maps[k].base) BY DEF Phased, Named, MapLaw
      <3>2. maps[k].base[a] \in Known(maps[k]) /\ EntryOf(maps[k], maps[k].base[a]) = a
        BY <2>1, <3>1, EntryIsOwn
      <3> QED BY <2>1, <2>5, <3>2 DEF CheckPasses
    <2>7. n = k
      <3>1. maps[n].seal.uuid[a] \in {<<n, a>>, <<MaxPlans + n, a>>}
        BY <2>1, <2>4 DEF MigratedBy, Sealed, Phased, Named, Own, MapsOwn, MintedIn
      <3>2. maps[k].uuid[a] \in {<<k, a>>, <<MaxPlans + k, a>>}
        BY <2>1 DEF Phased, Named, Own, MapsOwn, MintedIn
      <3> QED BY <2>5, <2>6, <3>1, <3>2, BoundAssumption
    <2>8. maps[k].seal.uuid = maps[k].uuid
      BY DEF CheckPasses, Verified, Intent
    <2> QED BY <2>1, <2>4, <2>7, <2>8 DEF MigratedBy, Id
  <1> QED BY InitPhased, <1>1, <1>2, PTL DEF Spec
=============================================================================
