---------------------------- MODULE IdAllocation ----------------------------
(***************************************************************************)
(* ArchitectureRepository.next_id and the commands that call it, next-id   *)
(* and scaffold.  The next number of a type is one above everything seen:  *)
(* the high-water mark of .adr-id-allocation.yaml and the numbers that the *)
(* documents of the type's directory declare.  The mark makes numbers of   *)
(* deleted documents unusable.  One file holds the marks of all types; it  *)
(* is read, changed and rewritten whole, and no lock is taken.             *)
(***************************************************************************)
EXTENDS Naturals

CONSTANTS
    Process,       \* invocations of next-id or scaffold
    Type,          \* ADR types: logical, physical-system, physical-component
    File,          \* paths of documents
    TypeOf,        \* the type whose directory a path is in
    NormalEnd,     \* last number of the normal band (8999)
    ReservedEnd,   \* last number of the reserved band (9999)
    Declared,      \* numbers that people give to documents by hand
    NoFile, Unreadable,
    Serial         \* whether invocations and edits never overlap

ASSUME BandAssumption == NormalEnd \in Nat \ {0} /\ ReservedEnd \in Nat /\ NormalEnd < ReservedEnd
ASSUME TypeAssumption == Type # {} /\ TypeOf \in [File -> Type]
ASSUME DeclaredAssumption == Declared \subseteq 0..ReservedEnd
ASSUME MarkerAssumption ==
    NoFile \notin Nat /\ Unreadable \notin Nat /\ Unreadable \notin [Type -> 0..NormalEnd]
ASSUME SerialAssumption == Serial \in BOOLEAN

VARIABLES
    numbers,  \* the number each document declares; 0: none of its type's form
    marks,    \* the allocation file: a mark for each type, or Unreadable
    proc,     \* what each invocation is doing, and its local variables
    issued    \* history: the numbers handed out since the marks were last lost

allocVars == <<numbers, marks, proc, issued>>

NoMarks == [t \in Type |-> 0]

Idle == [at |-> "idle", type |-> CHOOSE t \in Type : TRUE, highest |-> 0, data |-> NoMarks]

MayStart == Serial => \A p \in Process : proc[p].at = "idle"

InDirectory(t) == {f \in File : TypeOf[f] = t /\ numbers[f] # NoFile}

(* The numbers of the normal band in use in the directory of a type; what a *)
(* document of the reserved band declares does not move the sequence.       *)
Occupied(t) == {numbers[f] : f \in InDirectory(t)} \cap 1..NormalEnd

(* The greatest number of a set, as a set of one. *)
Greatest(S) == {n \in S : \A m \in S : m <= n}

Duplicated(t) ==
    \E f, g \in InDirectory(t) : f # g /\ numbers[f] = numbers[g] /\ numbers[f] \in 1..ReservedEnd

Readable(t) == \A f \in InDirectory(t) : numbers[f] # Unreadable

-----------------------------------------------------------------------------
AllocInit ==
    /\ numbers = [f \in File |-> NoFile]
    /\ marks = NoMarks
    /\ proc = [p \in Process |-> Idle]
    /\ issued = [t \in Type |-> {}]

Fails(p) ==
    /\ proc' = [proc EXCEPT ![p] = Idle]
    /\ UNCHANGED <<numbers, marks, issued>>

Start(p, t) ==
    /\ proc[p].at = "idle" /\ MayStart
    /\ proc' = [proc EXCEPT ![p] = [Idle EXCEPT !.at = "loading", !.type = t]]
    /\ UNCHANGED <<numbers, marks, issued>>

(* _load_allocation_high_water *)
Load(p) ==
    /\ proc[p].at = "loading" /\ marks # Unreadable
    /\ proc' = [proc EXCEPT ![p].at = "scanning", ![p].highest = marks[proc[p].type]]
    /\ UNCHANGED <<numbers, marks, issued>>

LoadFails(p) == proc[p].at = "loading" /\ marks = Unreadable /\ Fails(p)

(* Mutant: the documents alone decide. *)
ScanOnly(p) ==
    /\ proc[p].at = "scanning" /\ Readable(proc[p].type) /\ ~Duplicated(proc[p].type)
    /\ \E n \in Greatest({0} \cup Occupied(proc[p].type)) :
          proc' = [proc EXCEPT ![p].at = "scanned", ![p].highest = n]
    /\ UNCHANGED <<numbers, marks, issued>>

(* Mutant: the mark alone decides. *)
ScanNothing(p) ==
    /\ proc[p].at = "scanning" /\ Readable(proc[p].type) /\ ~Duplicated(proc[p].type)
    /\ proc' = [proc EXCEPT ![p].at = "scanned"]
    /\ UNCHANGED <<numbers, marks, issued>>

(* The loop over the documents of the directory. *)
Scan(p) ==
    /\ proc[p].at = "scanning" /\ Readable(proc[p].type) /\ ~Duplicated(proc[p].type)
    /\ \E n \in Greatest({proc[p].highest} \cup Occupied(proc[p].type)) :
          proc' = [proc EXCEPT ![p].at = "scanned", ![p].highest = n]
    /\ UNCHANGED <<numbers, marks, issued>>

ScanFails(p) ==
    /\ proc[p].at = "scanning"
    /\ ~Readable(proc[p].type) \/ Duplicated(proc[p].type)
    /\ Fails(p)

Exhausted(p) == proc[p].at = "scanned" /\ proc[p].highest + 1 > NormalEnd /\ Fails(p)

(* Mutant: the end of the band is not tested. *)
SaveReadUnbounded(p) ==
    /\ proc[p].at = "scanned" /\ marks # Unreadable
    /\ proc' = [proc EXCEPT ![p].at = "saving", ![p].data = marks]
    /\ UNCHANGED <<numbers, marks, issued>>

(* _save_allocation_high_water reads the file again, with the marks of the  *)
(* other types ...                                                          *)
SaveRead(p) ==
    /\ proc[p].at = "scanned" /\ proc[p].highest + 1 <= NormalEnd /\ marks # Unreadable
    /\ proc' = [proc EXCEPT ![p].at = "saving", ![p].data = marks]
    /\ UNCHANGED <<numbers, marks, issued>>

(* ... and rewrites it. *)
SaveWrite(p) ==
    /\ proc[p].at = "saving"
    /\ \E n \in Greatest({proc[p].data[proc[p].type], proc[p].highest + 1}) :
          marks' = [proc[p].data EXCEPT ![proc[p].type] = n]
    /\ proc' = [proc EXCEPT ![p].at = "returning"]
    /\ UNCHANGED <<numbers, issued>>

(* write_text truncates the file before it writes: killed in between, the    *)
(* file is empty, which reads as no mark at all; out of space, it ends       *)
(* anywhere, and may not be a mapping any more.  Either way the marks are    *)
(* lost, and with them what they knew of numbers handed out.                *)
SaveWriteDies(p) ==
    /\ proc[p].at = "saving"
    /\ marks' \in {NoMarks, Unreadable}
    /\ issued' = [t \in Type |-> {}]
    /\ proc' = [proc EXCEPT ![p] = Idle]
    /\ UNCHANGED numbers

(* next-id prints the identifier; scaffold --output writes a document too,  *)
(* over what is at that path.                                               *)
Return(p) ==
    /\ proc[p].at = "returning"
    /\ issued' = [issued EXCEPT ![proc[p].type] = @ \cup {proc[p].highest + 1}]
    /\ \/ numbers' = numbers
       \/ \E f \in File :
             /\ TypeOf[f] = proc[p].type
             /\ numbers' = [numbers EXCEPT ![f] = proc[p].highest + 1]
    /\ proc' = [proc EXCEPT ![p] = Idle]
    /\ UNCHANGED marks

(* Killed anywhere; or the file, readable when it was loaded, is not any more *)
(* when it is saved.                                                        *)
Die(p) == proc[p].at # "idle" /\ Fails(p)

-----------------------------------------------------------------------------
(* People write documents with numbers of their own, break and delete them, *)
(* and delete an allocation file that cannot be read.                       *)
Author(f) ==
    /\ MayStart
    /\ \E n \in Declared \cup {Unreadable, NoFile} : numbers' = [numbers EXCEPT ![f] = n]
    /\ UNCHANGED <<marks, proc, issued>>

Repair ==
    /\ MayStart /\ marks = Unreadable
    /\ marks' = NoMarks
    /\ UNCHANGED <<numbers, proc, issued>>

-----------------------------------------------------------------------------
Command(p) ==
    \/ \E t \in Type : Start(p, t)
    \/ Load(p) \/ LoadFails(p) \/ Scan(p) \/ ScanFails(p) \/ Exhausted(p)
    \/ SaveRead(p) \/ SaveWrite(p) \/ SaveWriteDies(p)
    \/ Return(p) \/ Die(p)

AllocNext ==
    \/ \E p \in Process : Command(p)
    \/ \E f \in File : Author(f)
    \/ Repair

AllocSpec == AllocInit /\ [][AllocNext]_allocVars

-----------------------------------------------------------------------------
Marks == [Type -> 0..NormalEnd]
Steps == {"idle", "loading", "scanning", "scanned", "saving", "returning"}
Invocation == [at : Steps, type : Type, highest : 0..NormalEnd, data : Marks]

(* The variables range over what the code can store in them; in particular  *)
(* no mark and no identifier leaves the normal band.                        *)
IdTypeOK ==
    /\ numbers \in [File -> {NoFile, Unreadable} \cup 0..ReservedEnd]
    /\ marks \in Marks \cup {Unreadable}
    /\ proc \in [Process -> Invocation]
    /\ \A p \in Process : proc[p].at \in {"saving", "returning"} => proc[p].highest < NormalEnd
    /\ issued \in [Type -> SUBSET (1..NormalEnd)]

(* "next_id is monotonic and non reusable": a number is handed out at most   *)
(* once, whatever became of the document it was meant for, until a write of  *)
(* the marks is cut short.                                                  *)
NeverReissued ==
    [][\A p \in Process :
          Return(p) => proc[p].highest + 1 \notin issued[proc[p].type]]_allocVars

(* The number handed out is not that of a document in the type's directory, *)
(* even if the marks were lost.                                             *)
NeverOccupied ==
    [][\A p \in Process :
          Return(p) => proc[p].highest + 1 \notin Occupied(proc[p].type)]_allocVars
=============================================================================
