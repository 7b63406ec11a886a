---------------------------- MODULE CompilerProofs ----------------------------
(***************************************************************************)
(* What validate-generated-docs calls valid is current, for any number of  *)
(* command lines, edits, runs and kills, if nobody edits the sources while *)
(* a command runs.  The header of an artifact is signed from a second      *)
(* reading of the sources: the invariant says that what was rendered, and  *)
(* what is still to be written, was signed for the sources it shows.  And  *)
(* what check accepts is one build, compared with a disk that stood still: *)
(* what a check has found without drift so far is that of its timestamp.   *)
(***************************************************************************)
EXTENDS Compiler, TLAPS

Groups == {"registries", "manifest", "markdown", "graph"}

(* A command line. *)
Line == [pc: {"idle", "stamp", "frontend", "emit", "header", "write", "fill", "check"},
         emit: SUBSET Groups, check: BOOLEAN, at: Stamp, seen: Source,
         groups: SUBSET Groups, body: Seq(Artifact \X Version), made: Seq(Artifact \X Written),
         drift: BOOLEAN]

TypeOK ==
    /\ sources \in Source
    /\ \A part \in Part : sources.version[part] <= edits
    /\ edits \in 0..MaxEdits
    /\ disk \in [Artifact -> Written \cup {Absent}]
    /\ proc \in [Proc -> Line]

(* A whole artifact shows the version of the sources that it was signed for. *)
Signed(a, file) ==
    file.whole => \E s \in Source : file.body = Body(a, s) /\ file.declared = Covered(a, s)

DiskSigned == \A a \in Artifact : disk[a] # Absent => Signed(a, disk[a])

LineOK(x, s) ==
    /\ x.pc \in {"emit", "header"} => x.seen = s
    /\ x.pc = "header" => \A i \in DOMAIN x.body : x.body[i][2] = Body(x.body[i][1], s)
    /\ x.pc = "fill" => x.made # <<>>
    /\ x.pc = "check" => x.check
    /\ \A i \in DOMAIN x.made : Signed(x.made[i][1], x.made[i][2])

IInv == TypeOK /\ DiskSigned /\ \A p \in Proc : LineOK(proc[p], sources)

LEMMA GroupRange == Range(Group) = Groups
<1>1. DOMAIN Group = 1..4
  BY DEF Group
<1> QED BY <1>1 DEF Range, Group, Groups

LEMMA OfArtifacts ==
    ASSUME NEW g \in Groups, NEW s \in Source
    PROVE  Of(g, s) \in Seq(Artifact)
<1>1. CASE g = "registries"
  BY <1>1 DEF Of, Artifact
<1>2. CASE g = "manifest"
  BY <1>2 DEF Of, Artifact
<1>3. CASE g = "markdown"
  <2>1. Of(g, s) = IF s.second THEN <<"page", "page2">> ELSE <<"page">>
    BY <1>3 DEF Of
  <2>2. <<"page", "page2">> \in Seq(Artifact) /\ <<"page">> \in Seq(Artifact)
    BY DEF Artifact
  <2> QED BY <2>1, <2>2
<1>4. CASE g = "graph"
  BY <1>4 DEF Of, Artifact
<1> QED BY <1>1, <1>2, <1>3, <1>4 DEF Groups

LEMMA FirstIsLeft ==
    ASSUME NEW groups \in SUBSET Groups, groups # {}
    PROVE  First(groups) \in groups
<1>1. DOMAIN Group = 1..4
  BY DEF Group
<1>2. /\ Group[1] = "registries" /\ Group[2] = "manifest"
      /\ Group[3] = "markdown" /\ Group[4] = "graph"
  BY DEF Group
<1> DEFINE Least(i) == /\ Group[i] \in groups
                       /\ \A j \in DOMAIN Group : Group[j] \in groups => i <= j
<1>3. \E i \in DOMAIN Group : Least(i)
  <2>1. CASE "registries" \in groups
    <3>1. 1 \in DOMAIN Group /\ Least(1)
      BY <1>1, <1>2, <2>1
    <3> QED BY <3>1
  <2>2. CASE "registries" \notin groups /\ "manifest" \in groups
    <3>1. 2 \in DOMAIN Group /\ Least(2)
      BY <1>1, <1>2, <2>2
    <3> QED BY <3>1
  <2>3. CASE "registries" \notin groups /\ "manifest" \notin groups /\ "markdown" \in groups
    <3>1. 3 \in DOMAIN Group /\ Least(3)
      BY <1>1, <1>2, <2>3
    <3> QED BY <3>1
  <2>4. CASE "registries" \notin groups /\ "manifest" \notin groups /\ "markdown" \notin groups
    <3>1. "graph" \in groups
      BY <2>4 DEF Groups
    <3>2. 4 \in DOMAIN Group /\ Least(4)
      BY <1>1, <1>2, <2>4, <3>1
    <3> QED BY <3>2
  <2> QED BY <2>1, <2>2, <2>3, <2>4
<1> QED BY <1>3 DEF First

LEMMA Versions ==
    ASSUME NEW a \in Artifact, NEW s \in Source
    PROVE  /\ Body(a, s) \in [Shown(a, s) -> 0..MaxEdits] /\ Shown(a, s) \in SUBSET Part
           /\ Covered(a, s) \in [Hashed(a, s) -> 0..MaxEdits] /\ Hashed(a, s) \in SUBSET Part
           /\ Body(a, s) \in Version /\ Covered(a, s) \in Version
<1>1. s.version \in [Part -> 0..MaxEdits]
  BY DEF Source
<1>2. Shown(a, s) \in SUBSET Part /\ Hashed(a, s) \in SUBSET Part
  BY DEF Shown, Hashed, Peers, Part, Artifact
<1>3. /\ Body(a, s) \in [Shown(a, s) -> 0..MaxEdits]
      /\ Covered(a, s) \in [Hashed(a, s) -> 0..MaxEdits]
  BY <1>1, <1>2 DEF Body, Covered
<1> QED BY <1>2, <1>3 DEF Version

LEMMA RestingLine ==
    ASSUME sources \in Source
    PROVE  Resting \in Line /\ LineOK(Resting, sources) /\ Resting.pc = "idle"
<1>1. Fresh \in Source
  BY CompilerConstants DEF Fresh, Source, CompilerConstants
<1> QED BY <1>1, CompilerConstants DEF Resting, Line, LineOK, CompilerConstants, Stamp

(* A field of a line may change within its type. *)
LEMMA LineUpdates ==
    ASSUME NEW x \in Line
    PROVE  /\ \A at \in Stamp, s \in Source, g \in SUBSET Groups :
                 [x EXCEPT !.pc = "emit", !.seen = s, !.at = at, !.groups = g] \in Line
           /\ \A g \in SUBSET Groups, made \in Seq(Artifact \X Written) :
                 [x EXCEPT !.pc = "emit", !.groups = g, !.body = <<>>, !.made = made] \in Line
           /\ \A pc \in {"check", "write"}, drift \in BOOLEAN :
                 [x EXCEPT !.pc = pc, !.drift = drift] \in Line
           /\ \A made \in Seq(Artifact \X Written) :
                 [x EXCEPT !.pc = "write", !.made = made] \in Line
           /\ \A made \in Seq(Artifact \X Written), drift \in BOOLEAN :
                 [x EXCEPT !.made = made, !.drift = drift] \in Line
<1>1. ASSUME NEW at \in Stamp, NEW s \in Source, NEW g \in SUBSET Groups
      PROVE  [x EXCEPT !.pc = "emit", !.seen = s, !.at = at, !.groups = g] \in Line
  BY DEF Line
<1>2. ASSUME NEW g \in SUBSET Groups, NEW made \in Seq(Artifact \X Written)
      PROVE  [x EXCEPT !.pc = "emit", !.groups = g, !.body = <<>>, !.made = made] \in Line
  <2>1. <<>> \in Seq(Artifact \X Version)
    OBVIOUS
  <2> QED BY <2>1 DEF Line
<1>3. ASSUME NEW pc \in {"check", "write"}, NEW drift \in BOOLEAN
      PROVE  [x EXCEPT !.pc = pc, !.drift = drift] \in Line
  BY DEF Line
<1>4. ASSUME NEW made \in Seq(Artifact \X Written)
      PROVE  [x EXCEPT !.pc = "write", !.made = made] \in Line
  BY DEF Line
<1>5. ASSUME NEW made \in Seq(Artifact \X Written), NEW drift \in BOOLEAN
      PROVE  [x EXCEPT !.made = made, !.drift = drift] \in Line
  BY DEF Line
<1> QED BY <1>1, <1>2, <1>3, <1>4, <1>5

(* A step of one command line that leaves the sources alone. *)
LEMMA OneLine ==
    ASSUME IInv, NEW p \in Proc, NEW x \in Line, LineOK(x, sources),
           proc' = [proc EXCEPT ![p] = x], UNCHANGED <<sources, edits>>,
           disk' \in [Artifact -> Written \cup {Absent}], DiskSigned'
    PROVE  IInv'
<1>1. proc' \in [Proc -> Line]
  BY DEF IInv, TypeOK
<1>2. \A q \in Proc : LineOK(proc'[q], sources)
  BY DEF IInv, TypeOK
<1> QED BY <1>1, <1>2 DEF IInv, TypeOK

LEMMA Initially == Init => IInv
<1> SUFFICES ASSUME Init PROVE IInv
  OBVIOUS
<1> USE CompilerConstants
<1>1. sources \in Source /\ (\A part \in Part : sources.version[part] <= edits)
      /\ edits \in 0..MaxEdits
  BY DEF Init, Fresh, Source, CompilerConstants
<1>2. disk \in [Artifact -> Written \cup {Absent}] /\ DiskSigned
  BY DEF Init, DiskSigned
<1>3. \A p \in Proc : proc[p] = Resting
  BY DEF Init
<1>4. proc \in [Proc -> Line]
  BY <1>1, RestingLine DEF Init
<1> QED BY <1>1, <1>2, <1>3, <1>4, RestingLine DEF IInv, TypeOK

LEMMA Stepwise ==
    ASSUME EditsAtRest, IInv, [Next]_vars
    PROVE  IInv'
<1> USE CompilerConstants
<1>0. /\ disk \in [Artifact -> Written \cup {Absent}] /\ proc \in [Proc -> Line]
      /\ sources \in Source /\ DiskSigned /\ \A p \in Proc : LineOK(proc[p], sources)
  BY DEF IInv, TypeOK
<1>a. \A p \in Proc : proc[p] \in Line
  BY <1>0
<1>1. ASSUME NEW p \in Proc, NEW emit \in SUBSET Groups, NEW check \in BOOLEAN,
             NEW pin \in {NoTime, Pin}, Begin(p, emit, check, pin),
             UNCHANGED <<sources, disk, edits>>
      PROVE  IInv'
  <2> DEFINE x == [Resting EXCEPT !.pc = "stamp", !.emit = emit, !.check = check, !.at = pin]
  <2>1. x \in Line
    BY <1>0, RestingLine DEF Line, CompilerConstants, Stamp
  <2>2. LineOK(x, sources)
    BY <1>0, RestingLine DEF LineOK, Line
  <2>3. proc' = [proc EXCEPT ![p] = x]
    BY <1>1 DEF Begin
  <2>4. disk' \in [Artifact -> Written \cup {Absent}] /\ DiskSigned'
    BY <1>0, <1>1 DEF DiskSigned
  <2> HIDE DEF x
  <2> QED BY <1>1, <2>1, <2>2, <2>3, <2>4, OneLine
<1>2. ASSUME NEW p \in Proc, Command(p) PROVE IInv'
  <2>1. UNCHANGED <<sources, disk, edits>>
    BY <1>2 DEF Command
  <2>2. \E emit \in SUBSET Groups, check \in BOOLEAN, pin \in {NoTime, Pin} :
            Begin(p, emit, check, pin)
    <3>1. \A emit \in Emits : emit \in SUBSET Groups
      BY GroupRange DEF CompilerConstants
    <3>2. {"manifest"} \in SUBSET Groups /\ {"registries"} \in SUBSET Groups
          /\ {"markdown"} \in SUBSET Groups
      BY DEF Groups
    <3>3. CASE CompileArtifacts(p)
      BY <3>1, <3>3 DEF CompileArtifacts
    <3>4. CASE GenerateManifest(p) \/ GenerateIndex(p) \/ GenerateProjection(p)
      BY <3>2, <3>4 DEF GenerateManifest, GenerateIndex, GenerateProjection, Generate
    <3> QED BY <1>2, <3>3, <3>4 DEF Command
  <2> QED BY <1>1, <2>1, <2>2
<1>3. ASSUME Retry PROVE IInv'
  <2>1. Default \in SUBSET Groups /\ FALSE \in BOOLEAN /\ RetryPin \in {NoTime, Pin}
        /\ Operator \in Proc
    BY DEF Default, Groups, CompilerConstants
  <2> QED BY <1>1, <1>3, <2>1 DEF Retry
<1>4. ASSUME NEW p \in Proc, NEW x \in Line, LineOK(x, sources),
             proc' = [proc EXCEPT ![p] = x], UNCHANGED <<sources, edits, disk>>
      PROVE  IInv'
  <2>1. disk' \in [Artifact -> Written \cup {Absent}] /\ DiskSigned'
    BY <1>0, <1>4 DEF DiskSigned
  <2> QED BY <1>4, <2>1, OneLine
<1>5. ASSUME NEW p \in Proc, Finish(p), UNCHANGED <<sources, edits, disk>> PROVE IInv'
  BY <1>0, <1>4, <1>5, RestingLine DEF Finish
<1>6. ASSUME NEW p \in Proc, ResolveStamp(p) PROVE IInv'
  <2>1. ASSUME NEW at \in Stamp, proc' = [proc EXCEPT ![p].pc = "frontend", ![p].at = at]
        PROVE  IInv'
    <3> DEFINE x == [proc[p] EXCEPT !.pc = "frontend", !.at = at]
    <3>1. x \in Line
      BY <1>a DEF Line
    <3>2. LineOK(x, sources)
      BY <1>0 DEF LineOK, Line
    <3>3. proc' = [proc EXCEPT ![p] = x]
      BY <1>0, <2>1
    <3> HIDE DEF x
    <3> QED BY <1>4, <1>6, <3>1, <3>2, <3>3 DEF ResolveStamp
  <2>2. proc[p].at \in Stamp /\ NoTime \in Stamp
    BY <1>0 DEF Line, Stamp
  <2>3. Adopted(proc[p].emit) \in Stamp
    <3>1. \A a \in Stamps(proc[p].emit) : a \in Artifact /\ disk[a] # Absent
      BY DEF Stamps, Artifact
    <3>2. \A a \in Stamps(proc[p].emit) : disk[a].at \in Stamp
      BY <1>0, <3>1 DEF Written
    <3> QED BY <2>2, <3>2 DEF Adopted
  <2>4. (IF proc[p].at = NoTime THEN Adopted(proc[p].emit) ELSE proc[p].at) \in Stamp
    BY <2>2, <2>3
  <2>5. CASE Finish(p)
    BY <1>5, <1>6, <2>5 DEF ResolveStamp
  <2> QED BY <1>6, <2>1, <2>4, <2>5 DEF ResolveStamp
<1>7. ASSUME NEW p \in Proc, Frontend(p) PROVE IInv'
  <2>1. CASE Finish(p)
    BY <1>5, <1>7, <2>1 DEF Frontend
  <2>2. CASE ~ Finish(p)
    <3>1. PICK now \in Time :
              proc' = [proc EXCEPT ![p].pc = "emit", ![p].seen = sources,
                           ![p].at = IF @ = NoTime THEN now ELSE @,
                           ![p].groups = proc[p].emit]
      BY <1>7, <2>2 DEF Frontend
    <3> DEFINE x == [proc[p] EXCEPT !.pc = "emit", !.seen = sources,
                         !.at = IF @ = NoTime THEN now ELSE @, !.groups = proc[p].emit]
    <3>2. x \in Line
      <4>1. (IF proc[p].at = NoTime THEN now ELSE proc[p].at) \in Stamp /\ proc[p].emit \in SUBSET Groups
        BY <1>a DEF Line, Stamp
      <4> QED BY <1>a, <1>0, <4>1, LineUpdates
    <3>3. LineOK(x, sources)
      BY <1>0 DEF LineOK, Line
    <3>4. proc' = [proc EXCEPT ![p] = x]
      BY <1>0, <3>1
    <3> HIDE DEF x
    <3> QED BY <1>4, <1>7, <3>2, <3>3, <3>4 DEF Frontend
  <2> QED BY <2>1, <2>2
<1>8. ASSUME NEW p \in Proc, Render(p) PROVE IInv'
  <2>1. CASE Finish(p)
    BY <1>5, <1>8, <2>1 DEF Render
  <2>2. CASE ~ Finish(p)
    <3> DEFINE g == First(proc[p].groups)
               of == Of(g, sources)
               body == [i \in DOMAIN of |-> <<of[i], Body(of[i], sources)>>]
               x == [proc[p] EXCEPT !.pc = "header", !.body = body]
    <3>1. proc[p].pc = "emit" /\ proc[p].groups # {} /\ proc[p].seen = sources
      BY <1>0, <1>8 DEF Render, LineOK
    <3>2. g \in Groups
      BY <1>0, <3>1, FirstIsLeft DEF Line
    <3>3. of \in Seq(Artifact)
      BY <1>0, <3>2, OfArtifacts
    <3>4. body \in Seq(Artifact \X Version)
      <4>1. \A i \in DOMAIN of : <<of[i], Body(of[i], sources)>> \in Artifact \X Version
        BY <1>0, <3>3, Versions
      <4> HIDE DEF of
      <4> QED BY <3>3, <4>1
    <3>5. x \in Line
      BY <1>a, <3>4 DEF Line
    <3>6. LineOK(x, sources)
      BY <1>0, <3>1 DEF LineOK, Line
    <3>7. proc' = [proc EXCEPT ![p] = x]
      <4>1. proc' = [proc EXCEPT ![p].pc = "header", ![p].body = body]
        BY <1>8, <2>2, <3>1 DEF Render
      <4> HIDE DEF body
      <4> QED BY <1>0, <4>1
    <3> HIDE DEF x
    <3> QED BY <1>4, <1>8, <3>5, <3>6, <3>7 DEF Render
  <2> QED BY <2>1, <2>2
<1>9. ASSUME NEW p \in Proc, SignHeader(p) PROVE IInv'
  <2> DEFINE me == proc[p]
             File(a, body) == [body |-> body, declared |-> Covered(a, sources),
                               at |-> Stamped(a, me.at), whole |-> TRUE]
             more == [i \in DOMAIN me.body |-> <<me.body[i][1], File(me.body[i][1], me.body[i][2])>>]
             x == [me EXCEPT !.pc = "emit", !.groups = @ \ {First(@)}, !.body = <<>>,
                             !.made = @ \o more]
  <2>1. /\ me \in Line /\ me.pc = "header" /\ me.seen = sources
        /\ \A i \in DOMAIN me.body : me.body[i][2] = Body(me.body[i][1], sources)
        /\ \A i \in DOMAIN me.made : Signed(me.made[i][1], me.made[i][2])
    BY <1>0, <1>9 DEF SignHeader, LineOK
  <2>2. \A i \in DOMAIN me.body : me.body[i][1] \in Artifact /\ me.body[i][2] \in Version
    BY <2>1 DEF Line
  <2>3. ASSUME NEW i \in DOMAIN me.body
        PROVE  /\ more[i] \in Artifact \X Written
               /\ Signed(more[i][1], more[i][2])
    <3> DEFINE a == me.body[i][1]
               b == me.body[i][2]
    <3>1. a \in Artifact /\ b \in Version /\ b = Body(a, sources)
      BY <2>1, <2>2
    <3>2. Stamped(a, me.at) \in Stamp
      BY <2>1 DEF Stamped, Line, Stamp
    <3>3. File(a, b) \in Written
      BY <1>0, <3>1, <3>2, Versions DEF Written, Version
    <3>4. Signed(a, File(a, b))
      BY <1>0, <3>1 DEF Signed
    <3>5. more[i] = <<a, File(a, b)>>
      OBVIOUS
    <3> HIDE DEF a, b, File, more
    <3> QED BY <3>1, <3>3, <3>4, <3>5
  <2>4. more \in Seq(Artifact \X Written) /\ DOMAIN more = DOMAIN me.body
    <3>1. me.body \in Seq(Artifact \X Version)
      BY <2>1 DEF Line
    <3>2. \A i \in DOMAIN me.body : more[i] \in Artifact \X Written
      BY <2>3
    <3>3. DOMAIN more = DOMAIN me.body /\ more = [i \in DOMAIN me.body |-> more[i]]
      OBVIOUS
    <3>4. DOMAIN me.body = 1..Len(me.body) /\ Len(me.body) \in Nat
      BY <3>1
    <3> HIDE DEF more, me
    <3>5. DOMAIN more = 1..Len(me.body) /\ \A i \in 1..Len(me.body) : more[i] \in Artifact \X Written
      BY <3>2, <3>3, <3>4
    <3>6. more = [i \in 1..Len(me.body) |-> more[i]]
      BY <3>3, <3>4
    <3>7. \E n \in Nat : more \in [1..n -> Artifact \X Written]
      BY <3>4, <3>5, <3>6
    <3>8. more \in Seq(Artifact \X Written)
      BY <3>7
    <3> QED BY <3>3, <3>8
  <2>5. me.made \in Seq(Artifact \X Written)
    BY <2>1 DEF Line
  <2>6. me.made \o more \in Seq(Artifact \X Written)
    <3> HIDE DEF more
    <3> QED BY <2>4, <2>5
  <2>7. \A i \in DOMAIN (me.made \o more) :
            Signed((me.made \o more)[i][1], (me.made \o more)[i][2])
    <3> HIDE DEF more, me
    <3>1. \A i \in DOMAIN more : Signed(more[i][1], more[i][2])
      BY <2>3, <2>4
    <3> QED BY <2>1, <2>4, <2>5, <3>1
  <2>8. x \in Line
    <3> HIDE DEF more
    <3>1. me.groups \ {First(me.groups)} \in SUBSET Groups
      BY <2>1 DEF Line
    <3> QED BY <2>1, <2>6, <3>1, LineUpdates
  <2>9. LineOK(x, sources)
    <3> HIDE DEF more
    <3> QED BY <2>1, <2>7 DEF LineOK, Line
  <2>10. proc' = [proc EXCEPT ![p] = x]
    <3>1. proc' = [proc EXCEPT ![p].pc = "emit", ![p].groups = @ \ {First(@)}, ![p].body = <<>>,
                        ![p].made = @ \o more]
      BY <1>9 DEF SignHeader
    <3> HIDE DEF more
    <3> QED BY <1>0, <3>1
  <2> HIDE DEF x
  <2> QED BY <1>4, <1>9, <2>8, <2>9, <2>10 DEF SignHeader
<1>10. ASSUME NEW p \in Proc, Emitted(p) PROVE IInv'
  <2> DEFINE x == [proc[p] EXCEPT !.pc = IF proc[p].check THEN "check" ELSE "write",
                                  !.drift = Corpus(sources) \in Gated]
  <2>1. x \in Line
    <3>1. (Corpus(sources) \in Gated) \in BOOLEAN
          /\ (IF proc[p].check THEN "check" ELSE "write") \in {"check", "write"}
      OBVIOUS
    <3> QED BY <1>a, <3>1, LineUpdates
  <2>2. LineOK(x, sources)
    BY <1>0 DEF LineOK, Line
  <2>3. proc' = [proc EXCEPT ![p] = x]
    BY <1>0, <1>10 DEF Emitted
  <2> HIDE DEF x
  <2> QED BY <1>4, <1>10, <2>1, <2>2, <2>3 DEF Emitted
<1>11. ASSUME NEW p \in Proc, proc[p].made # <<>>
       PROVE  /\ Head(proc[p].made) \in Artifact \X Written
              /\ Signed(Head(proc[p].made)[1], Head(proc[p].made)[2])
              /\ Tail(proc[p].made) \in Seq(Artifact \X Written)
              /\ \A i \in DOMAIN Tail(proc[p].made) :
                     Signed(Tail(proc[p].made)[i][1], Tail(proc[p].made)[i][2])
  <2> DEFINE made == proc[p].made
  <2>1. made \in Seq(Artifact \X Written) /\ \A i \in DOMAIN made : Signed(made[i][1], made[i][2])
    BY <1>0 DEF Line, LineOK
  <2>2. Head(made) = made[1] /\ 1 \in DOMAIN made
    BY <1>11, <2>1
  <2>3. /\ Tail(made) \in Seq(Artifact \X Written)
        /\ \A i \in DOMAIN Tail(made) : i + 1 \in DOMAIN made /\ Tail(made)[i] = made[i + 1]
    BY <1>11, <2>1
  <2> HIDE DEF made
  <2>4. /\ Head(made) \in Artifact \X Written
        /\ Signed(Head(made)[1], Head(made)[2])
        /\ \A i \in DOMAIN Tail(made) : Signed(Tail(made)[i][1], Tail(made)[i][2])
    BY <2>1, <2>2, <2>3
  <2> QED BY <2>3, <2>4 DEF made
<1>12. ASSUME NEW a \in Artifact, NEW file \in Written, Signed(a, file),
              disk' = [disk EXCEPT ![a] = file]
       PROVE  disk' \in [Artifact -> Written \cup {Absent}] /\ DiskSigned'
  BY <1>0, <1>12 DEF DiskSigned
<1>13. ASSUME NEW t \in Stamp, NEW a PROVE Cut(t) \in Written /\ Signed(a, Cut(t))
  <2>1. [part \in {} |-> 0] \in Version
    <3> DEFINE none == [part \in {} |-> 0]
    <3>1. none \in [{} -> 0..MaxEdits] /\ {} \in SUBSET Part
      OBVIOUS
    <3> HIDE DEF none
    <3>2. [{} -> 0..MaxEdits] \in {[parts -> 0..MaxEdits] : parts \in SUBSET Part}
      BY <3>1
    <3>3. none \in Version
      BY <3>1, <3>2 DEF Version
    <3> QED BY <3>3 DEF none
  <2> QED BY <2>1 DEF Cut, Written, Signed
<1>14. ASSUME NEW p \in Proc, Open(p) PROVE IInv'
  <2> DEFINE x == [proc[p] EXCEPT !.pc = "fill"]
             a == Head(proc[p].made)[1]
  <2>1. a \in Artifact
    BY <1>11, <1>14 DEF Open
  <2>2. disk' \in [Artifact -> Written \cup {Absent}] /\ DiskSigned'
    <3>1. disk' = [disk EXCEPT ![a] = Cut(NoTime)]
      BY <1>14 DEF Open
    <3> QED BY <1>12, <1>13, <2>1, <3>1 DEF Stamp
  <2>3. x \in Line
    BY <1>a DEF Line
  <2>4. LineOK(x, sources)
    BY <1>0, <1>14 DEF LineOK, Line, Open
  <2>5. proc' = [proc EXCEPT ![p] = x]
    BY <1>0, <1>14 DEF Open
  <2> HIDE DEF x
  <2> QED BY <1>0, <1>14, <2>2, <2>3, <2>4, <2>5, OneLine DEF Open
<1>15. ASSUME NEW p \in Proc, Fill(p) PROVE IInv'
  <2> DEFINE made == Head(proc[p].made)
             rest == Tail(proc[p].made)
             x == [proc[p] EXCEPT !.pc = "write", !.made = rest]
  <2>1. proc[p].made # <<>>
    BY <1>0, <1>15 DEF Fill, LineOK
  <2>2. disk' \in [Artifact -> Written \cup {Absent}] /\ DiskSigned'
    <3>1. disk' = [disk EXCEPT ![made[1]] = made[2]]
      BY <1>15 DEF Fill
    <3>2. made[1] \in Artifact /\ made[2] \in Written /\ Signed(made[1], made[2])
      BY <1>11, <2>1
    <3> HIDE DEF made
    <3> QED BY <1>12, <3>1, <3>2
  <2>3. x \in Line
    BY <1>a, <1>11, <2>1, LineUpdates
  <2>4. LineOK(x, sources)
    BY <1>0, <1>11, <2>1 DEF LineOK, Line
  <2>5. proc' = [proc EXCEPT ![p] = x]
    BY <1>0, <1>15 DEF Fill
  <2> HIDE DEF x
  <2> QED BY <1>0, <1>15, <2>2, <2>3, <2>4, <2>5, OneLine DEF Fill
<1>16. ASSUME NEW p \in Proc, Compare(p) PROVE IInv'
  <2> DEFINE rest == Tail(proc[p].made)
             drift == proc[p].drift \/ disk[Head(proc[p].made)[1]] # Head(proc[p].made)[2]
             x == [proc[p] EXCEPT !.made = rest, !.drift = drift]
  <2>1. proc[p].made # <<>> /\ proc[p].pc = "check"
    BY <1>16 DEF Compare
  <2>2. drift \in BOOLEAN
    OBVIOUS
  <2>3. x \in Line
    <3> HIDE DEF drift
    <3> QED BY <1>a, <1>11, <2>1, <2>2, LineUpdates
  <2>4. LineOK(x, sources)
    <3> HIDE DEF drift
    <3> QED BY <1>0, <1>11, <2>1 DEF LineOK, Line
  <2>5. proc' = [proc EXCEPT ![p] = x]
    <3>1. proc' = [proc EXCEPT ![p].made = rest, ![p].drift = drift]
      BY <1>16 DEF Compare
    <3> HIDE DEF drift, rest
    <3> QED BY <1>0, <3>1
  <2> HIDE DEF x
  <2> QED BY <1>4, <1>16, <2>3, <2>4, <2>5 DEF Compare
<1>17. ASSUME NEW p \in Proc, Done(p) PROVE IInv'
  BY <1>5, <1>17 DEF Done
<1>18. ASSUME NEW p \in Proc, Kill(p) PROVE IInv'
  <2>1. disk' \in [Artifact -> Written \cup {Absent}] /\ DiskSigned'
    <3> DEFINE made == Head(proc[p].made)
    <3>1. CASE proc[p].pc = "fill"
      <4>1. proc[p].made # <<>>
        BY <1>0, <3>1 DEF LineOK
      <4>2. made[1] \in Artifact /\ made[2].at \in Stamp /\ NoTime \in Stamp
        BY <1>11, <4>1 DEF Written, Stamp
      <4>3. PICK t \in {NoTime, made[2].at} : disk' = [disk EXCEPT ![made[1]] = Cut(t)]
        BY <1>18, <3>1 DEF Kill
      <4> HIDE DEF made
      <4> QED BY <1>12, <1>13, <4>2, <4>3
    <3>2. CASE proc[p].pc # "fill"
      BY <1>0, <1>18, <3>2 DEF Kill, DiskSigned
    <3> QED BY <3>1, <3>2
  <2> QED BY <1>0, <1>18, <2>1, OneLine, RestingLine DEF Kill, Finish
<1>19. ASSUME Edit PROVE IInv'
  <2>1. /\ sources' \in Source /\ edits' \in 0..MaxEdits
        /\ \A part \in Part : sources'.version[part] <= edits'
    <3>1. /\ edits \in Nat /\ MaxEdits \in Nat /\ edits < MaxEdits /\ edits' = edits + 1
          /\ sources.version \in [Part -> 0..MaxEdits]
          /\ \A part \in Part : sources.version[part] <= edits
      <4>1. sources.version \in [Part -> 0..MaxEdits]
        BY <1>0 DEF Source
      <4>2. edits \in 0..MaxEdits /\ \A part \in Part : sources.version[part] <= edits
        BY DEF IInv, TypeOK
      <4>3. edits < MaxEdits /\ edits' = edits + 1 /\ MaxEdits \in Nat
        BY <1>19 DEF Edit, CompilerConstants
      <4> QED BY <4>1, <4>2, <4>3
    <3> DEFINE v(part) == [sources.version EXCEPT ![part] = @ + 1]
    <3>2. PICK part \in Part, peers \in BOOLEAN, second \in BOOLEAN :
              sources' = [version |-> v(part), peers |-> peers, second |-> second]
      <4>1. /\ sources.peers \in BOOLEAN /\ sources.second \in BOOLEAN
            /\ "first" \in Part /\ "other" \in Part /\ "project" \in Part
            /\ sources = [version |-> sources.version, peers |-> sources.peers,
                          second |-> sources.second]
        BY <1>0 DEF Source, Part
      <4>2. CASE \E peers \in BOOLEAN :
                     sources' = [sources EXCEPT !.version["first"] = @ + 1, !.peers = peers]
        <5>1. PICK peers \in BOOLEAN :
                  sources' = [version |-> v("first"), peers |-> peers, second |-> sources.second]
          BY <4>1, <4>2
        <5> HIDE DEF v
        <5> QED BY <4>1, <5>1
      <4>3. CASE \E second \in BOOLEAN :
                     sources' = [sources EXCEPT !.version["other"] = @ + 1, !.second = second]
        <5>1. PICK second \in BOOLEAN :
                  sources' = [version |-> v("other"), peers |-> sources.peers, second |-> second]
          BY <4>1, <4>3
        <5> HIDE DEF v
        <5> QED BY <4>1, <5>1
      <4>4. CASE sources' = [sources EXCEPT !.version["project"] = @ + 1]
        <5>1. sources' = [version |-> v("project"), peers |-> sources.peers, second |-> sources.second]
          BY <4>1, <4>4
        <5> HIDE DEF v
        <5> QED BY <4>1, <5>1
      <4> QED BY <1>19, <4>2, <4>3, <4>4 DEF Edit
    <3>3. v(part) \in [Part -> 0..MaxEdits] /\ \A q \in Part : v(part)[q] <= edits'
      BY <3>1
    <3> HIDE DEF v
    <3> QED BY <3>1, <3>2, <3>3 DEF Source
  <2>2. \A p \in Proc : LineOK(proc[p], sources')
    BY <1>0, <1>19 DEF Edit, Idle, LineOK
  <2> QED BY <1>0, <1>19, <2>1, <2>2 DEF Edit, IInv, TypeOK, DiskSigned
<1>20. ASSUME UNCHANGED vars PROVE IInv'
  BY <1>0, <1>20 DEF vars, IInv, TypeOK, DiskSigned
<1> QED BY <1>2, <1>3, <1>6, <1>7, <1>8, <1>9, <1>10, <1>14, <1>15, <1>16, <1>17, <1>18, <1>19,
           <1>20 DEF Next, Step

-----------------------------------------------------------------------------
(* What a command renders and signs under sources at rest is one build: of   *)
(* these sources, with the timestamp that it resolved.                      *)
Build(a, t, s) == [body |-> Body(a, s), declared |-> Covered(a, s), at |-> Stamped(a, t),
                   whole |-> TRUE]

MadeFor(x, a) == \E i \in DOMAIN x.made : x.made[i][1] = a

Rendering(x) == x.pc \in {"emit", "header"}

OneBuild(x, s) ==
    /\ x.pc \in {"stamp", "frontend"} => x.made = <<>>
    /\ Rendering(x) \/ x.pc = "check" =>
          /\ x.at \in Time
          /\ \A i \in DOMAIN x.made : x.made[i][2] = Build(x.made[i][1], x.at, s)
    /\ Rendering(x) =>
          /\ x.groups \subseteq x.emit
          /\ \A g \in x.emit \ x.groups : \A a \in Range(Of(g, s)) : MadeFor(x, a)
    /\ x.pc = "header" =>
          /\ x.groups # {}
          /\ x.body = [i \in DOMAIN Of(First(x.groups), s) |->
                          <<Of(First(x.groups), s)[i], Body(Of(First(x.groups), s)[i], s)>>]

(* What a check nobody wrote under has still to compare, or has compared.    *)
Compared(p) ==
    proc[p].pc = "check" /\ ~ proc[p].drift /\ p \notin moved =>
        \A g \in proc[p].emit : \A a \in Range(Of(g, sources)) :
            MadeFor(proc[p], a) \/ disk[a] = Build(a, proc[p].at, sources)

Checked == IInv /\ \A p \in Proc : OneBuild(proc[p], sources) /\ Compared(p)

LEMMA AtRestIsOneBuild ==
    ASSUME NEW x, NEW s, x.pc \in {"idle", "write", "fill"}
    PROVE  OneBuild(x, s)
  BY DEF OneBuild, Rendering

(* A step of one command line, which leaves the disk alone or counts as a    *)
(* write under the others.                                                  *)
LEMMA OneLineChecked ==
    ASSUME Checked, IInv', NEW p \in Proc, NEW x, proc' = [proc EXCEPT ![p] = x],
           UNCHANGED sources, OneBuild(x, sources),
           \/ UNCHANGED disk /\ moved' \in {moved, moved \ {p}}
           \/ moved' = moved \cup Checking(p),
           x.pc = "check" => Compared(p)'
    PROVE  Checked'
<1>1. \A q \in Proc : proc'[q] = IF q = p THEN x ELSE proc[q]
  BY DEF Checked, IInv, TypeOK
<1>2. \A q \in Proc : OneBuild(proc'[q], sources)
  BY <1>1 DEF Checked
<1>3. ASSUME NEW q \in Proc PROVE Compared(q)'
  <2>1. CASE q = p
    BY <1>1, <2>1 DEF Compared
  <2>2. CASE q # p
    <3>1. proc'[q] = proc[q] BY <1>1, <2>2
    <3>2. CASE UNCHANGED disk /\ moved' \in {moved, moved \ {p}}
      BY <2>2, <3>1, <3>2 DEF Checked, Compared, MadeFor
    <3>3. CASE moved' = moved \cup Checking(p)
      <4>1. proc[q].pc = "check" => q \in moved'
        BY <2>2, <3>3 DEF Checked, IInv, LineOK, Checking
      <4> QED BY <3>1, <4>1 DEF Compared
    <3> QED BY <3>2, <3>3
  <2> QED BY <2>1, <2>2
<1> QED BY <1>2, <1>3 DEF Checked

LEMMA InitiallyChecked == Init => Checked
<1> SUFFICES ASSUME Init PROVE Checked
  OBVIOUS
<1>1. \A p \in Proc : proc[p].pc = "idle"
  BY DEF Init, Resting
<1> QED BY <1>1, Initially, AtRestIsOneBuild DEF Checked, Compared

(* A line that is done has nothing left to keep. *)
LEMMA FinishChecked ==
    ASSUME Checked, IInv', NEW p \in Proc, Finish(p), UNCHANGED sources,
           UNCHANGED <<disk, moved>> \/ moved' = moved \cup Checking(p)
    PROVE  Checked'
<1>1. Resting.pc = "idle" BY DEF Resting
<1>2. OneBuild(Resting, sources) BY <1>1, AtRestIsOneBuild
<1> QED BY <1>1, <1>2, OneLineChecked DEF Finish

LEMMA Concatenated ==
    ASSUME NEW S, NEW T, NEW s \in Seq(S), NEW t \in Seq(T)
    PROVE  /\ \A i \in DOMAIN s : i \in DOMAIN (s \o t) /\ (s \o t)[i] = s[i]
           /\ \A i \in DOMAIN t :
                 Len(s) + i \in DOMAIN (s \o t) /\ (s \o t)[Len(s) + i] = t[i]
           /\ \A i \in DOMAIN (s \o t) :
                 \/ i \in DOMAIN s
                 \/ i - Len(s) \in DOMAIN t /\ (s \o t)[i] = t[i - Len(s)]
<1>1. s \in Seq(S \cup T) /\ t \in Seq(S \cup T)
  OBVIOUS
<1>2. /\ DOMAIN s = 1..Len(s) /\ DOMAIN t = 1..Len(t) /\ Len(s) \in Nat /\ Len(t) \in Nat
      /\ DOMAIN (s \o t) = 1..(Len(s) + Len(t))
      /\ \A i \in 1..(Len(s) + Len(t)) :
            (s \o t)[i] = IF i <= Len(s) THEN s[i] ELSE t[i - Len(s)]
  BY <1>1
<1> QED BY <1>2

LEMMA SignHeaderChecked ==
    ASSUME Checked, IInv', NEW p \in Proc, SignHeader(p)
    PROVE  Checked'
<1> DEFINE me == proc[p]
           File(a, body) == [body |-> body, declared |-> Covered(a, sources),
                             at |-> Stamped(a, me.at), whole |-> TRUE]
           more == [i \in DOMAIN me.body |-> <<me.body[i][1], File(me.body[i][1], me.body[i][2])>>]
           x == [me EXCEPT !.pc = "emit", !.groups = @ \ {First(@)}, !.body = <<>>,
                           !.made = @ \o more]
           of == Of(First(me.groups), sources)
<1>1. /\ me \in Line /\ me.pc = "header" /\ OneBuild(me, sources) /\ sources \in Source
  BY DEF SignHeader, Checked, IInv, TypeOK
<1>2. /\ me.at \in Time /\ me.groups \subseteq me.emit /\ me.groups # {}
      /\ me.body = [i \in DOMAIN of |-> <<of[i], Body(of[i], sources)>>]
      /\ \A i \in DOMAIN me.made : me.made[i][2] = Build(me.made[i][1], me.at, sources)
      /\ \A g \in me.emit \ me.groups : \A a \in Range(Of(g, sources)) : MadeFor(me, a)
  BY <1>1 DEF OneBuild, Rendering
<1>3. First(me.groups) \in me.groups /\ First(me.groups) \in Groups
  BY <1>1, <1>2, FirstIsLeft DEF Line
<1>4. of \in Seq(Artifact)
  BY <1>1, <1>3, OfArtifacts
<1>5. DOMAIN more = DOMAIN of /\ \A i \in DOMAIN of : more[i] = <<of[i], Build(of[i], me.at, sources)>>
  <2> HIDE DEF of
  <2>1. DOMAIN me.body = DOMAIN of /\ \A i \in DOMAIN of : me.body[i] = <<of[i], Body(of[i], sources)>>
    BY <1>2
  <2>2. \A i \in DOMAIN of : me.body[i][1] = of[i] /\ me.body[i][2] = Body(of[i], sources)
    BY <2>1
  <2>3. \A a : File(a, Body(a, sources)) = Build(a, me.at, sources)
    BY DEF Build
  <2>4. DOMAIN more = DOMAIN me.body
        /\ \A i \in DOMAIN me.body : more[i] = <<me.body[i][1], File(me.body[i][1], me.body[i][2])>>
    OBVIOUS
  <2> HIDE DEF more, File, me
  <2> QED BY <2>1, <2>2, <2>3, <2>4
<1> DEFINE pairs == {more[i] : i \in DOMAIN of}
<1>6. more \in Seq(pairs)
  <2>1. DOMAIN of = 1..Len(of) /\ Len(of) \in Nat
    BY <1>4
  <2>2. more = [i \in 1..Len(of) |-> more[i]]
    <3>1. more = [i \in DOMAIN me.body |-> more[i]] /\ DOMAIN more = DOMAIN me.body
      OBVIOUS
    <3> HIDE DEF more, of, me
    <3> QED BY <1>5, <2>1, <3>1
  <2>3. \A i \in 1..Len(of) : more[i] \in pairs
    BY <2>1
  <2> HIDE DEF more, of, me, pairs
  <2>4. more \in [1..Len(of) -> pairs]
    BY <2>2, <2>3
  <2> QED BY <2>1, <2>4
<1>7. me.made \in Seq(Artifact \X Written)
  BY <1>1 DEF Line
<1> DEFINE all == me.made \o more
<1>8. /\ \A i \in DOMAIN me.made : i \in DOMAIN all /\ all[i] = me.made[i]
      /\ \A i \in DOMAIN more : Len(me.made) + i \in DOMAIN all /\ all[Len(me.made) + i] = more[i]
      /\ \A i \in DOMAIN all :
            \/ i \in DOMAIN me.made
            \/ i - Len(me.made) \in DOMAIN more /\ all[i] = more[i - Len(me.made)]
  <2> HIDE DEF more, pairs, me
  <2> QED BY <1>6, <1>7, Concatenated
<1>9. /\ x.pc = "emit" /\ x.at = me.at /\ x.emit = me.emit
      /\ x.groups = me.groups \ {First(me.groups)} /\ x.made = all
  <2> HIDE DEF more
  <2> QED BY <1>1 DEF Line
<1>10. \A i \in DOMAIN all : all[i][2] = Build(all[i][1], me.at, sources)
  <2> HIDE DEF all, more, of
  <2> QED BY <1>2, <1>5, <1>8
<1>11. ASSUME NEW g \in x.emit \ x.groups, NEW a \in Range(Of(g, sources))
       PROVE  \E i \in DOMAIN all : all[i][1] = a
  <2>1. CASE g = First(me.groups)
    <3>1. PICK i \in DOMAIN of : of[i] = a
      BY <1>11, <2>1 DEF Range
    <3> HIDE DEF of, more, all
    <3> QED BY <1>5, <1>8, <3>1
  <2>2. CASE g # First(me.groups)
    <3>1. g \in me.emit \ me.groups BY <1>9, <1>11, <2>2
    <3>2. PICK i \in DOMAIN me.made : me.made[i][1] = a
      BY <1>2, <1>11, <3>1 DEF MadeFor
    <3> HIDE DEF of, more, all
    <3> QED BY <1>8, <3>2
  <2> QED BY <2>1, <2>2
<1>12. OneBuild(x, sources)
  <2> HIDE DEF x, all
  <2> QED BY <1>2, <1>9, <1>10, <1>11 DEF OneBuild, Rendering, MadeFor
<1>13. proc' = [proc EXCEPT ![p] = x]
  <2>1. proc' = [proc EXCEPT ![p].pc = "emit", ![p].groups = @ \ {First(@)}, ![p].body = <<>>,
                      ![p].made = @ \o more]
    BY DEF SignHeader
  <2> HIDE DEF more
  <2> QED BY <2>1 DEF Checked, IInv, TypeOK
<1> HIDE DEF x
<1> QED BY <1>9, <1>12, <1>13, OneLineChecked DEF SignHeader

LEMMA CompareChecked ==
    ASSUME Checked, IInv', NEW p \in Proc, Compare(p)
    PROVE  Checked'
<1> DEFINE made == proc[p].made
           rest == Tail(made)
           drift == proc[p].drift \/ disk[Head(made)[1]] # Head(made)[2]
           x == [proc[p] EXCEPT !.made = rest, !.drift = drift]
<1>1. /\ proc[p] \in Line /\ proc[p].pc = "check" /\ made # <<>>
      /\ OneBuild(proc[p], sources) /\ Compared(p)
  BY DEF Compare, Checked, IInv, TypeOK
<1>2. made \in Seq(Artifact \X Written)
  BY <1>1 DEF Line
<1>3. /\ Head(made) = made[1] /\ 1 \in DOMAIN made
      /\ \A i \in DOMAIN rest : i + 1 \in DOMAIN made /\ rest[i] = made[i + 1]
      /\ \A i \in DOMAIN made : i = 1 \/ (i - 1 \in DOMAIN rest /\ rest[i - 1] = made[i])
  <2> HIDE DEF made
  <2> QED BY <1>1, <1>2
<1>4. /\ x.pc = "check" /\ x.at = proc[p].at /\ x.emit = proc[p].emit
      /\ x.made = rest /\ x.drift = drift
  <2> HIDE DEF rest, drift
  <2> QED BY <1>1 DEF Line
<1>5. OneBuild(x, sources)
  <2> HIDE DEF x, made, rest
  <2> QED BY <1>1, <1>3, <1>4 DEF OneBuild, Rendering, made
<1>6. proc' = [proc EXCEPT ![p] = x]
  <2>1. proc' = [proc EXCEPT ![p].made = rest, ![p].drift = drift]
    BY DEF Compare
  <2> HIDE DEF drift, rest
  <2> QED BY <2>1 DEF Checked, IInv, TypeOK
<1>7. proc'[p] = x
  <2> HIDE DEF x
  <2> QED BY <1>6 DEF Checked, IInv, TypeOK
<1>8. UNCHANGED <<sources, disk, moved>>
  BY DEF Compare
<1>9. Compared(p)'
  <2> SUFFICES ASSUME ~ drift, p \notin moved, NEW g \in proc[p].emit, NEW a \in Range(Of(g, sources))
               PROVE  MadeFor(x, a) \/ disk[a] = Build(a, proc[p].at, sources)
    <3> HIDE DEF x, drift
    <3> QED BY <1>4, <1>7, <1>8 DEF Compared
  <2>1. ~ proc[p].drift /\ disk[made[1][1]] = made[1][2]
    BY <1>3
  <2>2. MadeFor(proc[p], a) \/ disk[a] = Build(a, proc[p].at, sources)
    BY <1>1, <2>1 DEF Compared
  <2>3. CASE MadeFor(proc[p], a)
    <3>1. PICK i \in DOMAIN made : made[i][1] = a
      BY <2>3 DEF MadeFor
    <3>2. CASE i = 1
      <4>1. made[1][2] = Build(a, proc[p].at, sources)
        BY <1>1, <1>3, <3>1, <3>2 DEF OneBuild
      <4> QED BY <2>1, <3>1, <3>2, <4>1
    <3>3. CASE i # 1
      <4> HIDE DEF x, rest, made
      <4> QED BY <1>3, <1>4, <3>1, <3>3 DEF MadeFor
    <3> QED BY <3>2, <3>3
  <2> QED BY <2>2, <2>3
<1> HIDE DEF x
<1> QED BY <1>5, <1>6, <1>8, <1>9, OneLineChecked

LEMMA StepwiseChecked ==
    ASSUME EditsAtRest, Checked, [Next]_vars
    PROVE  Checked'
<1>0. IInv' BY Stepwise DEF Checked
<1>a. /\ proc \in [Proc -> Line] /\ sources \in Source
      /\ \A p \in Proc : proc[p] \in Line /\ OneBuild(proc[p], sources) /\ Compared(p)
  BY DEF Checked, IInv, TypeOK
<1>1. ASSUME NEW p \in Proc, NEW emit, NEW check, NEW pin, Begin(p, emit, check, pin),
             UNCHANGED <<sources, disk>>
      PROVE  Checked'
  <2> DEFINE x == [Resting EXCEPT !.pc = "stamp", !.emit = emit, !.check = check, !.at = pin]
  <2>1. x.pc = "stamp" /\ x.made = <<>>
    BY DEF Resting
  <2>2. OneBuild(x, sources)
    <3> HIDE DEF x
    <3> QED BY <2>1 DEF OneBuild, Rendering
  <2>3. proc' = [proc EXCEPT ![p] = x] /\ moved' = moved \ {p}
    BY <1>1 DEF Begin
  <2> HIDE DEF x
  <2> QED BY <1>0, <1>1, <2>1, <2>2, <2>3, OneLineChecked
<1>2. ASSUME NEW p \in Proc, Command(p) PROVE Checked'
  BY <1>1, <1>2 DEF Command, GenerateManifest, GenerateIndex, GenerateProjection, Generate,
                    CompileArtifacts
<1>3. ASSUME Retry PROVE Checked'
  BY <1>1, <1>3, CompilerConstants DEF Retry, CompilerConstants
<1>4. ASSUME NEW p \in Proc, Finish(p), UNCHANGED <<sources, disk, moved>> PROVE Checked'
  BY <1>0, <1>4, FinishChecked
<1>5. ASSUME NEW p \in Proc, NEW x, proc' = [proc EXCEPT ![p] = x],
             UNCHANGED <<sources, disk, moved>>, OneBuild(x, sources), x.pc # "check"
      PROVE  Checked'
  BY <1>0, <1>5, OneLineChecked
<1>6. ASSUME NEW p \in Proc, ResolveStamp(p) PROVE Checked'
  <2>1. ASSUME NEW at, proc' = [proc EXCEPT ![p].pc = "frontend", ![p].at = at]
        PROVE  Checked'
    <3> DEFINE x == [proc[p] EXCEPT !.pc = "frontend", !.at = at]
    <3>1. x.pc = "frontend" /\ x.made = <<>>
      BY <1>a, <1>6 DEF Line, OneBuild, ResolveStamp
    <3>2. proc' = [proc EXCEPT ![p] = x]
      BY <1>a, <2>1
    <3> HIDE DEF x
    <3>3. OneBuild(x, sources) BY <3>1 DEF OneBuild, Rendering
    <3> QED BY <1>5, <1>6, <3>1, <3>2, <3>3 DEF ResolveStamp
  <2>2. CASE Finish(p)
    BY <1>4, <1>6, <2>2 DEF ResolveStamp
  <2> QED BY <1>6, <2>1, <2>2 DEF ResolveStamp
<1>7. ASSUME NEW p \in Proc, Frontend(p) PROVE Checked'
  <2>1. CASE Finish(p)
    BY <1>4, <1>7, <2>1 DEF Frontend
  <2>2. CASE ~ Finish(p)
    <3>1. PICK now \in Time :
              proc' = [proc EXCEPT ![p].pc = "emit", ![p].seen = sources,
                           ![p].at = IF @ = NoTime THEN now ELSE @,
                           ![p].groups = proc[p].emit]
      BY <1>7, <2>2 DEF Frontend
    <3> DEFINE x == [proc[p] EXCEPT !.pc = "emit", !.seen = sources,
                         !.at = IF @ = NoTime THEN now ELSE @, !.groups = proc[p].emit]
    <3>2. /\ x.pc = "emit" /\ x.made = proc[p].made /\ x.groups = x.emit
          /\ x.at = IF proc[p].at = NoTime THEN now ELSE proc[p].at
      BY <1>a DEF Line
    <3>5. x.made = <<>>
      BY <1>a, <1>7, <3>2 DEF OneBuild, Frontend
    <3>6. x.at \in Time
      BY <1>a, <3>2 DEF Line, Stamp
    <3>3. proc' = [proc EXCEPT ![p] = x]
      BY <1>a, <3>1
    <3> HIDE DEF x
    <3>4. OneBuild(x, sources) BY <3>2, <3>5, <3>6 DEF OneBuild, Rendering
    <3> QED BY <1>5, <1>7, <3>2, <3>3, <3>4 DEF Frontend
  <2> QED BY <2>1, <2>2
<1>8. ASSUME NEW p \in Proc, Render(p) PROVE Checked'
  <2>1. CASE Finish(p)
    BY <1>4, <1>8, <2>1 DEF Render
  <2>2. CASE ~ Finish(p)
    <3> DEFINE of == Of(First(proc[p].groups), sources)
               body == [i \in DOMAIN of |-> <<of[i], Body(of[i], sources)>>]
               x == [proc[p] EXCEPT !.pc = "header", !.body = body]
    <3>1. proc[p].pc = "emit" /\ proc[p].groups # {} /\ proc[p].seen = sources
      BY <1>8 DEF Render, Checked, IInv, LineOK
    <3>2. proc' = [proc EXCEPT ![p] = x]
      <4>1. proc' = [proc EXCEPT ![p].pc = "header", ![p].body = body]
        BY <1>8, <2>2, <3>1 DEF Render
      <4> HIDE DEF body
      <4> QED BY <1>a, <4>1
    <3>3. /\ x.pc = "header" /\ x.body = body /\ x.groups = proc[p].groups
          /\ x.at = proc[p].at /\ x.emit = proc[p].emit /\ x.made = proc[p].made
      <4> HIDE DEF body
      <4> QED BY <1>a DEF Line
    <3>4. OneBuild(x, sources)
      <4>1. /\ OneBuild(proc[p], sources) /\ x.groups # {}
            /\ x.body = [i \in DOMAIN Of(First(x.groups), sources) |->
                           <<Of(First(x.groups), sources)[i],
                             Body(Of(First(x.groups), sources)[i], sources)>>]
        <5>1. First(x.groups) = First(proc[p].groups) BY <3>3
        <5> HIDE DEF x
        <5> QED BY <1>a, <3>1, <3>3, <5>1
      <4> HIDE DEF x, body
      <4>2. /\ x.at \in Time /\ x.groups \subseteq x.emit
            /\ \A i \in DOMAIN x.made : x.made[i][2] = Build(x.made[i][1], x.at, sources)
            /\ \A g \in x.emit \ x.groups : \A a \in Range(Of(g, sources)) : MadeFor(x, a)
        BY <3>1, <3>3, <4>1 DEF OneBuild, Rendering, MadeFor
      <4> QED BY <3>3, <4>1, <4>2 DEF OneBuild
    <3> HIDE DEF x
    <3> QED BY <1>5, <1>8, <3>2, <3>3, <3>4 DEF Render
  <2> QED BY <2>1, <2>2
<1>9. ASSUME NEW p \in Proc, Emitted(p) PROVE Checked'
  <2> DEFINE x == [proc[p] EXCEPT !.pc = IF proc[p].check THEN "check" ELSE "write",
                                  !.drift = Corpus(sources) \in Gated]
  <2>1. /\ x.pc \in {"check", "write"} /\ x.at = proc[p].at /\ x.emit = proc[p].emit
        /\ x.made = proc[p].made
    BY <1>a DEF Line
  <2>2. /\ OneBuild(proc[p], sources) /\ proc[p].pc = "emit" /\ proc[p].groups = {}
        /\ UNCHANGED <<sources, disk, moved>>
    BY <1>a, <1>9 DEF Emitted
  <2>3. proc' = [proc EXCEPT ![p] = x]
    BY <1>a, <1>9 DEF Emitted
  <2> HIDE DEF x
  <2>4. proc'[p] = x BY <1>a, <2>3
  <2>5. OneBuild(x, sources)
    BY <2>1, <2>2 DEF OneBuild, Rendering
  <2>6. Compared(p)'
    <3>1. \A g \in x.emit : \A a \in Range(Of(g, sources)) : MadeFor(x, a)
      BY <2>1, <2>2 DEF OneBuild, Rendering, MadeFor
    <3> QED BY <2>2, <2>4, <3>1 DEF Compared
  <2> QED BY <1>0, <2>2, <2>3, <2>5, <2>6, OneLineChecked
<1>10. ASSUME NEW p \in Proc, Open(p) PROVE Checked'
  <2> DEFINE x == [proc[p] EXCEPT !.pc = "fill"]
  <2>1. x.pc = "fill" BY <1>a DEF Line
  <2>2. proc' = [proc EXCEPT ![p] = x] BY <1>a, <1>10 DEF Open
  <2> HIDE DEF x
  <2>3. OneBuild(x, sources) BY <2>1, AtRestIsOneBuild
  <2> QED BY <1>0, <1>10, <2>1, <2>2, <2>3, OneLineChecked DEF Open
<1>11. ASSUME NEW p \in Proc, Fill(p) PROVE Checked'
  <2> DEFINE x == [proc[p] EXCEPT !.pc = "write", !.made = Tail(proc[p].made)]
  <2>1. x.pc = "write" BY <1>a DEF Line
  <2>2. proc' = [proc EXCEPT ![p] = x] BY <1>a, <1>11 DEF Fill
  <2> HIDE DEF x
  <2>3. OneBuild(x, sources) BY <2>1, AtRestIsOneBuild
  <2> QED BY <1>0, <1>11, <2>1, <2>2, <2>3, OneLineChecked DEF Fill
<1>12. ASSUME NEW p \in Proc, Done(p) PROVE Checked'
  BY <1>4, <1>12 DEF Done
<1>13. ASSUME NEW p \in Proc, Kill(p) PROVE Checked'
  BY <1>0, <1>13, FinishChecked DEF Kill
<1>14. ASSUME Edit PROVE Checked'
  <2>1. \A p \in Proc : proc'[p].pc = "idle"
    BY <1>14 DEF Edit, Idle
  <2> QED BY <1>0, <2>1, AtRestIsOneBuild DEF Checked, Compared
<1>15. ASSUME UNCHANGED vars PROVE Checked'
  BY <1>0, <1>a, <1>15 DEF vars, Checked, Compared, MadeFor
<1> QED BY <1>0, <1>2, <1>3, <1>6, <1>7, <1>8, <1>9, <1>10, <1>11, <1>12, <1>13, <1>14, <1>15,
           SignHeaderChecked, CompareChecked DEF Next, Step

(* The variables keep their types.                                         *)
THEOREM CompilerTypeCorrect == EditsAtRest => (Spec => []TypeOK)
<1> SUFFICES ASSUME EditsAtRest PROVE Spec => []TypeOK
  OBVIOUS
<1>1. IInv => TypeOK
  BY DEF IInv
<1>2. IInv /\ [Next]_vars => IInv'
  BY Stepwise
<1> QED BY <1>1, <1>2, Initially, PTL DEF Spec

(* An artifact that the validator calls valid shows the files that its hash  *)
(* covers as they are: its body and its hash were made of one version of the *)
(* sources, and of that version the hash still agrees.                       *)
THEOREM ValidIsCurrentAlways == EditsAtRest => (Spec => []ValidIsCurrent)
<1> SUFFICES ASSUME EditsAtRest PROVE Spec => []ValidIsCurrent
  OBVIOUS
<1>1. ASSUME IInv PROVE ValidIsCurrent
  <2> SUFFICES ASSUME NEW a \in {"legacy", "manifest", "page", "page2", "graph"},
                      Verdict(a) = "valid",
                      NEW part \in Hashed(a, sources) \cap Shown(a, sources)
               PROVE  part \in DOMAIN disk[a].body /\ disk[a].body[part] = sources.version[part]
    BY DEF ValidIsCurrent
  <2>1. a \in Artifact /\ sources \in Source
    BY <1>1 DEF Artifact, IInv, TypeOK
  <2>2. disk[a] # Absent /\ disk[a].whole /\ disk[a].declared = Covered(a, sources)
    BY DEF Verdict
  <2>3. PICK s \in Source : disk[a].body = Body(a, s) /\ Covered(a, s) = Covered(a, sources)
    BY <1>1, <2>1, <2>2 DEF IInv, DiskSigned, Signed
  <2>4. Hashed(a, s) = Hashed(a, sources)
    BY <2>3 DEF Covered
  <2>5. s.version[part] = sources.version[part]
    <3>1. Covered(a, s)[part] = s.version[part] /\ Covered(a, sources)[part] = sources.version[part]
      BY <2>4 DEF Covered
    <3> QED BY <2>3, <3>1
  <2>6. part \in Shown(a, s)
    BY <2>4 DEF Shown, Hashed
  <2> QED BY <2>3, <2>5, <2>6 DEF Body
<1>2. IInv /\ [Next]_vars => IInv'
  BY Stepwise
<1> QED BY <1>1, <1>2, Initially, PTL DEF Spec

(* A check that no other command wrote under, or was killed writing under,   *)
(* accepts only one build of the sources: the corpus that it renders is the  *)
(* one that it compares, artifact by artifact, with one timestamp.          *)
THEOREM CheckAccepts == Spec => CheckAcceptsOneBuild
<1>1. CASE ~ EditsAtRest
  <2>1. ASSUME [Next]_vars
        PROVE  [\A p \in Proc :
                  (/\ proc[p].pc = "check" /\ proc[p].made = <<>> /\ ~proc[p].drift
                   /\ proc'[p].pc = "idle" /\ kills' = kills /\ p \notin moved /\ EditsAtRest)
                     => IsOneBuild(proc[p].emit)]_vars
    BY <1>1
  <2> QED BY <2>1, PTL DEF Spec, CheckAcceptsOneBuild
<1>2. CASE EditsAtRest
  <2>1. ASSUME Checked, NEW p \in Proc, proc[p].pc = "check", proc[p].made = <<>>,
               ~ proc[p].drift, p \notin moved
        PROVE  IsOneBuild(proc[p].emit)
    <3>1. proc[p].at \in Time BY <2>1 DEF Checked, OneBuild
    <3>2. \A a : ~ MadeFor(proc[p], a) BY <2>1 DEF MadeFor
    <3>3. ASSUME NEW g \in proc[p].emit, NEW a \in Range(Of(g, sources))
          PROVE  Holds(a, proc[p].at)
      <4>1. disk[a] = Build(a, proc[p].at, sources)
        BY <2>1, <3>2, <3>3 DEF Checked, Compared
      <4>2. disk[a] # Absent
        <5>1. sources \in Source /\ g \in Groups
          BY <2>1, <3>3 DEF Checked, IInv, TypeOK, Line
        <5>2. a \in Artifact BY <3>3, <5>1, OfArtifacts DEF Range
        <5>3. Build(a, proc[p].at, sources) \in Written
          <6>1. Stamped(a, proc[p].at) \in Stamp BY <3>1 DEF Stamped, Stamp
          <6> QED BY <5>1, <5>2, <6>1, Versions DEF Build, Written, Version
        <5> QED BY <4>1, <5>3, CompilerConstants DEF CompilerConstants
      <4> QED BY <4>1, <4>2 DEF Holds, Build
    <3> QED BY <3>1, <3>3 DEF IsOneBuild
  <2>2. Checked /\ [Next]_vars => Checked'
    BY <1>2, StepwiseChecked
  <2>3. Checked /\ [Next]_vars =>
          [\A p \in Proc :
             (/\ proc[p].pc = "check" /\ proc[p].made = <<>> /\ ~proc[p].drift
              /\ proc'[p].pc = "idle" /\ kills' = kills /\ p \notin moved /\ EditsAtRest)
                => IsOneBuild(proc[p].emit)]_vars
    BY <2>1
  <2> QED BY <2>2, <2>3, InitiallyChecked, PTL DEF Spec, CheckAcceptsOneBuild
<1> QED BY <1>1, <1>2
=============================================================================
