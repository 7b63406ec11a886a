------------------------------ MODULE Compiler ------------------------------
(***************************************************************************)
(* The compiler driver of one scope: commands that render the derived      *)
(* artifacts from the sources and write them in place, or check them, next *)
(* to an editor of the sources and to kills.  There are two ADRs, each with *)
(* a page: a version stands for the text of each, another for that of      *)
(* PROJECT.yaml.                                                           *)
(***************************************************************************)
EXTENDS Naturals, Sequences, FiniteSets, SequencesExt

CONSTANTS Proc, Operator,   \* the command lines, and the one that tries again
          Time, NoTime, Pin, Absent,
          RetryPin,         \* what the operator pins: Pin, or NoTime
          Emits,            \* the emit sets of the other commands
          Unparsed, Gated,  \* pairs of ADRs that do not parse, or fail the governance gate
          EditsAtRest,      \* TRUE: nobody edits while a command runs
          MaxEdits, MaxRuns, MaxKills

Group == <<"registries", "manifest", "markdown", "graph">>
Artifact == {"index", "legacy", "manifest", "page", "page2", "graph"}
Default == {"registries", "manifest", "markdown"}

Stamp == Time \cup {NoTime}

Part == {"first", "other", "project"}

(* The versions of some of the sources. *)
Version == UNION {[parts -> 0..MaxEdits] : parts \in SUBSET Part}

(* File content, or Absent. *)
Written == [body: Version, declared: Version, at: Stamp, whole: BOOLEAN]

ASSUME CompilerConstants ==
    /\ Operator \in Proc /\ Pin \in Time /\ NoTime \notin Time /\ Absent \notin Written
    /\ RetryPin \in {Pin, NoTime}
    /\ Emits \subseteq SUBSET Range(Group)
    /\ MaxEdits \in Nat /\ MaxRuns \in Nat /\ MaxKills \in Nat

VARIABLES sources,  \* second: the other ADR exists; peers: a relation joins the two
          disk,     \* the derived artifacts
          proc,     \* what each command line is doing
          moved,    \* checks during which another command wrote
          edits, runs, kills

vars == <<sources, disk, proc, moved, edits, runs, kills>>

Source == [version: [Part -> 0..MaxEdits], peers: BOOLEAN, second: BOOLEAN]

Corpus(s) == <<s.version["first"], s.version["other"]>>

(* Artifacts of a group, in the order they are emitted. *)
Of(g, s) == CASE g = "registries" -> <<"index", "legacy">>
              [] g = "manifest"   -> <<"manifest">>
              [] g = "markdown"   -> IF s.second THEN <<"page", "page2">> ELSE <<"page">>
              [] g = "graph"      -> <<"graph">>

(* The first ADR names the other in a field like superseded_by.  Only a      *)
(* relation on a path of its neighbourhood makes the other one a peer.       *)
Peers(s, adr) == IF s.peers THEN {adr} ELSE {}

(* What an artifact shows: the index and the graph the namespace of         *)
(* PROJECT.yaml, a page the labels and links of the ADRs that it names.      *)
Shown(a, s) == CASE a \in {"index", "graph"}     -> Part
                 [] a \in {"legacy", "manifest"} -> {"first", "other"}
                 [] a = "page"                   -> {"first", "other"}
                 [] a = "page2"                  -> {"other"} \cup Peers(s, "first")

(* Files that its source hash covers: of the headers only the legacy         *)
(* registry's covers PROJECT.yaml, and a page's, its render_dependencies,     *)
(* its own ADR and its peers, but no ADR that the page merely names.          *)
Hashed(a, s) == CASE a = "legacy" -> Part
                  [] a \in {"index", "manifest", "graph"} -> {"first", "other"}
                  [] a = "page"   -> {"first"} \cup Peers(s, "other")
                  [] a = "page2"  -> {"other"} \cup Peers(s, "first")

Body(a, s) == [part \in Shown(a, s) |-> s.version[part]]

(* Mutant: the hash of a page covers its peers only. *)
CoveredPeers(a, s) == [part \in Hashed(a, s) \ (IF a = "page" THEN {"first"} ELSE {}) |->
                          s.version[part]]

Covered(a, s) == [part \in Hashed(a, s) |-> s.version[part]]

Stamped(a, t) == IF a \in {"index", "manifest", "graph"} THEN t ELSE NoTime

Cut(t) == LET none == [part \in {} |-> 0]
          IN  [body |-> none, declared |-> none, at |-> t, whole |-> FALSE]

(* The sources before anyone edits them. *)
Fresh == [version |-> [part \in Part |-> 0], peers |-> FALSE, second |-> TRUE]

Resting == [pc |-> "idle", emit |-> {}, check |-> FALSE, at |-> NoTime,
            seen |-> Fresh, groups |-> {}, body |-> <<>>, made |-> <<>>, drift |-> FALSE]

(* The group that is emitted first, of those that are left. *)
First(groups) == Group[CHOOSE i \in DOMAIN Group :
                           /\ Group[i] \in groups
                           /\ \A j \in DOMAIN Group : Group[j] \in groups => i <= j]

(* The other command lines that check. *)
Checking(p) == {q \in Proc \ {p} : proc[q].check}

Idle == \A p \in Proc : proc[p].pc = "idle"

-----------------------------------------------------------------------------
Init ==
    /\ sources = Fresh
    /\ disk = [a \in Artifact |-> Absent]
    /\ proc = [p \in Proc |-> Resting]
    /\ moved = {}
    /\ edits = 0 /\ runs = 0 /\ kills = 0

Begin(p, emit, check, pin) ==
    /\ proc[p].pc = "idle"
    /\ proc' = [proc EXCEPT ![p] = [Resting EXCEPT !.pc = "stamp", !.emit = emit,
                                                   !.check = check, !.at = pin]]
    /\ moved' = moved \ {p}

Generate(p, emit) == Begin(p, emit, FALSE, NoTime)

(* The commands, each of which compiles; with --recursive, every scope so. *)
GenerateManifest(p)   == Generate(p, {"manifest"})
GenerateIndex(p)      == Generate(p, {"registries"})
GenerateProjection(p) == Generate(p, {"markdown"})
CompileArtifacts(p)   == \E emit \in Emits, check \in BOOLEAN, pin \in {NoTime, Pin} :
                            Begin(p, emit, check, pin)

Command(p) ==
    /\ runs < MaxRuns /\ runs' = runs + 1
    /\ \/ GenerateManifest(p) \/ GenerateIndex(p)
       \/ GenerateProjection(p) \/ CompileArtifacts(p)
    /\ UNCHANGED <<sources, disk, edits, kills>>

(* The operator compiles everything again. *)
Retry ==
    /\ Begin(Operator, Default, FALSE, RetryPin)
    /\ UNCHANGED <<sources, disk, edits, runs, kills>>

Finish(p) == proc' = [proc EXCEPT ![p] = Resting]

(* The files whose timestamp an unpinned command takes over. *)
Stamps(emit) == {a \in {"manifest", "index"} :
                    /\ IF a = "manifest" THEN "manifest" \in emit ELSE "registries" \in emit
                    /\ disk[a] # Absent}

(* E705: a file without its timestamp, or two timestamps that differ. *)
Refuses(emit) == \/ \E a \in Stamps(emit) : disk[a].at = NoTime
                 \/ \E a, b \in Stamps(emit) : disk[a].at # disk[b].at

(* Mutant: a pinned timestamp must agree with those on disk. *)
ResolvePinToo(p) ==
    /\ proc[p].pc = "stamp"
    /\ IF Refuses(proc[p].emit) THEN Finish(p) ELSE proc' = [proc EXCEPT ![p].pc = "frontend"]
    /\ UNCHANGED <<sources, disk, moved, edits, runs, kills>>

(* The timestamp that a command without a pin takes over. *)
Adopted(emit) == IF Stamps(emit) = {} THEN NoTime ELSE disk[CHOOSE a \in Stamps(emit) : TRUE].at

(* A file cut off behind its timestamp may still be YAML, or raise. *)
ResolveStamp(p) ==
    LET me == proc[p] IN
    /\ me.pc = "stamp"
    /\ IF me.at = NoTime /\ Refuses(me.emit) THEN Finish(p)
       ELSE \/ proc' = [proc EXCEPT ![p].pc = "frontend",
                            ![p].at = IF @ = NoTime THEN Adopted(me.emit) ELSE @]
            \/ /\ me.at = NoTime
               /\ \E a \in Stamps(me.emit) : ~disk[a].whole
               /\ Finish(p)
    /\ UNCHANGED <<sources, disk, moved, edits, runs, kills>>

(* The frontend pipeline reads every ADR; without a timestamp, it is now. *)
Frontend(p) ==
    /\ proc[p].pc = "frontend"
    /\ IF Corpus(sources) \in Unparsed THEN Finish(p)
       ELSE \E now \in Time :
              proc' = [proc EXCEPT ![p].pc = "emit", ![p].seen = sources,
                  ![p].at = IF @ = NoTime THEN now ELSE @,
                  ![p].groups = proc[p].emit]
    /\ UNCHANGED <<sources, disk, moved, edits, runs, kills>>

(* The registries and the graph render what the frontend read; the manifest *)
(* and the pages read the ADRs once more.                                   *)
Render(p) ==
    LET g == First(proc[p].groups)
        s == IF g \in {"registries", "graph"} THEN proc[p].seen ELSE sources
    IN /\ proc[p].pc = "emit" /\ proc[p].groups # {}
       /\ IF g = "markdown" /\ Corpus(s) \in Unparsed THEN Finish(p)
          ELSE proc' = [proc EXCEPT ![p].pc = "header",
                           ![p].body = [i \in DOMAIN Of(g, s) |->
                                           <<Of(g, s)[i], Body(Of(g, s)[i], s)>>]]
       /\ UNCHANGED <<sources, disk, moved, edits, runs, kills>>

(* The source hash reads the source files again. *)
SignHeader(p) ==
    LET me == proc[p]
        File(a, body) == [body |-> body, declared |-> Covered(a, sources),
                          at |-> Stamped(a, me.at), whole |-> TRUE]
    IN /\ me.pc = "header"
       /\ proc' = [proc EXCEPT ![p].pc = "emit", ![p].groups = @ \ {First(@)}, ![p].body = <<>>,
                      ![p].made = @ \o [i \in DOMAIN me.body |->
                          <<me.body[i][1], File(me.body[i][1], me.body[i][2])>>]]
       /\ UNCHANGED <<sources, disk, moved, edits, runs, kills>>

(* The governance gate reports E706 after emission, and stops no write. *)
Emitted(p) ==
    /\ proc[p].pc = "emit" /\ proc[p].groups = {}
    /\ proc' = [proc EXCEPT ![p].pc = IF proc[p].check THEN "check" ELSE "write",
                            ![p].drift = Corpus(sources) \in Gated]
    /\ UNCHANGED <<sources, disk, moved, edits, runs, kills>>

(* write_bytes opens the file, which empties it, and then fills it. *)
Open(p) ==
    LET a == Head(proc[p].made)[1]
    IN /\ proc[p].pc = "write" /\ proc[p].made # <<>>
       /\ disk' = [disk EXCEPT ![a] = Cut(NoTime)]
       /\ proc' = [proc EXCEPT ![p].pc = "fill"]
       /\ moved' = moved \cup Checking(p)
       /\ UNCHANGED <<sources, edits, runs, kills>>

Fill(p) ==
    LET made == Head(proc[p].made)
    IN /\ proc[p].pc = "fill"
       /\ disk' = [disk EXCEPT ![made[1]] = made[2]]
       /\ proc' = [proc EXCEPT ![p].pc = "write", ![p].made = Tail(@)]
       /\ moved' = moved \cup Checking(p)
       /\ UNCHANGED <<sources, edits, runs, kills>>

(* Mutant: a missing artifact is no drift. *)
ComparePresent(p) ==
    LET made == Head(proc[p].made)
    IN /\ proc[p].pc = "check" /\ proc[p].made # <<>>
       /\ proc' = [proc EXCEPT ![p].made = Tail(@),
                      ![p].drift = @ \/ disk[made[1]] \notin {Absent, made[2]}]
       /\ UNCHANGED <<sources, disk, moved, edits, runs, kills>>

(* E701 a missing artifact, E702 one with other bytes. *)
Compare(p) ==
    LET made == Head(proc[p].made)
    IN /\ proc[p].pc = "check" /\ proc[p].made # <<>>
       /\ proc' = [proc EXCEPT ![p].made = Tail(@), ![p].drift = @ \/ disk[made[1]] # made[2]]
       /\ UNCHANGED <<sources, disk, moved, edits, runs, kills>>

Done(p) ==
    /\ proc[p].pc \in {"write", "check"} /\ proc[p].made = <<>>
    /\ Finish(p)
    /\ UNCHANGED <<sources, disk, moved, edits, runs, kills>>

Step(p) == \/ ResolveStamp(p) \/ Frontend(p) \/ Render(p) \/ SignHeader(p) \/ Emitted(p)
           \/ Open(p) \/ Fill(p) \/ Compare(p) \/ Done(p)

(* A file that was being filled keeps a part of its bytes. *)
Kill(p) ==
    /\ proc[p].pc # "idle" /\ kills < MaxKills
    /\ kills' = kills + 1
    /\ Finish(p)
    /\ IF proc[p].pc = "fill"
       THEN /\ \E t \in {NoTime, Head(proc[p].made)[2].at} :
                  disk' = [disk EXCEPT ![Head(proc[p].made)[1]] = Cut(t)]
            /\ moved' = moved \cup Checking(p)
       ELSE UNCHANGED <<disk, moved>>
    /\ UNCHANGED <<sources, edits, runs>>

(* The relation stands in the first ADR, and goes before the other ADR does. *)
Edit ==
    /\ edits < MaxEdits /\ (EditsAtRest => Idle)
    /\ edits' = edits + 1
    /\ \/ \E peers \in BOOLEAN :
             /\ peers => sources.second
             /\ sources' = [sources EXCEPT !.version["first"] = @ + 1, !.peers = peers]
       \/ \E second \in BOOLEAN :
             /\ sources.second /\ (sources.peers => second)
             /\ sources' = [sources EXCEPT !.version["other"] = @ + 1, !.second = second]
       \/ sources' = [sources EXCEPT !.version["project"] = @ + 1]
    /\ UNCHANGED <<disk, proc, moved, runs, kills>>

Next == \/ \E p \in Proc : Command(p) \/ Step(p) \/ Kill(p)
        \/ Retry \/ Edit

Spec == Init /\ [][Next]_vars

(* A command that runs goes on, and the operator does not give up. *)
Fair == (\A p \in Proc : WF_vars(Step(p))) /\ WF_vars(Retry)

FairSpec == Spec /\ Fair

-----------------------------------------------------------------------------
(* validate-generated-docs: the verdict on an artifact as it stands.        *)
Verdict(a) ==
    IF disk[a] = Absent THEN "missing"
    ELSE IF ~disk[a].whole THEN "malformed or tampered"
    ELSE IF a = "page2" /\ ~sources.second THEN "raises"
    ELSE IF disk[a].declared # Covered(a, sources) THEN "stale"
    ELSE "valid"

(* An artifact validate-generated-docs calls valid shows the files that its  *)
(* hash covers as they are: no page with the text of another version of its  *)
(* ADR, nor of a peer it has gained or lost.  Of what the hash leaves out,   *)
(* the namespace in the graph and the labels of ADRs that a page only names,  *)
(* a valid artifact may show an older version.                               *)
ValidIsCurrent ==
    \A a \in {"legacy", "manifest", "page", "page2", "graph"} :
        Verdict(a) = "valid" =>
            \A part \in Hashed(a, sources) \cap Shown(a, sources) :
                /\ part \in DOMAIN disk[a].body
                /\ disk[a].body[part] = sources.version[part]

Holds(a, t) == /\ disk[a] # Absent /\ disk[a].whole
               /\ disk[a].body = Body(a, sources) /\ disk[a].at = Stamped(a, t)

IsOneBuild(emit) ==
    \E t \in Time : \A g \in emit : \A a \in Range(Of(g, sources)) : Holds(a, t)

(* A check that nobody wrote under only accepts whole artifacts, all of one *)
(* build of the sources: no timestamp of another build, no torn file.       *)
CheckAcceptsOneBuild ==
    [][\A p \in Proc :
         (/\ proc[p].pc = "check" /\ proc[p].made = <<>> /\ ~proc[p].drift
          /\ proc'[p].pc = "idle" /\ kills' = kills /\ p \notin moved /\ EditsAtRest)
            => IsOneBuild(proc[p].emit)]_vars

(* Derived artifacts are disposable: whatever commands, edits, kills and     *)
(* overlapping writes left behind, compiling again ends in one build of the  *)
(* sources, unless the sources do not parse.                                 *)
CompileRepairs ==
    []<>(Idle /\ (Corpus(sources) \in Unparsed \/ IsOneBuild(Default)))
=============================================================================
