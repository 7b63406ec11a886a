--------------------------- MODULE MCCompilePasses ---------------------------
(* Small corpora: two logical ADRs, one system and two components.          *)
EXTENDS CompilePasses

MCVersions == {"1.2", "1.3", "1.4", "1.5", "1.6"}

(* Ids without a UUID: a fat member, a component, a decision, a rule. *)
MCTopoIds == {"t1", "t2"}

MCUuids == {"L1", "L2", "S1", "C1", "C2", "cap", "dec", "g", "inv", "x", "np",
            "s1", "s2", "c1", "c2", "cX", "if1"}

C(field, from, to) == [field |-> field, from |-> from, to |-> to]
P(id, type) == [id |-> id, type |-> type]
M(handle, ref) == [handle |-> handle, ref |-> ref]
E(from, to, verb) == [from |-> from, to |-> to, verb |-> verb]

ADR(id, kind, v, parts, claims) ==
    [id |-> id, kind |-> kind, version |-> v, parts |-> parts, claims |-> claims,
     members |-> <<>>, edges |-> <<>>, extensions |-> <<>>]

(* The claims a corpus may hold, per ADR in the order they are read. *)
Menu == [
    L1 |-> <<C("supersedes", "L1", "L2"), C("implemented_by_components", "cap", "c1"),
             C("implemented_by_components", "cap", "cX"),
             C("implemented_by_components", "cap", "t1"), C("enforces_invariants", "dec", "invX"),
             C("enforces_invariants", "dec", "inv"), C("enables_capabilities", "dec", "cap"),
             C("enables_capabilities", "dec", "capX"), C("governs_components", "dec", "c2"),
             C("governs_components", "dec", "d1"),
             C("affected_entities", "L1", "inv"), C("affected_entities", "L1", "Z"),
             C("rule_bindings", "L1", "rules:R1")>>,
    L2 |-> <<C("superseded_by", "L2", "L1"), C("superseded_by", "L2", "LX")>>,
    S1 |-> <<C("implements_logical", "S1", "L1"), C("superseded_by", "S1", "C1")>>,
    C1 |-> <<C("interfaces", "c1", "if1"), C("implements_capabilities", "c1", "cap"),
             C("implements_capabilities", "c1", "capX"), C("implements_system", "c1", "SX"),
             C("dependencies", "c1", "c2"), C("dependencies", "c1", "t1")>>,
    C2 |-> <<>>]

AllClaims == UNION {Range(Menu[a]) : a \in DOMAIN Menu}

Chosen(a, picked) == SelectSeq(Menu[a], LAMBDA c : c \in picked)

InSystem(c, on) == IF on THEN <<C("implements_system", c, "S1")>> ELSE <<>>

(* The capability that is listed twice by its decision. *)
Twice(a, twice) == IF twice THEN <<C("enables_capabilities", "dec", "capX")>> ELSE <<>>

Corpus(vs, picked, twice, parts, claimed, members, edges) ==
    <<ADR("L1", "logical", vs[1],
          <<P("cap", "capability"), P("dec", "decision"), P("g", "gap")>> \o parts,
          Chosen("L1", picked) \o Twice("L1", twice)),
      ADR("L2", "logical", vs[1], <<P("inv", "invariant")>>, Chosen("L2", picked)),
      [ADR("S1", "system", vs[1], <<P("s1", "system")>>, Chosen("S1", picked))
         EXCEPT !.members = members, !.edges = edges,
                !.extensions = IF vs[1] \in {"1.4", "1.5", "1.6"} /\ parts # <<>>
                                  /\ parts[1].type = "extension"
                               THEN <<<<"ns:owns", "s1", parts[1].id>>>> ELSE <<>>],
      ADR("C1", "component", vs[1], <<P("c1", "component"), P("if1", "interface")>>,
          Chosen("C1", picked) \o InSystem("c1", claimed)),
      ADR("C2", "component", vs[2], <<P("c2", "component")>>,
          Chosen("C2", picked) \o InSystem("c2", TRUE))>>

Slim == <<M("h1", "c1"), M("h2", "c2")>>
Fat  == <<M("t1", NoRef)>>
Plain(v) == IF v \in {"1.2", "1.3"} THEN Fat ELSE Slim

(* Up to three claims. *)
Picks == {{}} \cup {{c, d, e} : c, d, e \in AllClaims}

ByClaims == {Corpus(<<v, v>>, picked, FALSE, <<>>, TRUE, Plain(v), <<>>) :
                picked \in Picks, v \in MCVersions}

Edges == {<<>>, <<E("h1", "h2", "calls")>>, <<E("h1", "h3", "calls")>>,
          <<E("h2", "h1", "calls"), E("h2", "h1", "calls")>>}

Topologies == {<<>>, Slim, <<M("h1", "c1"), M("h1", "c2"), M("h2", "c2")>>,
               <<M("h1", "c1"), M("h2", "cX")>>, <<M("h1", "c1"), M("h2", "s1")>>,
               <<M("h1", "c1")>>}

ByTopology == {Corpus(<<v, v>>, {}, FALSE, <<>>, claimed, members, edges) :
                  v \in {"1.5", "1.6"}, claimed \in BOOLEAN,
                  members \in Topologies, edges \in Edges}

(* One more part in L1: a second definition, or a record of a newer line. *)
Extras(v) ==
    {<<P("inv", "invariant")>>, <<P("cap", "decision")>>, <<P("g", "gap")>>,
     <<P("L2", "boundary")>>, <<P("C2", "boundary")>>, <<P("c1", "boundary")>>}
    \cup (IF v \in {"1.2", "1.3"} THEN {} ELSE {<<P("x", "extension")>>, <<P("cap", "extension")>>})
    \cup (IF v = "1.6" THEN {<<P("np", "normative_proposition")>>,
                             <<P("cap", "normative_proposition")>>} ELSE {})

ByParts == UNION {{Corpus(<<v, w>>, {}, twice, parts, TRUE, Plain(v), <<>>) :
                      w \in {"1.2", "1.5", "1.6"}, twice \in BOOLEAN, parts \in Extras(v)} :
                  v \in MCVersions}

(* A verb of the core, and one that is the author's own. *)
ByVerb == {Corpus(<<"1.4", "1.4">>, {}, FALSE, <<>>, TRUE, Slim, <<E("h1", "h2", verb)>>) :
              verb \in {"calls", "routes_to"}}

(* C2 has parts whose ids are no UUIDs, and the capability may name one.    *)
Loose(v, members, part, claims, picked) ==
    [Corpus(<<v, v>>, picked, FALSE, <<>>, TRUE, members, <<>>)
        EXCEPT ![5].parts = @ \o <<part>>, ![5].claims = @ \o claims]

Decisions == {Loose(v, Slim, P(d, "implementation_decision"),
                    <<C("implements_invariants", d, "inv")>>, picked) :
                 v \in {"1.4", "1.5", "1.6"}, d \in {"d1", "t1"},
                 picked \in {{}, {C("governs_components", "dec", "d1")}}}

Components == {Loose("1.4", members, P("t1", "component"),
                     <<C("implements_capabilities", "t1", to), C("implements_system", "t1", "S1")>>, picked) :
                  members \in {<<>>, Slim \o <<M("h3", "t1")>>}, to \in {"cap", "capX"},
                  picked \in SUBSET {C("implemented_by_components", "cap", "t1"),
                                     C("dependencies", "c1", "t1")}}

(* Two system ADRs with one id, and a component of the first or the last.   *)
Twins == {[Corpus(<<v, v>>, {}, FALSE, <<>>, FALSE, <<M("h1", "c1")>>, <<>>)
              EXCEPT ![4].claims = @ \o <<C("implements_system", "c1", of)>>]
          \o <<[ADR("S1", "system", v, <<P("s2", "system")>>, <<>>) EXCEPT !.members = <<M("h2", "c2")>>]>> :
              v \in {"1.5", "1.6"}, of \in {"S1", "s1", "s2"}}

MCCorpora == ByClaims \cup ByTopology \cup ByParts \cup ByVerb
             \cup Decisions \cup Components \cup Twins

ASSUME MCPlainVerbs == PlainVerbs
=============================================================================
