------------------------- MODULE CompilePassesProofs -------------------------
(***************************************************************************)
(* What a compilation publishes, for every corpus the authoring models     *)
(* admit: every reported reference is accounted for, an inverse comes with *)
(* its relation, no edge of a topology is lost, and the bundle is closed.  *)
(***************************************************************************)
EXTENDS CompilePasses, FiniteSetTheorems, FunctionTheorems, SequenceTheorems,
        NaturalsInduction, WellFoundedInduction, TLAPS

(***************************************************************************)
(* Least elements, and induction over a set of naturals.                   *)
(***************************************************************************)
LEMMA LeastElement ==
    ASSUME NEW T \in SUBSET Nat, T # {}
    PROVE  \E x \in T : \A y \in T : x <= y
<1>1. OpToRel(<, Nat) = {ss \in Nat \X Nat : ss[1] < ss[2]}
  BY Zenon DEF OpToRel
<1>2. IsWellFoundedOn(OpToRel(<, Nat), Nat)
  BY NatLessThanWellFounded, Zenon
<1>3. PICK x \in T : \A y \in T : ~ (<<y, x>> \in OpToRel(<, Nat))
  BY <1>2, WFMin, Zenon
<1>4. ASSUME NEW y \in T PROVE x <= y
  <2>1. ~ (<<y, x>> \in {ss \in Nat \X Nat : ss[1] < ss[2]})
    BY <1>1, <1>3, Zenon
  <2>2. <<y, x>> \in Nat \X Nat
    OBVIOUS
  <2>3. ~ (y < x)
    BY <2>1, <2>2
  <2> QED BY <2>3
<1> QED BY <1>4

LEMMA SetInduction ==
    ASSUME NEW S \in SUBSET Nat, 0 \in S, \A n \in S : n + 1 \in S
    PROVE  S = Nat
<1> SUFFICES ASSUME Nat \ S # {} PROVE FALSE
  OBVIOUS
<1>1. PICK x \in Nat \ S : \A y \in Nat \ S : x <= y
  BY LeastElement
<1>2. x - 1 \in Nat
  BY <1>1
<1>3. x - 1 \in S
  BY <1>1, <1>2
<1>4. (x - 1) + 1 = x
  BY <1>1
<1> QED BY <1>1, <1>3, <1>4

LEMMA MinInside ==
    ASSUME NEW T \in SUBSET Nat, T # {}
    PROVE  Min(T) \in T
  BY LeastElement DEF Min

LEMMA MaxInside ==
    ASSUME NEW n \in Nat, NEW T \in SUBSET (0 .. n), T # {}
    PROVE  Max(T) \in T
<1> DEFINE up == {n - x : x \in T}
<1>1. up \in SUBSET Nat /\ up # {}
  <2>1. ASSUME NEW x \in T PROVE n - x \in Nat
    <3>1. x \in 0 .. n
      OBVIOUS
    <3> QED BY <3>1
  <2>2. PICK x \in T : TRUE
    OBVIOUS
  <2>3. n - x \in up
    OBVIOUS
  <2> QED BY <2>1, <2>3
<1>2. PICK u \in up : \A v \in up : u <= v
  BY <1>1, LeastElement
<1>3. PICK x \in T : u = n - x
  OBVIOUS
<1>4. \A y \in T : x >= y
  <2> SUFFICES ASSUME NEW y \in T PROVE x >= y
    OBVIOUS
  <2>1. n - y \in up
    OBVIOUS
  <2>2. n - x <= n - y
    BY <1>2, <1>3, <2>1
  <2>3. x \in Int /\ y \in Int
    <3>1. x \in 0 .. n /\ y \in 0 .. n
      OBVIOUS
    <3> QED BY <3>1
  <2> HIDE DEF up
  <2> QED BY <2>2, <2>3
<1> QED BY <1>4 DEF Max

(***************************************************************************)
(* A flattened sequence of sequences holds what they hold.                 *)
(***************************************************************************)
LEMMA RangeOfConcatenation ==
    ASSUME NEW S, NEW s \in Seq(S), NEW t \in Seq(S)
    PROVE  s \o t \in Seq(S) /\ Range(s \o t) = Range(s) \cup Range(t)
<1>1. s \o t \in Seq(S)
  OBVIOUS
<1>2. /\ DOMAIN s = 1 .. Len(s) /\ DOMAIN t = 1 .. Len(t)
      /\ DOMAIN (s \o t) = 1 .. (Len(s) + Len(t))
      /\ Len(s) \in Nat /\ Len(t) \in Nat
  BY <1>1, Zenon, LenProperties, ConcatProperties
<1>3. ASSUME NEW x \in Range(s \o t) PROVE x \in Range(s) \cup Range(t)
  <2>1. PICK i \in 1 .. (Len(s) + Len(t)) : x = (s \o t)[i]
    BY <1>2 DEF Range
  <2>2. CASE i <= Len(s)
    BY <2>1, <2>2, <1>2, ConcatProperties DEF Range
  <2>3. CASE ~ (i <= Len(s))
    BY <2>1, <2>3, <1>2, ConcatProperties DEF Range
  <2> QED BY <2>2, <2>3
<1>4. ASSUME NEW x \in Range(s) PROVE x \in Range(s \o t)
  <2>1. PICK i \in 1 .. Len(s) : x = s[i]
    BY <1>2 DEF Range
  <2>2. i \in 1 .. (Len(s) + Len(t)) /\ (s \o t)[i] = s[i]
    BY <1>2, ConcatProperties
  <2> QED BY <2>1, <2>2, <1>2 DEF Range
<1>5. ASSUME NEW x \in Range(t) PROVE x \in Range(s \o t)
  <2>1. PICK i \in 1 .. Len(t) : x = t[i]
    BY <1>2 DEF Range
  <2>2. Len(s) + i \in 1 .. (Len(s) + Len(t)) /\ (s \o t)[Len(s) + i] = t[i]
    BY <1>2, ConcatProperties
  <2> QED BY <2>1, <2>2, <1>2 DEF Range
<1> QED BY <1>1, <1>3, <1>4, <1>5

LEMMA FlatRange ==
    ASSUME NEW S, NEW n \in Nat, NEW ss, ss = [i \in 1 .. n |-> ss[i]],
           \A i \in 1 .. n : ss[i] \in Seq(S)
    PROVE  /\ FlattenSeq(ss) \in Seq(S)
           /\ Range(FlattenSeq(ss)) = UNION {Range(ss[i]) : i \in 1 .. n}
<1>1. ss \in Seq(Seq(S)) /\ Len(ss) = n
  OBVIOUS
<1>2. CASE n = 0
  <2>1. ss = <<>>
    BY <1>1, <1>2
  <2>2. FlattenSeq(ss) = ss
    BY <1>1, <1>2 DEF FlattenSeq
  <2>3. 1 .. n = {}
    BY <1>2
  <2>4. Range(ss) = {}
    BY <2>1 DEF Range
  <2>5. UNION {Range(ss[i]) : i \in 1 .. n} = {}
    BY <2>3
  <2>6. ss \in Seq(S)
    BY <2>1
  <2> QED BY <2>2, <2>4, <2>5, <2>6
<1>3. CASE n # 0
  <2> DEFINE Flat(g, k) == /\ g = [i \in 1 .. k |-> g[i]]
                           /\ \A i \in 1 .. k : g[i] = IF i = 1 THEN ss[i] ELSE g[i - 1] \o ss[i]
             K == {k \in Nat : \E g : Flat(g, k)}
             f == CHOOSE g : g = [i \in 1 .. n |-> IF i = 1 THEN ss[i] ELSE g[i - 1] \o ss[i]]
  <2>1. 0 \in K
    <3>1. Flat([i \in 1 .. 0 |-> ss], 0)
      OBVIOUS
    <3> QED BY <3>1
  <2>2. ASSUME NEW k \in K PROVE k + 1 \in K
    <3>1. PICK g : Flat(g, k)
      OBVIOUS
    <3> DEFINE h == [i \in 1 .. (k + 1) |-> IF i <= k THEN g[i]
                                             ELSE IF i = 1 THEN ss[i] ELSE g[i - 1] \o ss[i]]
    <3>2. ASSUME NEW i \in 1 .. (k + 1)
          PROVE  h[i] = IF i = 1 THEN ss[i] ELSE h[i - 1] \o ss[i]
      <4>1. CASE i <= k
        <5>1. i \in 1 .. k /\ (i # 1 => i - 1 \in 1 .. k)
          BY <4>1
        <5>2. g[i] = IF i = 1 THEN ss[i] ELSE g[i - 1] \o ss[i]
          BY <3>1, <5>1
        <5>3. h[i] = g[i] /\ (i # 1 => h[i - 1] = g[i - 1])
          BY <4>1, <5>1
        <5> QED BY <5>2, <5>3
      <4>2. CASE ~ (i <= k)
        <5>1. i = k + 1 /\ (i # 1 => i - 1 \in 1 .. k /\ i - 1 <= k)
          BY <4>2
        <5>2. h[i] = IF i = 1 THEN ss[i] ELSE g[i - 1] \o ss[i]
          BY <4>2
        <5>3. i # 1 => h[i - 1] = g[i - 1]
          BY <5>1
        <5> QED BY <5>2, <5>3
      <4> QED BY <4>1, <4>2
    <3>3. h = [i \in 1 .. (k + 1) |-> h[i]]
      OBVIOUS
    <3> HIDE DEF h
    <3>4. Flat(h, k + 1)
      BY <3>2, <3>3
    <3>5. k + 1 \in Nat
      OBVIOUS
    <3> HIDE DEF Flat
    <3>6. \E e : Flat(e, k + 1)
      BY <3>4
    <3> QED BY <3>5, <3>6
  <2>3. n \in K
    <3> HIDE DEF Flat
    <3>1. K \in SUBSET Nat
      OBVIOUS
    <3> HIDE DEF K
    <3>2. K = Nat
      BY <2>1, <2>2, <3>1, SetInduction
    <3> QED BY <3>2
  <2>4. f = [i \in 1 .. n |-> IF i = 1 THEN ss[i] ELSE f[i - 1] \o ss[i]]
    <3>1. PICK g : Flat(g, n)
      BY <2>3
    <3>2. g = [i \in 1 .. n |-> IF i = 1 THEN ss[i] ELSE g[i - 1] \o ss[i]]
      BY <3>1
    <3> QED BY <3>2, Zenon
  <2>5. FlattenSeq(ss) = f[n]
    <3>1. n = Len(ss)
      BY <1>1
    <3> QED BY <3>1, <1>3, Zenon DEF FlattenSeq
  <2> HIDE DEF f
  <2> DEFINE D == {k \in Nat : k \in 1 .. n =>
                       /\ f[k] \in Seq(S)
                       /\ Range(f[k]) = UNION {Range(ss[i]) : i \in 1 .. k}}
  <2>6. 0 \in D
    OBVIOUS
  <2>7. ASSUME NEW k \in D PROVE k + 1 \in D
    <3> SUFFICES ASSUME k + 1 \in 1 .. n
                 PROVE  /\ f[k + 1] \in Seq(S)
                        /\ Range(f[k + 1]) = UNION {Range(ss[i]) : i \in 1 .. (k + 1)}
      OBVIOUS
    <3>1. CASE k = 0
      <4>1. f[k + 1] = ss[1]
        BY <2>4, <3>1
      <4>2. 1 .. (k + 1) = {1}
        BY <3>1
      <4> QED BY <4>1, <4>2, <3>1
    <3>2. CASE k # 0
      <4>1. f[k + 1] = f[k] \o ss[k + 1]
        <5>1. (k + 1) - 1 = k /\ k + 1 # 1
          BY <3>2
        <5>2. f[k + 1] = IF k + 1 = 1 THEN ss[k + 1] ELSE f[(k + 1) - 1] \o ss[k + 1]
          BY <2>4
        <5> QED BY <5>1, <5>2
      <4>2. /\ f[k] \in Seq(S)
            /\ Range(f[k]) = UNION {Range(ss[i]) : i \in 1 .. k}
        BY <3>2
      <4>3. 1 .. (k + 1) = (1 .. k) \cup {k + 1}
        BY <3>2
      <4>4. /\ f[k + 1] \in Seq(S)
            /\ Range(f[k + 1]) = Range(f[k]) \cup Range(ss[k + 1])
        BY <4>1, <4>2, RangeOfConcatenation
      <4> QED BY <4>2, <4>3, <4>4
    <3> QED BY <3>1, <3>2
  <2>8. D = Nat
    <3>1. D \in SUBSET Nat
      OBVIOUS
    <3> HIDE DEF D
    <3> QED BY <2>6, <2>7, <3>1, SetInduction
  <2>9. n \in D /\ n \in 1 .. n
    BY <2>8, <1>3
  <2>10. f[n] \in Seq(S) /\ Range(f[n]) = UNION {Range(ss[i]) : i \in 1 .. n}
    BY <2>9
  <2> QED BY <2>5, <2>10
<1> QED BY <1>2, <1>3

LEMMA FlatMembers ==
    ASSUME NEW S, NEW n \in Nat, NEW ss, ss = [i \in 1 .. n |-> ss[i]],
           \A i \in 1 .. n : ss[i] \in Seq(S)
    PROVE  /\ FlattenSeq(ss) \in Seq(S)
           /\ \A x : x \in Range(FlattenSeq(ss)) <=> \E i \in 1 .. n : x \in Range(ss[i])
<1>1. /\ FlattenSeq(ss) \in Seq(S)
      /\ Range(FlattenSeq(ss)) = UNION {Range(ss[i]) : i \in 1 .. n}
  BY FlatRange
<1> QED BY <1>1

LEMMA RangeOfWhen ==
    ASSUME NEW S, NEW test \in BOOLEAN, NEW v \in S
    PROVE  /\ When(test, v) \in Seq(S)
           /\ \A x : x \in Range(When(test, v)) <=> test /\ x = v
<1>1. CASE test
  <2>1. When(test, v) = <<v>>
    BY <1>1 DEF When
  <2>2. DOMAIN <<v>> = {1} /\ <<v>>[1] = v /\ <<v>> \in Seq(S)
    OBVIOUS
  <2>3. Range(<<v>>) = {v}
    <3> DEFINE s == <<v>>
    <3>1. DOMAIN s = {1} /\ s[1] = v
      BY <2>2
    <3> HIDE DEF s
    <3>2. Range(s) = {v}
      BY <3>1 DEF Range
    <3> QED BY <3>2 DEF s
  <2>4. When(test, v) \in Seq(S) /\ Range(When(test, v)) = {v}
    BY <2>1, <2>2, <2>3, Zenon
  <2> QED BY <1>1, <2>4, Zenon
<1>2. CASE ~ test
  <2>1. When(test, v) = <<>>
    BY <1>2 DEF When
  <2>2. DOMAIN <<>> = {} /\ <<>> \in Seq(S)
    OBVIOUS
  <2>3. Range(<<>>) = {}
    BY <2>2 DEF Range
  <2> QED BY <1>2, <2>1, <2>2, <2>3
<1> QED BY <1>1, <1>2

LEMMA RangeOfEmpty ==
    ASSUME NEW S
    PROVE  <<>> \in Seq(S) /\ Range(<<>>) = {}
<1>1. DOMAIN <<>> = {} /\ <<>> \in Seq(S)
  OBVIOUS
<1> QED BY <1>1 DEF Range

(***************************************************************************)
(* The items of a file.  (That a literal is in STRING is no fact of the    *)
(* provers', hence the two types that are named.)                          *)
(***************************************************************************)
Types == STRING \cup {"adr", "component"}

Items == [id : STRING, type : Types, adr : STRING, merge : BOOLEAN]

PartItem(p, adr) == Item(p.id, p.type, adr.id, FALSE)

LEMMA DocumentTyped ==
    ASSUME NEW adr \in Document
    PROVE  /\ adr.id \in STRING /\ adr.version \in STRING
           /\ adr.kind \in {"logical", "system", "component"}
           /\ adr.parts \in Seq([id : STRING, type : STRING])
           /\ adr.claims \in Seq([field : Field, from : STRING, to : STRING])
           /\ adr.members \in Seq([handle : STRING, ref : STRING \cup {NoRef}])
           /\ adr.edges \in Seq([from : STRING, to : STRING, verb : STRING])
  BY DEF Document

LEMMA PartsOf ==
    ASSUME NEW adr \in Document, NEW types
    PROVE  /\ Parts(adr, types) \in Seq(Items)
           /\ \A x : x \in Range(Parts(adr, types)) <=>
                        \E p \in Range(adr.parts) : p.type \in types /\ x = PartItem(p, adr)
<1> DEFINE n == Len(adr.parts)
           ss == [i \in 1 .. n |-> When(adr.parts[i].type \in types,
                                        Item(adr.parts[i].id, adr.parts[i].type, adr.id, FALSE))]
<1>1. n \in Nat /\ DOMAIN adr.parts = 1 .. n
  BY DocumentTyped
<1>2. ASSUME NEW i \in 1 .. n
      PROVE  /\ ss[i] \in Seq(Items)
             /\ \A x : x \in Range(ss[i]) <=>
                          adr.parts[i].type \in types /\ x = PartItem(adr.parts[i], adr)
  <2> DEFINE p == adr.parts[i]
             v == PartItem(p, adr)
             test == p.type \in types
  <2>1. p \in [id : STRING, type : STRING] /\ adr.id \in STRING
    <3>1. adr.parts \in Seq([id : STRING, type : STRING]) /\ adr.id \in STRING
      BY DocumentTyped
    <3>2. i \in 1 .. Len(adr.parts)
      OBVIOUS
    <3>3. adr.parts[i] \in [id : STRING, type : STRING]
      BY <3>1, <3>2, ElementOfSeq
    <3> QED BY <3>1, <3>3
  <2>2. v \in Items
    BY <2>1 DEF PartItem, Item, Items, Types
  <2>3. ss[i] = When(test, v)
    BY DEF PartItem
  <2>4. test \in BOOLEAN
    OBVIOUS
  <2> HIDE DEF p, v, test, ss
  <2>5. /\ When(test, v) \in Seq(Items)
        /\ \A x : x \in Range(When(test, v)) <=> test /\ x = v
    BY <2>2, <2>4, RangeOfWhen
  <2> QED BY <2>3, <2>5 DEF v, test, p
<1>3. ss = [i \in 1 .. n |-> ss[i]]
  OBVIOUS
<1>4. Parts(adr, types) = FlattenSeq(ss)
  BY <1>1, Zenon DEF Parts
<1> HIDE DEF ss
<1>5. /\ FlattenSeq(ss) \in Seq(Items)
      /\ \A x : x \in Range(FlattenSeq(ss)) <=> \E i \in 1 .. n : x \in Range(ss[i])
  <2> HIDE DEF n
  <2> QED BY <1>1, <1>2, <1>3, FlatMembers
<1>6. \A x : x \in Range(FlattenSeq(ss)) <=>
                \E p \in Range(adr.parts) : p.type \in types /\ x = PartItem(p, adr)
  <2>1. Range(adr.parts) = {adr.parts[i] : i \in 1 .. n}
    BY <1>1 DEF Range
  <2> HIDE DEF n
  <2>2. ASSUME NEW x
        PROVE  (\E i \in 1 .. n : x \in Range(ss[i])) <=>
                  \E p \in Range(adr.parts) : p.type \in types /\ x = PartItem(p, adr)
    BY <1>2, <2>1
  <2> QED BY <1>5, <2>2
<1> QED BY <1>4, <1>5, <1>6

(***************************************************************************)
(* A graph grows by a set of items.                                        *)
(***************************************************************************)
Grows(items, before, after) ==
    /\ DOMAIN after = DOMAIN before \cup {x.id : x \in items}
    /\ \A id \in DOMAIN before : after[id] = before[id]
    /\ \A id \in DOMAIN after \ DOMAIN before :
          \E x \in items : x.id = id /\ after[id] = [type |-> x.type, adr |-> x.adr]

LEMMA AddingGrows ==
    ASSUME NEW items \in Seq(Items)
    PROVE  Grows(Range(items), entities, AddAll(items))
<1> DEFINE ids == {items[i].id : i \in DOMAIN items}
           g == AddAll(items)
<1>1. ids = {x.id : x \in Range(items)}
  BY DEF Range
<1>2. DOMAIN g = DOMAIN entities \cup ids
  BY DEF AddAll
<1>3. \A id \in DOMAIN entities : g[id] = entities[id]
  BY DEF AddAll
<1>4. ASSUME NEW id \in DOMAIN g \ DOMAIN entities
      PROVE  \E x \in Range(items) : x.id = id /\ g[id] = [type |-> x.type, adr |-> x.adr]
  <2> DEFINE k == Min(At(items, id))
  <2>1. At(items, id) \in SUBSET Nat /\ At(items, id) # {}
    BY <1>2 DEF At
  <2>2. k \in At(items, id)
    BY <2>1, MinInside
  <2>3. g[id] = [type |-> items[k].type, adr |-> items[k].adr]
    BY <1>2 DEF AddAll
  <2>4. k \in DOMAIN items /\ items[k].id = id
    BY <2>2 DEF At
  <2> QED BY <2>3, <2>4 DEF Range
<1> QED BY <1>1, <1>2, <1>3, <1>4 DEF Grows

(***************************************************************************)
(* An item names its file as the declaring one; only an ADR is typed so.   *)
(***************************************************************************)
AuthoredBy(x, adr) == x.adr = adr.id /\ (x.type = "adr" => x.id = adr.id)

LEMMA PartsAuthored ==
    ASSUME NEW adr \in Document, Admissible(adr), NEW types
    PROVE  /\ Parts(adr, types) \in Seq(Items)
           /\ \A x \in Range(Parts(adr, types)) : AuthoredBy(x, adr) /\ x.type \in types
           /\ \A p \in Range(adr.parts) :
                 p.type \in types => \E x \in Range(Parts(adr, types)) : x.id = p.id
<1>1. /\ Parts(adr, types) \in Seq(Items)
      /\ \A x : x \in Range(Parts(adr, types)) <=>
                   \E p \in Range(adr.parts) : p.type \in types /\ x = PartItem(p, adr)
  BY PartsOf
<1>2. \A p : /\ PartItem(p, adr).id = p.id
             /\ PartItem(p, adr).type = p.type
             /\ PartItem(p, adr).adr = adr.id
  BY DEF PartItem, Item
<1>3. \A p \in Range(adr.parts) : p.type # "adr"
  BY DEF Admissible
<1> QED BY <1>1, <1>2, <1>3 DEF AuthoredBy

LEMMA LogicalPartsAuthored ==
    ASSUME NEW adr \in Document, Admissible(adr), NEW types
    PROVE  /\ OfLogical(adr, types) \in Seq(Items)
           /\ \A x \in Range(OfLogical(adr, types)) : AuthoredBy(x, adr) /\ x.type \in types
           /\ adr.kind = "logical" =>
                 \A p \in Range(adr.parts) :
                    p.type \in types => \E x \in Range(OfLogical(adr, types)) : x.id = p.id
<1>1. CASE adr.kind = "logical"
  <2>1. OfLogical(adr, types) = Parts(adr, types)
    BY <1>1 DEF OfLogical
  <2> QED BY <2>1, PartsAuthored
<1>2. CASE adr.kind # "logical"
  <2>1. OfLogical(adr, types) = <<>>
    BY <1>2 DEF OfLogical
  <2>2. <<>> \in Seq(Items) /\ Range(<<>>) = {}
    BY RangeOfEmpty
  <2> QED BY <1>2, <2>1, <2>2
<1> QED BY <1>1, <1>2

LEMMA LogicalItems ==
    ASSUME NEW adr \in Document, Admissible(adr)
    PROVE  /\ Logical(adr) \in Seq(Items)
           /\ \A x \in Range(Logical(adr)) : AuthoredBy(x, adr) /\ x.type # "extension"
           /\ adr.kind = "logical" =>
                 /\ \E x \in Range(Logical(adr)) : x.id = adr.id
                 /\ \A p \in Range(adr.parts) :
                       p.type \in {"capability", "contract", "decision"} =>
                           \E x \in Range(Logical(adr)) : x.id = p.id
<1> DEFINE types == {"capability", "boundary", "contract", "decision"}
           test  == adr.kind = "logical"
           v     == Item(adr.id, "adr", adr.id, FALSE)
           head  == When(test, v)
           tail  == OfLogical(adr, types)
<1>1. Logical(adr) = head \o tail
  BY DEF Logical
<1>2. v \in Items /\ v.id = adr.id /\ v.adr = adr.id /\ v.type = "adr"
  <2>1. adr.id \in STRING /\ "adr" \in Types /\ FALSE \in BOOLEAN
    BY DocumentTyped DEF Types
  <2> QED BY <2>1 DEF Item, Items
<1>3. test \in BOOLEAN
  OBVIOUS
<1>4. head \in Seq(Items) /\ \A x : x \in Range(head) <=> test /\ x = v
  <2> HIDE DEF v, test
  <2> QED BY <1>2, <1>3, RangeOfWhen
<1>5. /\ tail \in Seq(Items)
      /\ \A x \in Range(tail) : AuthoredBy(x, adr) /\ x.type \in types
      /\ test => \A p \in Range(adr.parts) :
                    p.type \in types => \E x \in Range(tail) : x.id = p.id
  <2> HIDE DEF types
  <2> QED BY LogicalPartsAuthored
<1> HIDE DEF head, tail, v, test
<1>6. head \o tail \in Seq(Items) /\ Range(head \o tail) = Range(head) \cup Range(tail)
  BY <1>4, <1>5, RangeOfConcatenation
<1>7. \A x \in Range(head \o tail) : AuthoredBy(x, adr) /\ x.type # "extension"
  <2>1. AuthoredBy(v, adr) /\ v.type # "extension"
    BY <1>2 DEF AuthoredBy
  <2>2. \A x \in Range(tail) : AuthoredBy(x, adr) /\ x.type # "extension"
    BY <1>5
  <2> QED BY <1>4, <1>6, <2>1, <2>2
<1>8. test => \E x \in Range(head \o tail) : x.id = adr.id
  BY <1>2, <1>4, <1>6
<1>9. test => \A p \in Range(adr.parts) :
                 p.type \in {"capability", "contract", "decision"} =>
                     \E x \in Range(head \o tail) : x.id = p.id
  BY <1>5, <1>6
<1> QED BY <1>1, <1>6, <1>7, <1>8, <1>9 DEF test

LEMMA FatsAuthored ==
    ASSUME NEW adr \in Document
    PROVE  /\ Fats(adr) \in Seq(Items)
           /\ \A x \in Range(Fats(adr)) : AuthoredBy(x, adr) /\ x.type = "component"
<1> DEFINE n == Len(adr.members)
           ss == [i \in 1 .. n |-> When(adr.members[i].ref = NoRef,
                                        Item(adr.members[i].handle, "component", adr.id, FALSE))]
<1>1. n \in Nat /\ DOMAIN adr.members = 1 .. n
  BY DocumentTyped
<1>2. ASSUME NEW i \in 1 .. n
      PROVE  /\ ss[i] \in Seq(Items)
             /\ \A x \in Range(ss[i]) : AuthoredBy(x, adr) /\ x.type = "component"
  <2> DEFINE m == adr.members[i]
             v == Item(m.handle, "component", adr.id, FALSE)
             test == m.ref = NoRef
  <2>1. m \in [handle : STRING, ref : STRING \cup {NoRef}] /\ adr.id \in STRING
    <3>1. adr.members \in Seq([handle : STRING, ref : STRING \cup {NoRef}]) /\ adr.id \in STRING
      BY DocumentTyped
    <3>2. i \in 1 .. Len(adr.members)
      OBVIOUS
    <3>3. adr.members[i] \in [handle : STRING, ref : STRING \cup {NoRef}]
      BY <3>1, <3>2, ElementOfSeq
    <3> QED BY <3>1, <3>3
  <2>2. v \in Items /\ AuthoredBy(v, adr) /\ v.type = "component"
    <3>1. m.handle \in STRING /\ "component" \in Types /\ FALSE \in BOOLEAN
      BY <2>1 DEF Types
    <3> HIDE DEF m
    <3>2. v \in Items /\ v.adr = adr.id /\ v.type = "component"
      BY <2>1, <3>1 DEF Item, Items
    <3> QED BY <3>2 DEF AuthoredBy
  <2>3. ss[i] = When(test, v)
    OBVIOUS
  <2>4. test \in BOOLEAN
    OBVIOUS
  <2> HIDE DEF m, v, test, ss
  <2>5. /\ When(test, v) \in Seq(Items)
        /\ \A x : x \in Range(When(test, v)) <=> test /\ x = v
    BY <2>2, <2>4, RangeOfWhen
  <2> QED BY <2>2, <2>3, <2>5
<1>3. ss = [i \in 1 .. n |-> ss[i]]
  OBVIOUS
<1>4. Fats(adr) = FlattenSeq(ss)
  BY <1>1, Zenon DEF Fats
<1> HIDE DEF ss
<1>5. /\ FlattenSeq(ss) \in Seq(Items)
      /\ \A x : x \in Range(FlattenSeq(ss)) <=> \E i \in 1 .. n : x \in Range(ss[i])
  <2> HIDE DEF n
  <2> QED BY <1>1, <1>2, <1>3, FlatMembers
<1> QED BY <1>2, <1>4, <1>5

LEMMA PhysicalItems ==
    ASSUME NEW adr \in Document, Admissible(adr)
    PROVE  /\ Physical(adr) \in Seq(Items)
           /\ \A x \in Range(Physical(adr)) : AuthoredBy(x, adr) /\ x.type # "extension"
           /\ adr.kind # "logical" => \E x \in Range(Physical(adr)) : x.id = adr.id
           /\ adr.kind = "component" =>
                 \A p \in Range(adr.parts) :
                    p.type \in {"component", "implementation_decision"} =>
                        \E x \in Range(Physical(adr)) : x.id = p.id
<1>1. CASE adr.kind = "logical"
  <2>1. Physical(adr) = <<>>
    BY <1>1 DEF Physical
  <2>2. <<>> \in Seq(Items) /\ Range(<<>>) = {}
    BY RangeOfEmpty
  <2> QED BY <1>1, <2>1, <2>2
<1>2. CASE adr.kind # "logical"
  <2> DEFINE v == Item(adr.id, "adr", adr.id, TRUE)
             inner == {"component", "interface", "implementation_decision"}
             tail == IF adr.kind = "system" THEN Parts(adr, {"system"}) \o Fats(adr)
                     ELSE PhysicalParts(adr)
  <2>1. Physical(adr) = <<v>> \o tail
    BY <1>2 DEF Physical
  <2>2. v \in Items /\ v.id = adr.id /\ AuthoredBy(v, adr) /\ v.type # "extension"
    <3>1. adr.id \in STRING /\ "adr" \in Types /\ TRUE \in BOOLEAN
      BY DocumentTyped DEF Types
    <3>2. v \in Items /\ v.id = adr.id /\ v.adr = adr.id /\ v.type = "adr"
      BY <3>1 DEF Item, Items
    <3> QED BY <3>2 DEF AuthoredBy
  <2>3. <<v>> \in Seq(Items) /\ Range(<<v>>) = {v}
    <3> HIDE DEF v
    <3> DEFINE s == <<v>>
    <3>1. s \in Seq(Items) /\ DOMAIN s = {1} /\ s[1] = v
      BY <2>2
    <3> HIDE DEF s
    <3>2. Range(s) = {v}
      BY <3>1 DEF Range
    <3> QED BY <3>1, <3>2 DEF s
  <2>4. /\ tail \in Seq(Items)
        /\ \A x \in Range(tail) : AuthoredBy(x, adr) /\ x.type # "extension"
        /\ adr.kind = "component" =>
              \A p \in Range(adr.parts) :
                 p.type \in inner => \E x \in Range(tail) : x.id = p.id
    <3>1. CASE adr.kind = "system"
      <4>1. tail = Parts(adr, {"system"}) \o Fats(adr)
        BY <3>1
      <4>2. /\ Parts(adr, {"system"}) \in Seq(Items)
            /\ \A x \in Range(Parts(adr, {"system"})) : AuthoredBy(x, adr) /\ x.type \in {"system"}
        BY PartsAuthored
      <4>3. /\ Fats(adr) \in Seq(Items)
            /\ \A x \in Range(Fats(adr)) : AuthoredBy(x, adr) /\ x.type = "component"
        BY FatsAuthored
      <4> HIDE DEF tail
      <4>4. tail \in Seq(Items) /\ Range(tail) = Range(Parts(adr, {"system"})) \cup Range(Fats(adr))
        BY <4>1, <4>2, <4>3, RangeOfConcatenation
      <4> QED BY <3>1, <4>2, <4>3, <4>4
    <3>2. CASE adr.kind # "system"
      <4>1. tail = Parts(adr, inner)
        BY <3>2 DEF PhysicalParts
      <4>2. /\ Parts(adr, inner) \in Seq(Items)
            /\ \A x \in Range(Parts(adr, inner)) : AuthoredBy(x, adr) /\ x.type \in inner
            /\ \A p \in Range(adr.parts) :
                  p.type \in inner => \E x \in Range(Parts(adr, inner)) : x.id = p.id
        <5> HIDE DEF inner
        <5> QED BY PartsAuthored
      <4> HIDE DEF tail
      <4> QED BY <4>1, <4>2
    <3> QED BY <3>1, <3>2
  <2> HIDE DEF v, tail
  <2>5. <<v>> \o tail \in Seq(Items) /\ Range(<<v>> \o tail) = {v} \cup Range(tail)
    <3> DEFINE s == <<v>>
    <3>1. s \in Seq(Items) /\ Range(s) = {v}
      BY <2>3
    <3> HIDE DEF s
    <3>2. s \o tail \in Seq(Items) /\ Range(s \o tail) = Range(s) \cup Range(tail)
      BY <2>4, <3>1, RangeOfConcatenation
    <3>3. s \o tail \in Seq(Items) /\ Range(s \o tail) = {v} \cup Range(tail)
      BY <3>1, <3>2
    <3> QED BY <3>3 DEF s
  <2> QED BY <2>1, <2>2, <2>4, <2>5
<1> QED BY <1>1, <1>2

LEMMA PropositionItems ==
    ASSUME NEW adr \in Document, Admissible(adr)
    PROVE  /\ Propositions(adr) \in Seq(Items)
           /\ \A x \in Range(Propositions(adr)) : AuthoredBy(x, adr) /\ x.type # "extension"
<1>1. CASE adr.version = "1.6"
  <2>1. Propositions(adr) = Parts(adr, {"normative_proposition"})
    BY <1>1 DEF Propositions
  <2>2. /\ Parts(adr, {"normative_proposition"}) \in Seq(Items)
        /\ \A x \in Range(Parts(adr, {"normative_proposition"})) :
              AuthoredBy(x, adr) /\ x.type \in {"normative_proposition"}
    BY PartsAuthored
  <2> QED BY <2>1, <2>2
<1>2. CASE adr.version # "1.6"
  <2>1. Propositions(adr) = <<>>
    BY <1>2 DEF Propositions
  <2>2. <<>> \in Seq(Items) /\ Range(<<>>) = {}
    BY RangeOfEmpty
  <2> QED BY <2>1, <2>2
<1> QED BY <1>1, <1>2

(***************************************************************************)
(* The inductive invariant.  Own are the entities of the corpus, without   *)
(* the namespace marker; Core those that are no extension; Local those a   *)
(* reference can name in this model version.                               *)
(***************************************************************************)
Valid == {"assemble", "done"}

Own == IF pc \in Valid THEN DOMAIN entities \ {Marker} ELSE DOMAIN entities

Core == {id \in Own : entities[id].type # "extension"}

Typed == version \in {"2.2", "2.3"}

Local == IF Typed THEN Own ELSE Core

(* A typed topology is compiled from files of its own two lines.           *)
VersionInv == Typed => \A a \in ADRs : a.version \in {"1.5", "1.6"}

(* Every entity has its declaring file, and only files are typed as ADRs.  *)
SourceInv ==
    \A id \in Own : \E a \in ADRs :
        entities[id].adr = a.id /\ (entities[id].type = "adr" => id = a.id)

(* Extensions come last. *)
KindInv ==
    pc \in {"detect", "logical", "invariants", "physical", "propositions", "extensions"} =>
        \A id \in DOMAIN entities : entities[id].type # "extension"

(* What a pass has read is there: the files and the parts that author      *)
(* references.                                                             *)
Holds(a, types) == \A p \in Range(a.parts) : p.type \in types => p.id \in Core

LogicalInv ==
    pc \notin {"detect", "logical", "failed"} =>
        \A a \in ADRs : a.kind = "logical" =>
            a.id \in Core /\ Holds(a, {"capability", "contract", "decision"})

InvariantInv ==
    pc \notin {"detect", "logical", "invariants", "failed"} =>
        \A a \in ADRs : a.kind = "logical" => Holds(a, {"invariant"})

PhysicalInv ==
    pc \notin {"detect", "logical", "invariants", "physical", "failed"} =>
        \A a \in ADRs : a.kind # "logical" =>
            /\ a.id \in Core
            /\ a.kind = "component" => Holds(a, {"component", "implementation_decision"})

ReadInv == VersionInv /\ SourceInv /\ KindInv /\ LogicalInv /\ InvariantInv /\ PhysicalInv

(* Between the extension pass and derivation only extensions are related.  *)
ExtensionInv ==
    pc \in {"topology", "derive"} =>
        DOMAIN relations = Extended /\ \A key \in DOMAIN relations : relations[key].local

Sent == pc \in {"unresolved", "validate", "assemble", "done"}

IsGap(c) == Rule[c.field].missing = "gap"

(* The ends of a derived relation are local, an extension's are declared.  *)
EndsInv ==
    Sent => \A key \in DOMAIN relations :
        /\ relations[key].local \/ key[1] = "binds_rule"
        /\ key \in Extended \/ (key[2] \in Local /\ (relations[key].local => key[3] \in Local))

StatedInv ==
    Sent => \A a \in ADRs : \A c \in Range(a.claims) :
        IsGap(c) /\ Target(c) \in Local => ClaimKey(c) \in DOMAIN relations

MirrorInv ==
    Sent /\ PlainVerbs => \A key \in DOMAIN relations :
        key[1] \in DOMAIN Opposite => <<Opposite[key[1]], key[3], key[2]>> \in DOMAIN relations

ComposedInv ==
    Sent /\ PlainVerbs => \A key \in DOMAIN relations :
        key[1] = "composed_of" =>
            \E a \in ADRs : a.kind = "system" /\ \E m \in Range(a.members) : key = MemberKey(a, m)

DrawnInv ==
    Sent /\ version = "2.2" =>
        \A a \in ADRs : a.kind = "system" =>
            \A e \in Range(a.edges) : \A m, n \in Range(a.members) :
                m.handle = e.from /\ n.handle = e.to =>
                    <<e.verb, m.ref, n.ref>> \in DOMAIN relations

TopologyInv ==
    pc = "derive" /\ version = "2.2" => \A a \in ADRs : a.kind = "system" => LocalTopology(a)

DeclaredInv ==
    Sent =>
        /\ \A id \in Local : entities[id].type # "adr" /\ entities[id].adr \in Local =>
              <<"declared_in", id, entities[id].adr>> \in DOMAIN relations
        /\ PlainVerbs => \A key \in DOMAIN relations :
              key[1] = "declared_in" =>
                  key[2] \in Local /\ key = <<"declared_in", key[2], entities[key[2]].adr>>

RelationInv == /\ EndsInv /\ StatedInv /\ MirrorInv /\ ComposedInv
               /\ DrawnInv /\ TopologyInv /\ DeclaredInv /\ ExtensionInv

(* What is missing is recorded, and nothing else is but declared gaps.     *)
GapsInv ==
    pc = "unresolved" =>
        \A c : c \in Range(gaps) <=>
            \E a \in ADRs : c \in Range(a.claims) /\ IsGap(c) /\ Target(c) \notin Local

OwnGap(u) == u[1] = "UGAP" /\ \E a \in ADRs : u[2] = a.id

Record(c) == <<c.field, c.from, c.to>>

UnresolvedInv ==
    IF pc \in {"validate", "assemble", "done"}
    THEN /\ \A u \in unresolved : \/ OwnGap(u)
                                  \/ \E a \in ADRs : \E c \in Range(a.claims) :
                                        IsGap(c) /\ Target(c) \notin Local /\ u = Record(c)
         /\ \A a \in ADRs : \A c \in Range(a.claims) :
               IsGap(c) /\ Target(c) \notin Local => Record(c) \in unresolved
    ELSE pc # "failed" => \A u \in unresolved : OwnGap(u)

ValidInv ==
    pc \in Valid =>
        IF Typed
        THEN /\ Membership
             /\ \A key \in DOMAIN relations :
                   key[2] \in Own /\ (relations[key].local => key[3] \in Own)
        ELSE DOMAIN relations \cap Extended = {}

BundleInv == Done => bundle = Registries

IInv == /\ corpus \in Corpora
        /\ ReadInv /\ RelationInv /\ GapsInv /\ UnresolvedInv /\ ValidInv /\ BundleInv

-----------------------------------------------------------------------------
LEMMA CorpusFacts ==
    ASSUME corpus \in Corpora
    PROVE  /\ Len(corpus) \in Nat /\ DOMAIN corpus = 1 .. Len(corpus)
           /\ \A i \in 1 .. Len(corpus) : corpus[i] \in Document /\ Admissible(corpus[i])
           /\ ADRs = {corpus[i] : i \in 1 .. Len(corpus)}
           /\ \A a \in ADRs : a \in Document /\ Admissible(a)
<1>1. corpus \in Seq(Document) /\ \A i \in DOMAIN corpus : Admissible(corpus[i])
  BY CorpusAssumption
<1>2. Len(corpus) \in Nat /\ DOMAIN corpus = 1 .. Len(corpus)
  BY <1>1
<1>3. \A i \in 1 .. Len(corpus) : corpus[i] \in Document /\ Admissible(corpus[i])
  BY <1>1, <1>2, ElementOfSeq
<1>4. ADRs = {corpus[i] : i \in 1 .. Len(corpus)}
  BY <1>2 DEF ADRs, Range
<1> QED BY <1>2, <1>3, <1>4

(* The items of all the files, given the list of each. *)
LEMMA Gathered ==
    ASSUME corpus \in Corpora, NEW ss, ss = [i \in 1 .. Len(corpus) |-> ss[i]],
           \A i \in 1 .. Len(corpus) :
              ss[i] \in Seq(Items) /\ \A x \in Range(ss[i]) : AuthoredBy(x, corpus[i])
    PROVE  /\ FlattenSeq(ss) \in Seq(Items)
           /\ \A x \in Range(FlattenSeq(ss)) : \E a \in ADRs : AuthoredBy(x, a)
           /\ \A x : x \in Range(FlattenSeq(ss)) <=> \E i \in 1 .. Len(corpus) : x \in Range(ss[i])
<1>1. Len(corpus) \in Nat /\ ADRs = {corpus[i] : i \in 1 .. Len(corpus)}
  BY CorpusFacts
<1> DEFINE n == Len(corpus)
<1>2. n \in Nat /\ ss = [i \in 1 .. n |-> ss[i]] /\ \A i \in 1 .. n : ss[i] \in Seq(Items)
  BY <1>1
<1>3. /\ FlattenSeq(ss) \in Seq(Items)
      /\ \A x : x \in Range(FlattenSeq(ss)) <=> \E i \in 1 .. n : x \in Range(ss[i])
  <2> HIDE DEF n
  <2> QED BY <1>2, FlatMembers
<1>4. ASSUME NEW x \in Range(FlattenSeq(ss)) PROVE \E a \in ADRs : AuthoredBy(x, a)
  BY <1>1, <1>3
<1> QED BY <1>3, <1>4

(* What a pass that adds entities does to the graph. *)
LEMMA Growing ==
    ASSUME NEW items, Grows(items, entities, entities'), corpus' = corpus, version' = version,
           pc \notin Valid, pc' \notin Valid, SourceInv,
           \A x \in items : \E a \in ADRs : AuthoredBy(x, a)
    PROVE  /\ SourceInv'
           /\ \A id \in Core : id \in Core'
           /\ (/\ \A x \in items : x.type # "extension"
               /\ \A id \in DOMAIN entities : entities[id].type # "extension")
              => /\ \A id \in DOMAIN entities' : entities'[id].type # "extension"
                 /\ \A x \in items : x.id \in Core'
<1>1. Own = DOMAIN entities /\ Own' = DOMAIN entities' /\ ADRs' = ADRs
  BY DEF Own, ADRs
<1>2. /\ DOMAIN entities' = DOMAIN entities \cup {x.id : x \in items}
      /\ \A id \in DOMAIN entities : entities'[id] = entities[id]
      /\ \A id \in DOMAIN entities' \ DOMAIN entities :
            \E x \in items : x.id = id /\ entities'[id] = [type |-> x.type, adr |-> x.adr]
  BY DEF Grows
<1>3. ASSUME NEW id \in DOMAIN entities'
      PROVE  \E a \in ADRs : entities'[id].adr = a.id /\ (entities'[id].type = "adr" => id = a.id)
  <2>1. CASE id \in DOMAIN entities
    BY <1>1, <1>2, <2>1 DEF SourceInv
  <2>2. CASE id \notin DOMAIN entities
    <3>1. PICK x \in items : x.id = id /\ entities'[id] = [type |-> x.type, adr |-> x.adr]
      BY <1>2, <2>2
    <3>2. PICK a \in ADRs : AuthoredBy(x, a)
      OBVIOUS
    <3>3. entities'[id].type = x.type /\ entities'[id].adr = x.adr
      BY <3>1
    <3> QED BY <3>1, <3>2, <3>3 DEF AuthoredBy
  <2> QED BY <2>1, <2>2
<1>4. SourceInv'
  BY <1>1, <1>3 DEF SourceInv
<1>5. \A id \in Core : id \in Core'
  BY <1>1, <1>2 DEF Core
<1>6. ASSUME \A x \in items : x.type # "extension",
             \A id \in DOMAIN entities : entities[id].type # "extension"
      PROVE  /\ \A id \in DOMAIN entities' : entities'[id].type # "extension"
             /\ \A x \in items : x.id \in Core'
  <2>1. ASSUME NEW id \in DOMAIN entities' PROVE entities'[id].type # "extension"
    <3>1. CASE id \in DOMAIN entities
      BY <1>2, <1>6, <3>1
    <3>2. CASE id \notin DOMAIN entities
      <4>1. PICK x \in items : x.id = id /\ entities'[id] = [type |-> x.type, adr |-> x.adr]
        BY <1>2, <3>2
      <4>2. entities'[id].type = x.type
        BY <4>1
      <4> QED BY <1>6, <4>2
    <3> QED BY <3>1, <3>2
  <2> QED BY <1>1, <1>2, <2>1 DEF Core
<1> QED BY <1>2, <1>4, <1>5, <1>6

-----------------------------------------------------------------------------
(* A compilation that stops keeps what it had. *)
LEMMA Raised ==
    ASSUME IInv, pc \notin Valid, Raise
    PROVE  IInv'
<1>1. /\ pc' = "failed" /\ corpus' = corpus /\ version' = version /\ entities' = entities
      /\ unresolved' = unresolved
  BY DEF Raise
<1>2. Own' = Own /\ ADRs' = ADRs
  BY <1>1 DEF Own, Valid, ADRs
<1>3. ReadInv'
  BY <1>1, <1>2 DEF IInv, ReadInv, VersionInv, SourceInv, KindInv, LogicalInv, InvariantInv,
                    PhysicalInv, Typed
<1>4. RelationInv'
  BY <1>1 DEF RelationInv, EndsInv, StatedInv, MirrorInv, ComposedInv, DrawnInv, TopologyInv,
              DeclaredInv, ExtensionInv, Sent
<1>5. GapsInv' /\ UnresolvedInv' /\ ValidInv' /\ BundleInv'
  BY <1>1 DEF GapsInv, UnresolvedInv, ValidInv, BundleInv, Valid, Done
<1> QED BY <1>1, <1>3, <1>4, <1>5 DEF IInv

(* Before derivation most of the invariant says nothing. *)
LEMMA Quiet ==
    ASSUME pc' \in {"logical", "invariants", "physical", "propositions", "extensions"}
    PROVE  RelationInv' /\ GapsInv' /\ ValidInv' /\ BundleInv'
<1>1. RelationInv'
  BY DEF RelationInv, EndsInv, StatedInv, MirrorInv, ComposedInv, DrawnInv, TopologyInv,
         DeclaredInv, ExtensionInv, Sent
<1>2. GapsInv' /\ ValidInv' /\ BundleInv'
  BY DEF GapsInv, ValidInv, BundleInv, Valid, Done
<1> QED BY <1>1, <1>2

LEMMA SameUnresolved ==
    ASSUME IInv, corpus' = corpus, unresolved' = unresolved,
           pc \in {"detect", "logical", "invariants", "physical", "propositions", "extensions",
                   "topology", "derive"},
           pc' \in {"logical", "invariants", "physical", "propositions", "extensions",
                    "topology", "derive", "unresolved"}
    PROVE  UnresolvedInv'
<1>1. \A u \in unresolved : OwnGap(u)
  BY DEF IInv, UnresolvedInv
<1>2. \A u \in unresolved' : OwnGap(u)'
  BY <1>1 DEF OwnGap, ADRs
<1> QED BY <1>2 DEF UnresolvedInv

LEMMA LogicalStep ==
    ASSUME IInv, LogicalEntityExtraction
    PROVE  IInv'
<1> DEFINE n        == Len(corpus)
           ss       == [i \in 1 .. n |-> Logical(corpus[i])]
           items    == FlattenSeq([i \in DOMAIN corpus |-> Logical(corpus[i])])
           declared == FlattenSeq([i \in DOMAIN corpus |-> OfLogical(corpus[i], {"gap"})])
<1>1. CASE Raise
  BY <1>1, Raised DEF LogicalEntityExtraction, Valid
<1>2. CASE ~ Raise
  <2>1. /\ pc = "logical" /\ pc' = "invariants" /\ entities' = AddAll(items)
        /\ unresolved' = {Ugap(gap) : gap \in Range(declared)}
        /\ corpus' = corpus /\ version' = version
    BY <1>2 DEF LogicalEntityExtraction, Go
  <2>2. corpus \in Corpora /\ ReadInv
    BY DEF IInv
  <2>3. /\ DOMAIN corpus = 1 .. n /\ ADRs = {corpus[i] : i \in 1 .. n}
        /\ \A i \in 1 .. n : corpus[i] \in Document /\ Admissible(corpus[i])
    BY <2>2, CorpusFacts
  <2>4. items = FlattenSeq(ss)
    BY <2>3, Zenon
  <2>5. ss = [i \in 1 .. n |-> ss[i]] /\ \A i \in 1 .. n : ss[i] = Logical(corpus[i])
    OBVIOUS
  <2> HIDE DEF ss
  <2>6. \A i \in 1 .. n : /\ ss[i] \in Seq(Items)
                          /\ \A x \in Range(ss[i]) : AuthoredBy(x, corpus[i])
    BY <2>3, <2>5, LogicalItems
  <2>7. /\ items \in Seq(Items)
        /\ \A x \in Range(items) : \E a \in ADRs : AuthoredBy(x, a)
        /\ \A x : x \in Range(items) <=> \E i \in 1 .. n : x \in Range(ss[i])
    BY <2>2, <2>4, <2>5, <2>6, Gathered
  <2>8. \A x \in Range(items) : x.type # "extension"
    BY <2>3, <2>5, <2>7, LogicalItems
  <2>9. \A id \in DOMAIN entities : entities[id].type # "extension"
    BY <2>1, <2>2 DEF ReadInv, KindInv
  <2> HIDE DEF items
  <2>10. /\ SourceInv'
         /\ \A id \in DOMAIN entities' : entities'[id].type # "extension"
         /\ \A x \in Range(items) : x.id \in Core'
    <3>1. Grows(Range(items), entities, entities')
      BY <2>1, <2>7, AddingGrows
    <3>2. pc \notin Valid /\ pc' \notin Valid /\ SourceInv
      BY <2>1, <2>2 DEF Valid, ReadInv
    <3> QED BY <2>1, <2>7, <2>8, <2>9, <3>1, <3>2, Growing
  <2>11. ADRs' = ADRs
    BY <2>1 DEF ADRs
  <2>12. LogicalInv'
    <3>1. ASSUME NEW a \in ADRs, a.kind = "logical"
          PROVE  a.id \in Core' /\ Holds(a, {"capability", "contract", "decision"})'
      <4>1. PICK i \in 1 .. n : a = corpus[i]
        BY <2>3
      <4>2. \A x \in Range(Logical(a)) : x.id \in Core'
        BY <2>5, <2>7, <2>10, <4>1
      <4>3. /\ \E x \in Range(Logical(a)) : x.id = a.id
            /\ \A p \in Range(a.parts) :
                  p.type \in {"capability", "contract", "decision"} =>
                      \E x \in Range(Logical(a)) : x.id = p.id
        BY <2>3, <3>1, <4>1, LogicalItems
      <4> QED BY <4>2, <4>3 DEF Holds
    <3> QED BY <2>11, <3>1 DEF LogicalInv
  <2>13. ReadInv'
    <3>1. VersionInv' /\ KindInv'
      BY <2>1, <2>2, <2>10, <2>11 DEF ReadInv, VersionInv, KindInv, Typed
    <3>2. InvariantInv' /\ PhysicalInv'
      BY <2>1 DEF InvariantInv, PhysicalInv
    <3> QED BY <2>10, <2>12, <3>1, <3>2 DEF ReadInv
  <2>14. UnresolvedInv'
    <3> DEFINE ds == [i \in 1 .. n |-> OfLogical(corpus[i], {"gap"})]
    <3>1. declared = FlattenSeq(ds)
      BY <2>3, Zenon
    <3>2. ds = [i \in 1 .. n |-> ds[i]] /\ \A i \in 1 .. n : ds[i] = OfLogical(corpus[i], {"gap"})
      OBVIOUS
    <3> HIDE DEF ds
    <3>3. \A i \in 1 .. n : /\ ds[i] \in Seq(Items)
                            /\ \A x \in Range(ds[i]) : AuthoredBy(x, corpus[i])
      BY <2>3, <3>2, LogicalPartsAuthored
    <3>4. \A x \in Range(declared) : \E a \in ADRs : AuthoredBy(x, a)
      BY <2>2, <3>1, <3>2, <3>3, Gathered
    <3> HIDE DEF declared
    <3>5. ASSUME NEW u \in unresolved' PROVE OwnGap(u)'
      <4>1. PICK gap \in Range(declared) : u = Ugap(gap)
        BY <2>1
      <4>2. PICK a \in ADRs : AuthoredBy(gap, a)
        BY <3>4
      <4>3. u[1] = "UGAP" /\ u[2] = a.id
        BY <4>1, <4>2 DEF Ugap, AuthoredBy
      <4> QED BY <2>11, <4>3 DEF OwnGap
    <3> QED BY <2>1, <3>5 DEF UnresolvedInv
  <2>15. RelationInv' /\ GapsInv' /\ ValidInv' /\ BundleInv'
    BY <2>1, Quiet
  <2> QED BY <2>1, <2>2, <2>13, <2>14, <2>15 DEF IInv
<1> QED BY <1>1, <1>2

LEMMA InvariantStep ==
    ASSUME IInv, InvariantExtraction
    PROVE  IInv'
<1> DEFINE n     == Len(corpus)
           ss    == [i \in 1 .. n |-> OfLogical(corpus[i], {"invariant"})]
           items == FlattenSeq([i \in DOMAIN corpus |-> OfLogical(corpus[i], {"invariant"})])
<1>1. CASE Raise
  BY <1>1, Raised DEF InvariantExtraction, Valid
<1>2. CASE ~ Raise
  <2>1. /\ pc = "invariants" /\ pc' = "physical" /\ entities' = AddAll(items)
        /\ unresolved' = unresolved /\ corpus' = corpus /\ version' = version
    BY <1>2 DEF InvariantExtraction, Go
  <2>2. corpus \in Corpora /\ ReadInv
    BY DEF IInv
  <2>3. /\ DOMAIN corpus = 1 .. n /\ ADRs = {corpus[i] : i \in 1 .. n}
        /\ \A i \in 1 .. n : corpus[i] \in Document /\ Admissible(corpus[i])
    BY <2>2, CorpusFacts
  <2>4. items = FlattenSeq(ss)
    BY <2>3, Zenon
  <2>5. ss = [i \in 1 .. n |-> ss[i]] /\ \A i \in 1 .. n : ss[i] = OfLogical(corpus[i], {"invariant"})
    OBVIOUS
  <2> HIDE DEF ss
  <2>6. \A i \in 1 .. n : /\ ss[i] \in Seq(Items)
                          /\ \A x \in Range(ss[i]) : AuthoredBy(x, corpus[i])
    BY <2>3, <2>5, LogicalPartsAuthored
  <2>7. /\ items \in Seq(Items)
        /\ \A x \in Range(items) : \E a \in ADRs : AuthoredBy(x, a)
        /\ \A x : x \in Range(items) <=> \E i \in 1 .. n : x \in Range(ss[i])
    BY <2>2, <2>4, <2>5, <2>6, Gathered
  <2>8. \A x \in Range(items) : x.type # "extension"
    <3>1. \A i \in 1 .. n : \A x \in Range(ss[i]) : x.type \in {"invariant"}
      BY <2>3, <2>5, LogicalPartsAuthored
    <3> QED BY <2>7, <3>1
  <2>9. \A id \in DOMAIN entities : entities[id].type # "extension"
    BY <2>1, <2>2 DEF ReadInv, KindInv
  <2> HIDE DEF items
  <2>10. /\ SourceInv'
         /\ \A id \in Core : id \in Core'
         /\ \A id \in DOMAIN entities' : entities'[id].type # "extension"
         /\ \A x \in Range(items) : x.id \in Core'
    <3>1. Grows(Range(items), entities, entities')
      BY <2>1, <2>7, AddingGrows
    <3>2. pc \notin Valid /\ pc' \notin Valid /\ SourceInv
      BY <2>1, <2>2 DEF Valid, ReadInv
    <3> QED BY <2>1, <2>7, <2>8, <2>9, <3>1, <3>2, Growing
  <2>11. ADRs' = ADRs
    BY <2>1 DEF ADRs
  <2>12. LogicalInv'
    <3>1. LogicalInv
      BY <2>2 DEF ReadInv
    <3> QED BY <2>1, <2>10, <2>11, <3>1 DEF LogicalInv, Holds
  <2>13. InvariantInv'
    <3>1. ASSUME NEW a \in ADRs, a.kind = "logical" PROVE Holds(a, {"invariant"})'
      <4>1. PICK i \in 1 .. n : a = corpus[i]
        BY <2>3
      <4>2. \A x \in Range(ss[i]) : x.id \in Core'
        BY <2>7, <2>10
      <4>3. \A p \in Range(a.parts) : p.type \in {"invariant"} => \E x \in Range(ss[i]) : x.id = p.id
        BY <2>3, <2>5, <3>1, <4>1, LogicalPartsAuthored
      <4> QED BY <4>2, <4>3 DEF Holds
    <3> QED BY <2>11, <3>1 DEF InvariantInv
  <2>14. ReadInv'
    <3>1. VersionInv' /\ KindInv'
      BY <2>1, <2>2, <2>10, <2>11 DEF ReadInv, VersionInv, KindInv, Typed
    <3>2. PhysicalInv'
      BY <2>1 DEF PhysicalInv
    <3> QED BY <2>10, <2>12, <2>13, <3>1, <3>2 DEF ReadInv
  <2>15. UnresolvedInv' /\ RelationInv' /\ GapsInv' /\ ValidInv' /\ BundleInv'
    BY <2>1, Quiet, SameUnresolved
  <2> QED BY <2>1, <2>2, <2>14, <2>15 DEF IInv
<1> QED BY <1>1, <1>2

LEMMA PhysicalStep ==
    ASSUME IInv, PhysicalEntityExtraction
    PROVE  IInv'
<1> DEFINE n     == Len(corpus)
           ss    == [i \in 1 .. n |-> Physical(corpus[i])]
           items == FlattenSeq([i \in DOMAIN corpus |-> Physical(corpus[i])])
<1>1. CASE Raise
  BY <1>1, Raised DEF PhysicalEntityExtraction, Valid
<1>2. CASE ~ Raise
  <2>1. /\ pc = "physical" /\ pc' = "propositions" /\ entities' = AddAll(items)
        /\ unresolved' = unresolved /\ corpus' = corpus /\ version' = version
    BY <1>2 DEF PhysicalEntityExtraction, Go
  <2>2. corpus \in Corpora /\ ReadInv
    BY DEF IInv
  <2>3. /\ DOMAIN corpus = 1 .. n /\ ADRs = {corpus[i] : i \in 1 .. n}
        /\ \A i \in 1 .. n : corpus[i] \in Document /\ Admissible(corpus[i])
    BY <2>2, CorpusFacts
  <2>4. items = FlattenSeq(ss)
    BY <2>3, Zenon
  <2>5. ss = [i \in 1 .. n |-> ss[i]] /\ \A i \in 1 .. n : ss[i] = Physical(corpus[i])
    OBVIOUS
  <2> HIDE DEF ss
  <2>6. \A i \in 1 .. n : /\ ss[i] \in Seq(Items)
                          /\ \A x \in Range(ss[i]) : AuthoredBy(x, corpus[i])
    BY <2>3, <2>5, PhysicalItems
  <2>7. /\ items \in Seq(Items)
        /\ \A x \in Range(items) : \E a \in ADRs : AuthoredBy(x, a)
        /\ \A x : x \in Range(items) <=> \E i \in 1 .. n : x \in Range(ss[i])
    BY <2>2, <2>4, <2>5, <2>6, Gathered
  <2>8. \A x \in Range(items) : x.type # "extension"
    BY <2>3, <2>5, <2>7, PhysicalItems
  <2>9. \A id \in DOMAIN entities : entities[id].type # "extension"
    BY <2>1, <2>2 DEF ReadInv, KindInv
  <2> HIDE DEF items
  <2>10. /\ SourceInv'
         /\ \A id \in Core : id \in Core'
         /\ \A id \in DOMAIN entities' : entities'[id].type # "extension"
         /\ \A x \in Range(items) : x.id \in Core'
    <3>1. Grows(Range(items), entities, entities')
      BY <2>1, <2>7, AddingGrows
    <3>2. pc \notin Valid /\ pc' \notin Valid /\ SourceInv
      BY <2>1, <2>2 DEF Valid, ReadInv
    <3> QED BY <2>1, <2>7, <2>8, <2>9, <3>1, <3>2, Growing
  <2>11. ADRs' = ADRs
    BY <2>1 DEF ADRs
  <2>12. LogicalInv' /\ InvariantInv'
    <3>1. LogicalInv /\ InvariantInv
      BY <2>2 DEF ReadInv
    <3>2. LogicalInv'
      BY <2>1, <2>10, <2>11, <3>1 DEF LogicalInv, Holds
    <3>3. InvariantInv'
      BY <2>1, <2>10, <2>11, <3>1 DEF InvariantInv, Holds
    <3> QED BY <3>2, <3>3
  <2>13. PhysicalInv'
    <3>1. ASSUME NEW a \in ADRs, a.kind # "logical"
          PROVE  /\ a.id \in Core'
                 /\ a.kind = "component" => Holds(a, {"component", "implementation_decision"})'
      <4>1. PICK i \in 1 .. n : a = corpus[i]
        BY <2>3
      <4>2. \A x \in Range(Physical(a)) : x.id \in Core'
        BY <2>5, <2>7, <2>10, <4>1
      <4>3. /\ \E x \in Range(Physical(a)) : x.id = a.id
            /\ a.kind = "component" =>
                  \A p \in Range(a.parts) :
                     p.type \in {"component", "implementation_decision"} =>
                         \E x \in Range(Physical(a)) : x.id = p.id
        BY <2>3, <3>1, <4>1, PhysicalItems
      <4> QED BY <4>2, <4>3 DEF Holds
    <3> QED BY <2>11, <3>1 DEF PhysicalInv
  <2>14. ReadInv'
    <3>1. VersionInv' /\ KindInv'
      BY <2>1, <2>2, <2>10, <2>11 DEF ReadInv, VersionInv, KindInv, Typed
    <3> QED BY <2>10, <2>12, <2>13, <3>1 DEF ReadInv
  <2>15. UnresolvedInv' /\ RelationInv' /\ GapsInv' /\ ValidInv' /\ BundleInv'
    BY <2>1, Quiet, SameUnresolved
  <2> QED BY <2>1, <2>2, <2>14, <2>15 DEF IInv
<1> QED BY <1>1, <1>2

(* The later passes lose no source. *)
LEMMA SourcesKept ==
    ASSUME ReadInv, ADRs' = ADRs, \A id \in Core : id \in Core',
           pc \notin {"detect", "logical", "invariants", "physical", "failed"}
    PROVE  LogicalInv' /\ InvariantInv' /\ PhysicalInv'
<1>1. LogicalInv /\ InvariantInv /\ PhysicalInv
  BY DEF ReadInv
<1>2. LogicalInv'
  BY <1>1 DEF LogicalInv, Holds
<1>3. InvariantInv'
  BY <1>1 DEF InvariantInv, Holds
<1>4. PhysicalInv'
  BY <1>1 DEF PhysicalInv, Holds
<1> QED BY <1>2, <1>3, <1>4

LEMMA PropositionStep ==
    ASSUME IInv, NormativePropositionExtraction
    PROVE  IInv'
<1> DEFINE n     == Len(corpus)
           ss    == [i \in 1 .. n |-> Propositions(corpus[i])]
           items == FlattenSeq([i \in DOMAIN corpus |-> Propositions(corpus[i])])
<1>1. CASE Raise
  BY <1>1, Raised DEF NormativePropositionExtraction, Valid
<1>2. CASE ~ Raise
  <2>1. /\ pc = "propositions" /\ pc' = "extensions" /\ entities' = AddAll(items)
        /\ unresolved' = unresolved /\ corpus' = corpus /\ version' = version
    BY <1>2 DEF NormativePropositionExtraction, Go
  <2>2. corpus \in Corpora /\ ReadInv
    BY DEF IInv
  <2>3. /\ DOMAIN corpus = 1 .. n /\ ADRs = {corpus[i] : i \in 1 .. n}
        /\ \A i \in 1 .. n : corpus[i] \in Document /\ Admissible(corpus[i])
    BY <2>2, CorpusFacts
  <2>4. items = FlattenSeq(ss)
    BY <2>3, Zenon
  <2>5. ss = [i \in 1 .. n |-> ss[i]] /\ \A i \in 1 .. n : ss[i] = Propositions(corpus[i])
    OBVIOUS
  <2> HIDE DEF ss
  <2>6. \A i \in 1 .. n : /\ ss[i] \in Seq(Items)
                          /\ \A x \in Range(ss[i]) : AuthoredBy(x, corpus[i])
    BY <2>3, <2>5, PropositionItems
  <2>7. /\ items \in Seq(Items)
        /\ \A x \in Range(items) : \E a \in ADRs : AuthoredBy(x, a)
        /\ \A x : x \in Range(items) <=> \E i \in 1 .. n : x \in Range(ss[i])
    BY <2>2, <2>4, <2>5, <2>6, Gathered
  <2>8. \A x \in Range(items) : x.type # "extension"
    BY <2>3, <2>5, <2>7, PropositionItems
  <2>9. \A id \in DOMAIN entities : entities[id].type # "extension"
    BY <2>1, <2>2 DEF ReadInv, KindInv
  <2> HIDE DEF items
  <2>10. /\ SourceInv'
         /\ \A id \in Core : id \in Core'
         /\ \A id \in DOMAIN entities' : entities'[id].type # "extension"
    <3>1. Grows(Range(items), entities, entities')
      BY <2>1, <2>7, AddingGrows
    <3>2. pc \notin Valid /\ pc' \notin Valid /\ SourceInv
      BY <2>1, <2>2 DEF Valid, ReadInv
    <3> QED BY <2>1, <2>7, <2>8, <2>9, <3>1, <3>2, Growing
  <2>11. ADRs' = ADRs
    BY <2>1 DEF ADRs
  <2>12. LogicalInv' /\ InvariantInv' /\ PhysicalInv'
    BY <2>1, <2>2, <2>10, <2>11, SourcesKept
  <2>13. ReadInv'
    <3>1. VersionInv' /\ KindInv'
      BY <2>1, <2>2, <2>10, <2>11 DEF ReadInv, VersionInv, KindInv, Typed
    <3> QED BY <2>10, <2>12, <3>1 DEF ReadInv
  <2>14. UnresolvedInv' /\ RelationInv' /\ GapsInv' /\ ValidInv' /\ BundleInv'
    BY <2>1, Quiet, SameUnresolved
  <2> QED BY <2>1, <2>2, <2>13, <2>14 DEF IInv
<1> QED BY <1>1, <1>2

LEMMA ExtensionStep ==
    ASSUME IInv, ExtensionEntityExtraction
    PROVE  IInv'
<1> DEFINE n     == Len(corpus)
           ss    == [i \in 1 .. n |-> Parts(corpus[i], {"extension"})]
           items == FlattenSeq([i \in DOMAIN corpus |-> Parts(corpus[i], {"extension"})])
<1>1. CASE Raise
  BY <1>1, Raised DEF ExtensionEntityExtraction, Valid
<1>2. CASE ~ Raise
  <2>1. /\ pc = "extensions" /\ pc' = "topology" /\ entities' = AddAll(items)
        /\ relations' = [key \in Extended |-> Relation(Extender(key), "explicit", TRUE)]
        /\ unresolved' = unresolved /\ corpus' = corpus /\ version' = version
    BY <1>2 DEF ExtensionEntityExtraction, Go
  <2>2. corpus \in Corpora /\ ReadInv
    BY DEF IInv
  <2>3. /\ DOMAIN corpus = 1 .. n /\ ADRs = {corpus[i] : i \in 1 .. n}
        /\ \A i \in 1 .. n : corpus[i] \in Document /\ Admissible(corpus[i])
    BY <2>2, CorpusFacts
  <2>4. items = FlattenSeq(ss)
    BY <2>3, Zenon
  <2>5. ss = [i \in 1 .. n |-> ss[i]] /\ \A i \in 1 .. n : ss[i] = Parts(corpus[i], {"extension"})
    OBVIOUS
  <2> HIDE DEF ss
  <2>6. \A i \in 1 .. n : /\ ss[i] \in Seq(Items)
                          /\ \A x \in Range(ss[i]) : AuthoredBy(x, corpus[i])
    BY <2>3, <2>5, PartsAuthored
  <2>7. /\ items \in Seq(Items)
        /\ \A x \in Range(items) : \E a \in ADRs : AuthoredBy(x, a)
    BY <2>2, <2>4, <2>5, <2>6, Gathered
  <2> HIDE DEF items
  <2>8. /\ SourceInv'
        /\ \A id \in Core : id \in Core'
    <3>1. Grows(Range(items), entities, entities')
      BY <2>1, <2>7, AddingGrows
    <3>2. pc \notin Valid /\ pc' \notin Valid /\ SourceInv
      BY <2>1, <2>2 DEF Valid, ReadInv
    <3> QED BY <2>1, <2>7, <3>1, <3>2, Growing
  <2>9. ADRs' = ADRs
    BY <2>1 DEF ADRs
  <2>10. ReadInv'
    <3>1. VersionInv' /\ KindInv'
      BY <2>1, <2>2, <2>9 DEF ReadInv, VersionInv, KindInv, Typed
    <3>2. LogicalInv' /\ InvariantInv' /\ PhysicalInv'
      BY <2>1, <2>2, <2>8, <2>9, SourcesKept
    <3> QED BY <2>8, <3>1, <3>2 DEF ReadInv
  <2>11. RelationInv'
    <3>1. Extended' = Extended
      BY <2>9 DEF Extended
    <3>2. DOMAIN relations' = Extended /\ \A key \in Extended : relations'[key].local
      BY <2>1 DEF Relation
    <3>3. ExtensionInv'
      BY <3>1, <3>2 DEF ExtensionInv
    <3>4. EndsInv' /\ StatedInv' /\ MirrorInv' /\ ComposedInv' /\ DrawnInv' /\ TopologyInv' /\ DeclaredInv'
      BY <2>1 DEF EndsInv, StatedInv, MirrorInv, ComposedInv, DrawnInv, TopologyInv, DeclaredInv, Sent
    <3> QED BY <3>3, <3>4 DEF RelationInv
  <2>12. GapsInv' /\ ValidInv' /\ BundleInv'
    BY <2>1 DEF GapsInv, ValidInv, BundleInv, Valid, Done
  <2>13. UnresolvedInv'
    BY <2>1, SameUnresolved
  <2> QED BY <2>1, <2>2, <2>10, <2>11, <2>12, <2>13 DEF IInv
<1> QED BY <1>1, <1>2

LEMMA DetectStep ==
    ASSUME IInv, VersionDetection
    PROVE  IInv'
<1> DEFINE versions == {a.version : a \in ADRs}
           modern   == versions \cap DOMAIN Line
<1>1. CASE Raise
  BY <1>1, Raised DEF VersionDetection, Valid
<1>2. CASE ~ Raise
  <2>1. /\ pc = "detect" /\ pc' = "logical" /\ corpus' = corpus
        /\ entities' = entities /\ unresolved' = unresolved
        /\ version' = IF modern = {} THEN "1.1" ELSE Line[CHOOSE v \in modern : TRUE]
        /\ modern = {} \/ (versions = modern /\ ~ (Cardinality(modern) > 1))
    BY <1>2 DEF VersionDetection, Go
  <2>2. corpus \in Corpora /\ ReadInv
    BY DEF IInv
  <2>3. ADRs' = ADRs /\ Own' = Own /\ Core' = Core
    BY <2>1 DEF ADRs, Own, Valid, Core
  <2>4. VersionInv'
    <3>1. SUFFICES ASSUME version' \in {"2.2", "2.3"}, NEW a \in ADRs
                   PROVE  a.version \in {"1.5", "1.6"}
      BY <2>3 DEF VersionInv, Typed
    <3> DEFINE v == CHOOSE w \in modern : TRUE
    <3>2. modern # {}
      BY <2>1, <3>1
    <3>3. v \in modern /\ version' = Line[v]
      BY <2>1, <3>2
    <3>4. DOMAIN Line = {"1.3", "1.4", "1.5", "1.6"}
      BY DEF Line
    <3>5. a.version \in modern /\ modern \subseteq DOMAIN Line
      BY <2>1, <3>2
    <3> HIDE DEF modern, v
    <3>6. a.version = v
      <4>1. SUFFICES ASSUME a.version # v PROVE FALSE
        OBVIOUS
      <4>2. IsFiniteSet({"1.3", "1.4", "1.5", "1.6"})
        <5>1. IsFiniteSet({"1.3"})
          BY FS_Singleton
        <5>2. IsFiniteSet({"1.3"} \cup {"1.4"})
          BY <5>1, FS_AddElement
        <5>3. IsFiniteSet(({"1.3"} \cup {"1.4"}) \cup {"1.5"})
          BY <5>2, FS_AddElement
        <5>4. IsFiniteSet((({"1.3"} \cup {"1.4"}) \cup {"1.5"}) \cup {"1.6"})
          BY <5>3, FS_AddElement
        <5>5. (({"1.3"} \cup {"1.4"}) \cup {"1.5"}) \cup {"1.6"} = {"1.3", "1.4", "1.5", "1.6"}
          OBVIOUS
        <5> QED BY <5>4, <5>5, Zenon
      <4>3. IsFiniteSet(modern) /\ Cardinality(modern) \in Nat
        BY <3>4, <3>5, <4>2, FS_Subset, FS_CardinalityType
      <4>4. {v, a.version} \subseteq modern
        BY <3>3, <3>5
      <4>5. Cardinality({v, a.version}) <= Cardinality(modern)
        BY <4>3, <4>4, FS_Subset
      <4>6. Cardinality({v, a.version}) = 2
        <5>1. IsFiniteSet({v}) /\ Cardinality({v}) = 1
          BY FS_Singleton
        <5>2. Cardinality({v} \cup {a.version}) = Cardinality({v}) + 1
          BY <4>1, <5>1, FS_AddElement
        <5> QED BY <5>1, <5>2
      <4> QED BY <2>1, <3>2, <4>3, <4>5, <4>6
    <3>7. v \in {"1.3", "1.4"} => Line[v] \in {"2.0", "2.1"}
      BY DEF Line
    <3> QED BY <3>1, <3>3, <3>4, <3>5, <3>6, <3>7
  <2>5. ReadInv'
    <3>1. SourceInv' /\ KindInv'
      BY <2>1, <2>2, <2>3 DEF ReadInv, SourceInv, KindInv
    <3>2. LogicalInv' /\ InvariantInv' /\ PhysicalInv'
      BY <2>1 DEF LogicalInv, InvariantInv, PhysicalInv
    <3> QED BY <2>4, <3>1, <3>2 DEF ReadInv
  <2>6. UnresolvedInv' /\ RelationInv' /\ GapsInv' /\ ValidInv' /\ BundleInv'
    BY <2>1, Quiet, SameUnresolved
  <2> QED BY <2>1, <2>2, <2>5, <2>6 DEF IInv
<1> QED BY <1>1, <1>2

LEMMA TopologyStep ==
    ASSUME IInv, TopologyResolution
    PROVE  IInv'
<1>1. CASE Raise
  BY <1>1, Raised DEF TopologyResolution, Valid
<1>2. CASE ~ Raise
  <2>1. /\ pc = "topology" /\ pc' = "derive" /\ corpus' = corpus /\ version' = version
        /\ entities' = entities /\ relations' = relations /\ unresolved' = unresolved
        /\ version = "2.2" => \A a \in ADRs : a.kind = "system" => LocalTopology(a)
    BY <1>2 DEF TopologyResolution, Go
  <2>2. corpus \in Corpora /\ ReadInv
    BY DEF IInv
  <2>3. ADRs' = ADRs /\ Own' = Own /\ Core' = Core /\ Extended' = Extended
    BY <2>1 DEF ADRs, Own, Valid, Core, Extended
  <2>4. ReadInv'
    <3>1. VersionInv' /\ SourceInv' /\ KindInv'
      BY <2>1, <2>2, <2>3 DEF ReadInv, VersionInv, SourceInv, KindInv, Typed
    <3>2. LogicalInv' /\ InvariantInv' /\ PhysicalInv'
      BY <2>1, <2>2, <2>3, SourcesKept
    <3> QED BY <3>1, <3>2 DEF ReadInv
  <2>5. RelationInv'
    <3>1. ExtensionInv'
      BY <2>1, <2>3 DEF IInv, RelationInv, ExtensionInv
    <3>2. TopologyInv'
      BY <2>1, <2>3 DEF TopologyInv, LocalTopology, Handles
    <3>3. EndsInv' /\ StatedInv' /\ MirrorInv' /\ ComposedInv' /\ DrawnInv' /\ DeclaredInv'
      BY <2>1 DEF EndsInv, StatedInv, MirrorInv, ComposedInv, DrawnInv, DeclaredInv, Sent
    <3> QED BY <3>1, <3>2, <3>3 DEF RelationInv
  <2>6. GapsInv' /\ ValidInv' /\ BundleInv'
    BY <2>1 DEF GapsInv, ValidInv, BundleInv, Valid, Done
  <2>7. UnresolvedInv'
    BY <2>1, SameUnresolved
  <2> QED BY <2>1, <2>2, <2>4, <2>5, <2>6, <2>7 DEF IInv
<1> QED BY <1>1, <1>2

-----------------------------------------------------------------------------
(* The table of the fields, as derivation uses it. *)
LEMMA Fields ==
    /\ Field = {"related_adrs", "supersedes", "superseded_by", "implemented_by_components", "parties",
                "enforces_invariants", "enables_capabilities", "governs_components", "refines",
                "affected_entities", "rule_bindings", "implements_logical", "interfaces",
                "implements_capabilities", "implements_system", "dependencies",
                "implements_invariants", "references_components"}
    /\ "UGAP" \notin Field
<1>1. DOMAIN LogicalRule = {"related_adrs", "supersedes", "superseded_by",
                            "implemented_by_components", "parties", "enforces_invariants",
                            "enables_capabilities", "governs_components", "refines"}
  BY DEF LogicalRule
<1>2. DOMAIN BindingRule = {"affected_entities", "rule_bindings"}
  BY DEF BindingRule
<1>3. DOMAIN PhysicalRule = {"implements_logical", "interfaces", "implements_capabilities",
                             "implements_system", "dependencies", "implements_invariants",
                             "references_components"}
  BY DEF PhysicalRule
<1> QED BY <1>1, <1>2, <1>3 DEF Field

(* A rule that has an inverse is the inverse of its inverse's. *)
Pairs(r) ==
    /\ r.missing = "external" <=> r.type = "binds_rule"
    /\ r.type \in DOMAIN Opposite => r.back = Opposite[r.type]
    /\ r.back # "" => /\ r.back \in DOMAIN Opposite /\ Opposite[r.back] = r.type
                      /\ ~ r.swap /\ r.missing \notin {"external", "raise"}
    /\ {r.type, r.back} \cap {"composed_of", "declared_in"} = {}

LEMMA Opposites ==
    /\ DOMAIN Opposite = {"supersedes", "superseded_by", "enables", "enabled_by"}
    /\ Opposite["supersedes"] = "superseded_by" /\ Opposite["superseded_by"] = "supersedes"
    /\ Opposite["enables"] = "enabled_by" /\ Opposite["enabled_by"] = "enables"
  BY DEF Opposite

LEMMA Lone ==
    ASSUME NEW type, NEW missing, type \notin DOMAIN Opposite,
           type \notin {"composed_of", "declared_in"},
           missing = "external" <=> type = "binds_rule"
    PROVE  /\ Pairs(To(type, missing))
           /\ type # "binds_rule" => Pairs(Weak(type))
           /\ Pairs([To(type, missing) EXCEPT !.swap = TRUE])
<1>1. /\ To(type, missing).type = type /\ To(type, missing).back = ""
      /\ To(type, missing).missing = missing
  BY DEF To
<1>2. /\ Weak(type).type = type /\ Weak(type).back = "" /\ Weak(type).missing = "drop"
  BY DEF To, Weak
<1> DEFINE r == [To(type, missing) EXCEPT !.swap = TRUE]
<1>3. r.type = type /\ r.back = "" /\ r.missing = missing
  BY DEF To
<1> HIDE DEF r
<1>4. Pairs(To(type, missing))
  BY <1>1 DEF Pairs
<1>5. type # "binds_rule" => Pairs(Weak(type))
  BY <1>2 DEF Pairs
<1>6. Pairs(r)
  BY <1>3 DEF Pairs
<1> QED BY <1>4, <1>5, <1>6 DEF r

LEMMA Coupled ==
    ASSUME NEW type \in DOMAIN Opposite, NEW missing, missing \notin {"external", "raise"}
    PROVE  Pairs(Both(type, Opposite[type], missing))
<1> DEFINE r == Both(type, Opposite[type], missing)
<1>1. /\ r.type = type /\ r.back = Opposite[type] /\ r.missing = missing /\ r.swap = FALSE
  BY DEF Both, To
<1> HIDE DEF r
<1> QED BY <1>1, Opposites DEF Pairs, r

LEMMA RuleTable ==
    /\ Rule["supersedes"] = Both("supersedes", "superseded_by", "drop")
    /\ Rule["superseded_by"] = Both("superseded_by", "supersedes", "drop")
    /\ Rule["enables_capabilities"] = Both("enables", "enabled_by", "gap")
    /\ Rule["related_adrs"] = To("references", "drop")
    /\ Rule["implemented_by_components"] = To("implemented_by", "gap")
    /\ Rule["parties"] = To("related_to", "drop")
    /\ Rule["enforces_invariants"] = To("enforces", "gap")
    /\ Rule["governs_components"] = To("governs", "drop")
    /\ Rule["refines"] = To("refines", "drop")
    /\ Rule["affected_entities"] = To("", "raise")
    /\ Rule["rule_bindings"] = To("binds_rule", "external")
    /\ Rule["implements_logical"] = To("implements_logical", "drop")
    /\ Rule["interfaces"] = To("provides_interface", "drop")
    /\ Rule["implements_capabilities"] = [To("implemented_by", "gap") EXCEPT !.swap = TRUE]
    /\ Rule["implements_system"] = To("embodied_in", "gap")
    /\ Rule["dependencies"] = Weak("related_to")
    /\ Rule["implements_invariants"] = To("enforces", "drop")
    /\ Rule["references_components"] = Weak("related_to")
<1>1. /\ Rule["supersedes"] = Both("supersedes", "superseded_by", "drop")
      /\ Rule["superseded_by"] = Both("superseded_by", "supersedes", "drop")
      /\ Rule["enables_capabilities"] = Both("enables", "enabled_by", "gap")
      /\ Rule["related_adrs"] = To("references", "drop")
      /\ Rule["implemented_by_components"] = To("implemented_by", "gap")
      /\ Rule["parties"] = To("related_to", "drop")
      /\ Rule["enforces_invariants"] = To("enforces", "gap")
      /\ Rule["governs_components"] = To("governs", "drop")
      /\ Rule["refines"] = To("refines", "drop")
  BY Fields DEF Rule, LogicalRule
<1>2. /\ Rule["affected_entities"] = To("", "raise")
      /\ Rule["rule_bindings"] = To("binds_rule", "external")
  BY Fields DEF Rule, LogicalRule, BindingRule
<1>3. /\ Rule["implements_logical"] = To("implements_logical", "drop")
      /\ Rule["interfaces"] = To("provides_interface", "drop")
      /\ Rule["implements_capabilities"] = [To("implemented_by", "gap") EXCEPT !.swap = TRUE]
      /\ Rule["implements_system"] = To("embodied_in", "gap")
      /\ Rule["dependencies"] = Weak("related_to")
      /\ Rule["implements_invariants"] = To("enforces", "drop")
      /\ Rule["references_components"] = Weak("related_to")
  BY Fields DEF Rule, LogicalRule, BindingRule, PhysicalRule
<1> QED BY <1>1, <1>2, <1>3

LEMMA RulesPair == \A f \in Field : Pairs(Rule[f])
<1>1. \A f \in {"supersedes", "superseded_by", "enables_capabilities"} : Pairs(Rule[f])
  <2>1. Pairs(Both("supersedes", "superseded_by", "drop"))
    BY Opposites, Coupled
  <2>2. Pairs(Both("superseded_by", "supersedes", "drop"))
    BY Opposites, Coupled
  <2>3. Pairs(Both("enables", "enabled_by", "gap"))
    BY Opposites, Coupled
  <2> QED BY <2>1, <2>2, <2>3, RuleTable
<1>2. Pairs(To("references", "drop")) /\ Pairs(To("related_to", "drop"))
  BY Opposites, Lone
<1>3. Pairs(To("implemented_by", "gap")) /\ Pairs([To("implemented_by", "gap") EXCEPT !.swap = TRUE])
  <2> DEFINE type == "implemented_by"
  <2>1. type \notin DOMAIN Opposite /\ type \notin {"composed_of", "declared_in"}
    BY Opposites
  <2>2. /\ Pairs(To(type, "gap")) /\ Pairs([To(type, "gap") EXCEPT !.swap = TRUE])
    BY <2>1, Lone, Zenon
  <2> QED BY <2>2
<1>4. Pairs(To("enforces", "gap")) /\ Pairs(To("enforces", "drop"))
  BY Opposites, Lone
<1>5. Pairs(To("governs", "drop")) /\ Pairs(To("refines", "drop"))
  BY Opposites, Lone
<1>6. Pairs(To("", "raise")) /\ Pairs(To("binds_rule", "external"))
  BY Opposites, Lone
<1>7. Pairs(To("implements_logical", "drop")) /\ Pairs(To("provides_interface", "drop"))
  BY Opposites, Lone
<1>8. Pairs(To("embodied_in", "gap")) /\ Pairs(Weak("related_to"))
  BY Opposites, Lone
<1>9. \A f \in Field : \/ f \in {"supersedes", "superseded_by", "enables_capabilities"}
                       \/ f \in {"related_adrs", "implemented_by_components", "parties",
                                 "enforces_invariants", "governs_components", "refines",
                                 "affected_entities", "rule_bindings"}
                       \/ f \in {"implements_logical", "interfaces", "implements_capabilities",
                                 "implements_system", "dependencies", "implements_invariants",
                                 "references_components"}
  BY Fields
<1>10. \A f \in {"related_adrs", "implemented_by_components", "parties", "enforces_invariants",
                 "governs_components", "refines", "affected_entities", "rule_bindings"} : Pairs(Rule[f])
  BY <1>2, <1>3, <1>4, <1>5, <1>6, RuleTable
<1>11. \A f \in {"implements_logical", "interfaces", "implements_capabilities", "implements_system",
                 "dependencies", "implements_invariants", "references_components"} : Pairs(Rule[f])
  BY <1>2, <1>3, <1>4, <1>7, <1>8, RuleTable
<1> QED BY <1>1, <1>9, <1>10, <1>11

(* Membership is claimed by one field, whose relation is read as it stands. *)
LEMMA SystemRule ==
    /\ "implements_system" \in Field /\ Rule["implements_system"].missing = "gap"
    /\ Rule["implements_system"].type = "embodied_in" /\ ~ Rule["implements_system"].swap
<1>1. To("embodied_in", "gap").missing = "gap" /\ To("embodied_in", "gap").type = "embodied_in"
      /\ ~ To("embodied_in", "gap").swap
  BY DEF To
<1> QED BY <1>1, RuleTable, Fields

LEMMA TypesOfTheCore ==
    /\ \A f \in Field : Rule[f].type \in CoreTypes /\ Rule[f].back \in CoreTypes
    /\ {"declared_in", "composed_of"} \subseteq CoreTypes
    /\ DOMAIN Opposite \subseteq CoreTypes
<1>1. \A f \in Field : Rule[f].type \in CoreTypes /\ Rule[f].back \in CoreTypes
  BY DEF CoreTypes
<1>2. {"declared_in", "composed_of"} \subseteq CoreTypes
  BY DEF CoreTypes
<1>3. /\ Both("supersedes", "superseded_by", "drop").type = "supersedes"
      /\ Both("supersedes", "superseded_by", "drop").back = "superseded_by"
      /\ Both("enables", "enabled_by", "gap").type = "enables"
      /\ Both("enables", "enabled_by", "gap").back = "enabled_by"
  BY DEF Both, To
<1>4. \A t \in DOMAIN Opposite : t \in CoreTypes
  <2>1. "supersedes" \in CoreTypes /\ "superseded_by" \in CoreTypes
    <3>1. "supersedes" \in Field /\ Rule["supersedes"] = Both("supersedes", "superseded_by", "drop")
      BY RuleTable, Fields
    <3> QED BY <1>1, <1>3, <3>1
  <2>2. "enables" \in CoreTypes /\ "enabled_by" \in CoreTypes
    <3>1. "enables_capabilities" \in Field
          /\ Rule["enables_capabilities"] = Both("enables", "enabled_by", "gap")
      BY RuleTable, Fields
    <3> QED BY <1>1, <1>3, <3>1
  <2> QED BY <2>1, <2>2, Opposites
<1> QED BY <1>1, <1>2, <1>4

(***************************************************************************)
(* What an ADR states: the relations of its claims, of the members of its  *)
(* topology, and of the edges between components that are named.           *)
(***************************************************************************)
MemberEdge(adr, m) == Edge(MemberKey(adr, m), adr.id, "explicit", TRUE)

DrawnEdge(adr, e) == Edge(EdgeKey(adr, e), adr.id, "explicit", TRUE)

Sayable(adr) == {Straight(adr, c) : c \in Range(adr.claims)}
                \cup {Converse(adr, c) : c \in Range(adr.claims)}
                \cup {MemberEdge(adr, m) : m \in Range(adr.members)}
                \cup {DrawnEdge(adr, e) : e \in Range(adr.edges)}

SaidByClaim(x, adr, c) ==
    IsStated(c) /\ (x = Straight(adr, c) \/ (Rule[c.field].back # "" /\ x = Converse(adr, c)))

IsNamed(adr, e) == NoRef \notin {Named(adr, e.from), Named(adr, e.to)}

Says(x, adr) ==
    \/ \E c \in Range(adr.claims) : SaidByClaim(x, adr, c)
    \/ adr.kind = "system" /\ \E m \in Range(adr.members) : x = MemberEdge(adr, m)
    \/ adr.kind = "system" /\ \E e \in Range(adr.edges) : IsNamed(adr, e) /\ x = DrawnEdge(adr, e)

LEMMA SaidOfClaim ==
    ASSUME NEW adr, NEW c \in Range(adr.claims), NEW S,
           Straight(adr, c) \in S, Converse(adr, c) \in S
    PROVE  /\ OfClaim(adr, c) \in Seq(S)
           /\ \A x : x \in Range(OfClaim(adr, c)) <=> SaidByClaim(x, adr, c)
<1> DEFINE v == Straight(adr, c)
           w == Converse(adr, c)
           one == IsStated(c)
           two == IsStated(c) /\ Rule[c.field].back # ""
<1>1. one \in BOOLEAN /\ two \in BOOLEAN
  BY DEF IsStated
<1>2. OfClaim(adr, c) = When(one, v) \o When(two, w)
  BY Zenon DEF OfClaim
<1>3. \A x : SaidByClaim(x, adr, c) <=> (one /\ x = v) \/ (two /\ x = w)
  BY Zenon DEF SaidByClaim
<1>4. v \in S /\ w \in S
  OBVIOUS
<1> HIDE DEF v, w, one, two
<1>5. When(one, v) \in Seq(S) /\ \A x : x \in Range(When(one, v)) <=> one /\ x = v
  BY <1>1, <1>4, RangeOfWhen
<1>6. When(two, w) \in Seq(S) /\ \A x : x \in Range(When(two, w)) <=> two /\ x = w
  BY <1>1, <1>4, RangeOfWhen
<1> DEFINE s == When(one, v)
           t == When(two, w)
<1>7. s \in Seq(S) /\ t \in Seq(S)
  BY <1>5, <1>6
<1> HIDE DEF s, t
<1>8. s \o t \in Seq(S) /\ Range(s \o t) = Range(s) \cup Range(t)
  BY <1>7, RangeOfConcatenation
<1>9. OfClaim(adr, c) \in Seq(S)
      /\ Range(OfClaim(adr, c)) = Range(When(one, v)) \cup Range(When(two, w))
  BY <1>2, <1>8, Zenon DEF s, t
<1> QED BY <1>3, <1>5, <1>6, <1>9

LEMMA SaidOfClaims ==
    ASSUME NEW adr \in Document, NEW S,
           \A c \in Range(adr.claims) : Straight(adr, c) \in S /\ Converse(adr, c) \in S
    PROVE  /\ Claims(adr) \in Seq(S)
           /\ \A x : x \in Range(Claims(adr)) <=> \E c \in Range(adr.claims) : SaidByClaim(x, adr, c)
<1> DEFINE n == Len(adr.claims)
           ss == [i \in 1 .. n |-> OfClaim(adr, adr.claims[i])]
<1>1. n \in Nat /\ DOMAIN adr.claims = 1 .. n
  BY DocumentTyped
<1>2. Range(adr.claims) = {adr.claims[i] : i \in 1 .. n}
  BY <1>1 DEF Range
<1>3. ASSUME NEW i \in 1 .. n
      PROVE  /\ ss[i] \in Seq(S)
             /\ \A x : x \in Range(ss[i]) <=> SaidByClaim(x, adr, adr.claims[i])
  <2> DEFINE c == adr.claims[i]
  <2>1. c \in Range(adr.claims) /\ ss[i] = OfClaim(adr, c)
    BY <1>2
  <2>2. Straight(adr, c) \in S /\ Converse(adr, c) \in S
    BY <2>1
  <2> HIDE DEF c, ss
  <2>3. /\ OfClaim(adr, c) \in Seq(S)
        /\ \A x : x \in Range(OfClaim(adr, c)) <=> SaidByClaim(x, adr, c)
    BY <2>1, <2>2, SaidOfClaim, Zenon
  <2> QED BY <2>1, <2>3, Zenon DEF c
<1>4. ss = [i \in 1 .. n |-> ss[i]]
  OBVIOUS
<1>5. Claims(adr) = FlattenSeq(ss)
  BY <1>1, Zenon DEF Claims
<1> HIDE DEF ss
<1>6. /\ FlattenSeq(ss) \in Seq(S)
      /\ \A x : x \in Range(FlattenSeq(ss)) <=> \E i \in 1 .. n : x \in Range(ss[i])
  <2> HIDE DEF n
  <2> QED BY <1>1, <1>3, <1>4, FlatMembers
<1> HIDE DEF n
<1>7. \A x : (\E i \in 1 .. n : x \in Range(ss[i]))
             <=> \E c \in Range(adr.claims) : SaidByClaim(x, adr, c)
  BY <1>2, <1>3
<1> QED BY <1>5, <1>6, <1>7

LEMMA SaidOfMembers ==
    ASSUME NEW adr \in Document, NEW S,
           \A m \in Range(adr.members) : MemberEdge(adr, m) \in S
    PROVE  /\ Members(adr) \in Seq(S)
           /\ \A x : x \in Range(Members(adr)) <=> \E m \in Range(adr.members) : x = MemberEdge(adr, m)
<1> DEFINE n == Len(adr.members)
<1>1. n \in Nat /\ DOMAIN adr.members = 1 .. n
  BY DocumentTyped
<1>2. Members(adr) = [i \in 1 .. n |-> MemberEdge(adr, adr.members[i])]
  BY <1>1, Zenon DEF Members, MemberEdge
<1>3. Range(adr.members) = {adr.members[i] : i \in 1 .. n}
  BY <1>1 DEF Range
<1>4. \A i \in 1 .. n : MemberEdge(adr, adr.members[i]) \in S
  BY <1>3
<1> HIDE DEF n
<1>5. Members(adr) \in Seq(S)
  BY <1>1, <1>2, <1>4
<1>6. Range(Members(adr)) = {MemberEdge(adr, adr.members[i]) : i \in 1 .. n}
  BY <1>2 DEF Range
<1> QED BY <1>3, <1>5, <1>6

LEMMA SaidOfEdges ==
    ASSUME NEW adr \in Document, NEW S,
           \A e \in Range(adr.edges) : DrawnEdge(adr, e) \in S
    PROVE  /\ TopologyEdges(adr) \in Seq(S)
           /\ \A x : x \in Range(TopologyEdges(adr))
                     <=> \E e \in Range(adr.edges) : IsNamed(adr, e) /\ x = DrawnEdge(adr, e)
<1> DEFINE n == Len(adr.edges)
           ss == [i \in 1 .. n |-> When(IsNamed(adr, adr.edges[i]), DrawnEdge(adr, adr.edges[i]))]
<1>1. n \in Nat /\ DOMAIN adr.edges = 1 .. n
  BY DocumentTyped
<1>2. Range(adr.edges) = {adr.edges[i] : i \in 1 .. n}
  BY <1>1 DEF Range
<1>3. ASSUME NEW i \in 1 .. n
      PROVE  /\ ss[i] \in Seq(S)
             /\ \A x : x \in Range(ss[i])
                       <=> IsNamed(adr, adr.edges[i]) /\ x = DrawnEdge(adr, adr.edges[i])
  <2> DEFINE e == adr.edges[i]
             v == DrawnEdge(adr, e)
             test == IsNamed(adr, e)
  <2>1. e \in Range(adr.edges) /\ ss[i] = When(test, v)
    BY <1>2
  <2>2. v \in S
    BY <2>1
  <2>3. test \in BOOLEAN
    BY DEF IsNamed
  <2> HIDE DEF v, test, ss
  <2>4. /\ When(test, v) \in Seq(S)
        /\ \A x : x \in Range(When(test, v)) <=> test /\ x = v
    BY <2>2, <2>3, RangeOfWhen
  <2> QED BY <2>1, <2>4, Zenon DEF v, test
<1>4. ss = [i \in 1 .. n |-> ss[i]]
  OBVIOUS
<1>5. TopologyEdges(adr) = FlattenSeq(ss)
  BY <1>1, Zenon DEF TopologyEdges, IsNamed, DrawnEdge
<1> HIDE DEF ss
<1>6. /\ FlattenSeq(ss) \in Seq(S)
      /\ \A x : x \in Range(FlattenSeq(ss)) <=> \E i \in 1 .. n : x \in Range(ss[i])
  <2> HIDE DEF n
  <2> QED BY <1>1, <1>3, <1>4, FlatMembers
<1> HIDE DEF n
<1>7. \A x : (\E i \in 1 .. n : x \in Range(ss[i]))
             <=> \E e \in Range(adr.edges) : IsNamed(adr, e) /\ x = DrawnEdge(adr, e)
  BY <1>2, <1>3
<1> QED BY <1>5, <1>6, <1>7

LEMMA SaidOfAll ==
    ASSUME NEW adr \in Document, NEW S, Sayable(adr) \subseteq S
    PROVE  /\ Statements(adr) \in Seq(S)
           /\ \A x : x \in Range(Statements(adr)) <=> Says(x, adr)
<1>1. /\ \A c \in Range(adr.claims) : Straight(adr, c) \in S /\ Converse(adr, c) \in S
      /\ \A m \in Range(adr.members) : MemberEdge(adr, m) \in S
      /\ \A e \in Range(adr.edges) : DrawnEdge(adr, e) \in S
  BY DEF Sayable
<1> DEFINE s == Claims(adr)
           t == Members(adr)
           u == TopologyEdges(adr)
           tail == IF adr.kind = "system" THEN t \o u ELSE <<>>
<1>2. s \in Seq(S) /\ \A x : x \in Range(s) <=> \E c \in Range(adr.claims) : SaidByClaim(x, adr, c)
  BY <1>1, SaidOfClaims, Zenon
<1>3. t \in Seq(S) /\ \A x : x \in Range(t) <=> \E m \in Range(adr.members) : x = MemberEdge(adr, m)
  BY <1>1, SaidOfMembers, Zenon
<1>4. /\ u \in Seq(S)
      /\ \A x : x \in Range(u) <=> \E e \in Range(adr.edges) : IsNamed(adr, e) /\ x = DrawnEdge(adr, e)
  BY <1>1, SaidOfEdges, Zenon
<1>5. Statements(adr) = s \o tail
  BY DEF Statements
<1> HIDE DEF s, t, u
<1>6. /\ tail \in Seq(S)
      /\ \A x : x \in Range(tail) <=> adr.kind = "system" /\ (x \in Range(t) \/ x \in Range(u))
  <2>1. t \o u \in Seq(S) /\ Range(t \o u) = Range(t) \cup Range(u)
    BY <1>3, <1>4, RangeOfConcatenation
  <2>2. CASE adr.kind = "system"
    BY <2>1, <2>2
  <2>3. CASE adr.kind # "system"
    <3>1. tail = <<>>
      BY <2>3
    <3> QED BY <2>3, <3>1, RangeOfEmpty
  <2> QED BY <2>2, <2>3
<1> HIDE DEF tail
<1>7. s \o tail \in Seq(S) /\ Range(s \o tail) = Range(s) \cup Range(tail)
  BY <1>2, <1>6, RangeOfConcatenation
<1>8. \A x : Says(x, adr) <=> x \in Range(s) \/ x \in Range(tail)
  BY <1>2, <1>3, <1>4, <1>6, Zenon DEF Says
<1> QED BY <1>5, <1>7, <1>8

(* What the corpus states. *)
LEMMA SaidInCorpus ==
    ASSUME corpus \in Corpora
    PROVE  \E S : LET stated == FlattenSeq([i \in DOMAIN corpus |-> Statements(corpus[i])])
                  IN stated \in Seq(S) /\ \A x : x \in Range(stated) <=> \E a \in ADRs : Says(x, a)
<1> DEFINE n == Len(corpus)
           S == UNION {Sayable(a) : a \in ADRs}
           ss == [i \in 1 .. n |-> Statements(corpus[i])]
           stated == FlattenSeq([i \in DOMAIN corpus |-> Statements(corpus[i])])
<1>1. /\ n \in Nat /\ DOMAIN corpus = 1 .. n /\ ADRs = {corpus[i] : i \in 1 .. n}
      /\ \A i \in 1 .. n : corpus[i] \in Document
  BY CorpusFacts
<1>2. stated = FlattenSeq(ss)
  BY <1>1, Zenon
<1>3. ss = [i \in 1 .. n |-> ss[i]] /\ \A i \in 1 .. n : ss[i] = Statements(corpus[i])
  OBVIOUS
<1>4. \A i \in 1 .. n : Sayable(corpus[i]) \subseteq S
  BY <1>1
<1> HIDE DEF ss, S
<1>5. \A i \in 1 .. n : ss[i] \in Seq(S) /\ \A x : x \in Range(ss[i]) <=> Says(x, corpus[i])
  BY <1>1, <1>3, <1>4, SaidOfAll
<1>6. /\ FlattenSeq(ss) \in Seq(S)
      /\ \A x : x \in Range(FlattenSeq(ss)) <=> \E i \in 1 .. n : x \in Range(ss[i])
  <2> HIDE DEF n
  <2> QED BY <1>1, <1>3, <1>5, FlatMembers
<1> HIDE DEF n
<1>7. \A x : x \in Range(FlattenSeq(ss)) <=> \E a \in ADRs : Says(x, a)
  BY <1>1, <1>5, <1>6
<1>8. stated \in Seq(S) /\ \A x : x \in Range(stated) <=> \E a \in ADRs : Says(x, a)
  BY <1>2, <1>6, <1>7, Zenon
<1> QED BY <1>8

(* What derivation makes of the statements. *)
LEMMA Relating ==
    ASSUME NEW S, NEW stated \in Seq(S)
    PROVE  LET added == AddRelations(stated)
           IN /\ DOMAIN added = DOMAIN relations \cup Declared
                                \cup {x.key : x \in {y \in Range(stated) : Heard(y)}}
              /\ \A key \in DOMAIN added :
                    \/ key \in DOMAIN relations /\ added[key] = relations[key]
                    \/ key \in Declared /\ added[key] = Relation(key[3], "explicit", TRUE)
                    \/ \E x \in Range(stated) : Heard(x) /\ x.key = key /\ added[key] = x.relation
<1> DEFINE heard == {i \in DOMAIN stated : Heard(stated[i])}
           added == AddRelations(stated)
<1>1. DOMAIN added = DOMAIN relations \cup Declared \cup {stated[i].key : i \in heard}
  BY DEF AddRelations
<1>2. {stated[i].key : i \in heard} = {x.key : x \in {y \in Range(stated) : Heard(y)}}
  BY DEF Range
<1>3. ASSUME NEW key \in DOMAIN added
      PROVE  \/ key \in DOMAIN relations /\ added[key] = relations[key]
             \/ key \in Declared /\ added[key] = Relation(key[3], "explicit", TRUE)
             \/ \E x \in Range(stated) : Heard(x) /\ x.key = key /\ added[key] = x.relation
  <2>1. CASE key \in DOMAIN relations
    <3>1. added[key] = relations[key]
      BY <1>3, <2>1, Zenon DEF AddRelations
    <3> QED BY <2>1, <3>1
  <2>2. CASE key \notin DOMAIN relations /\ key \in Declared
    <3>1. added[key] = Relation(key[3], "explicit", TRUE)
      BY <1>3, <2>2, Zenon DEF AddRelations
    <3> QED BY <2>2, <3>1
  <2>3. CASE key \notin DOMAIN relations /\ key \notin Declared
    <3> DEFINE T == {i \in heard : stated[i].key = key}
               k == Min(T)
    <3>1. T \in SUBSET Nat /\ T # {}
      BY <1>1, <2>3
    <3>2. k \in T
      <4> HIDE DEF T
      <4> QED BY <3>1, MinInside
    <3>3. added[key] = stated[k].relation
      BY <1>1, <2>3 DEF AddRelations
    <3>4. stated[k] \in Range(stated) /\ Heard(stated[k]) /\ stated[k].key = key
      BY <3>2 DEF Range
    <3> QED BY <3>3, <3>4
  <2> QED BY <2>1, <2>2, <2>3
<1> QED BY <1>1, <1>2, <1>3

-----------------------------------------------------------------------------
(* The relations derivation leaves: those of before, the declarations, and *)
(* the statements that are heard.                                          *)
Derived(added) ==
    /\ \A key : key \in DOMAIN added <=>
          \/ key \in DOMAIN relations \/ key \in Declared
          \/ \E a \in ADRs : \E x : Says(x, a) /\ Heard(x) /\ x.key = key
    /\ \A key \in DOMAIN added :
          \/ key \in DOMAIN relations /\ added[key] = relations[key]
          \/ key \in Declared /\ added[key] = Relation(key[3], "explicit", TRUE)
          \/ \E a \in ADRs : \E x : Says(x, a) /\ Heard(x) /\ x.key = key /\ added[key] = x.relation

LEMMA Deriving ==
    ASSUME corpus \in Corpora
    PROVE  Derived(AddRelations(FlattenSeq([i \in DOMAIN corpus |-> Statements(corpus[i])])))
<1> DEFINE stated == FlattenSeq([i \in DOMAIN corpus |-> Statements(corpus[i])])
           added  == AddRelations(stated)
<1>1. PICK S : stated \in Seq(S) /\ \A x : x \in Range(stated) <=> \E a \in ADRs : Says(x, a)
  BY SaidInCorpus, Zenon
<1> HIDE DEF stated
<1>2. /\ DOMAIN added = DOMAIN relations \cup Declared
                        \cup {x.key : x \in {y \in Range(stated) : Heard(y)}}
      /\ \A key \in DOMAIN added :
            \/ key \in DOMAIN relations /\ added[key] = relations[key]
            \/ key \in Declared /\ added[key] = Relation(key[3], "explicit", TRUE)
            \/ \E x \in Range(stated) : Heard(x) /\ x.key = key /\ added[key] = x.relation
  BY <1>1, Relating, Zenon
<1> HIDE DEF added
<1>3. \A key : key \in DOMAIN added <=>
          \/ key \in DOMAIN relations \/ key \in Declared
          \/ \E a \in ADRs : \E x : Says(x, a) /\ Heard(x) /\ x.key = key
  BY <1>1, <1>2
<1>4. \A key \in DOMAIN added :
          \/ key \in DOMAIN relations /\ added[key] = relations[key]
          \/ key \in Declared /\ added[key] = Relation(key[3], "explicit", TRUE)
          \/ \E a \in ADRs : \E x : Says(x, a) /\ Heard(x) /\ x.key = key /\ added[key] = x.relation
  <2>1. ASSUME NEW key \in DOMAIN added,
               \E x \in Range(stated) : Heard(x) /\ x.key = key /\ added[key] = x.relation
        PROVE  \E a \in ADRs : \E x : Says(x, a) /\ Heard(x) /\ x.key = key /\ added[key] = x.relation
    BY <1>1, <2>1, Zenon
  <2> QED BY <1>2, <2>1, Zenon
<1> QED BY <1>3, <1>4, Zenon DEF Derived, added, stated

LEMMA EdgeFields ==
    ASSUME NEW key, NEW adr, NEW class, NEW local
    PROVE  Edge(key, adr, class, local).key = key /\ Edge(key, adr, class, local).relation.local = local
<1>1. Edge(key, adr, class, local).key = key
  BY DEF Edge
<1>2. Edge(key, adr, class, local).relation = Relation(adr, class, local)
  BY DEF Edge
<1>3. Relation(adr, class, local).local = local
  BY DEF Relation
<1> QED BY <1>1, <1>2, <1>3

LEMMA ClaimKeyParts ==
    ASSUME NEW c
    PROVE  /\ ClaimKey(c)[1] = Rule[c.field].type
           /\ {ClaimKey(c)[2], ClaimKey(c)[3]} = {c.from, Target(c)}
           /\ ~ Rule[c.field].swap => ClaimKey(c) = <<Rule[c.field].type, c.from, Target(c)>>
<1>1. CASE Rule[c.field].swap
  BY <1>1 DEF ClaimKey
<1>2. CASE ~ Rule[c.field].swap
  BY <1>2 DEF ClaimKey
<1> QED BY <1>1, <1>2

LEMMA StatementFields ==
    ASSUME NEW adr
    PROVE  /\ \A c : /\ Straight(adr, c).key = ClaimKey(c)
                     /\ Straight(adr, c).relation.local = (Rule[c.field].missing # "external")
                     /\ Converse(adr, c).key = <<Rule[c.field].back, Target(c), c.from>>
                     /\ Converse(adr, c).relation.local = TRUE
           /\ \A m : /\ MemberEdge(adr, m).key = MemberKey(adr, m)
                     /\ MemberEdge(adr, m).relation.local = TRUE
           /\ \A e : /\ DrawnEdge(adr, e).key = EdgeKey(adr, e)
                     /\ DrawnEdge(adr, e).relation.local = TRUE
<1>1. ASSUME NEW c
      PROVE  /\ Straight(adr, c).key = ClaimKey(c)
             /\ Straight(adr, c).relation.local = (Rule[c.field].missing # "external")
             /\ Converse(adr, c).key = <<Rule[c.field].back, Target(c), c.from>>
             /\ Converse(adr, c).relation.local = TRUE
  <2> DEFINE k == ClaimKey(c)
             b == <<Rule[c.field].back, Target(c), c.from>>
             class == Rule[c.field].class
             local == Rule[c.field].missing # "external"
             always == TRUE
  <2>1. Straight(adr, c) = Edge(k, adr.id, class, local)
    BY Zenon DEF Straight
  <2>2. Converse(adr, c) = Edge(b, adr.id, "derived", always)
    BY Zenon DEF Converse
  <2> HIDE DEF k, b, class, local, always
  <2>3. Straight(adr, c).key = k /\ Straight(adr, c).relation.local = local
    BY <2>1, EdgeFields
  <2>4. Converse(adr, c).key = b /\ Converse(adr, c).relation.local = always
    BY <2>2, EdgeFields
  <2> QED BY <2>3, <2>4, Zenon DEF k, b, local, always
<1>2. ASSUME NEW m
      PROVE  /\ MemberEdge(adr, m).key = MemberKey(adr, m)
             /\ MemberEdge(adr, m).relation.local = TRUE
  <2> DEFINE k == MemberKey(adr, m)
             always == TRUE
  <2>1. MemberEdge(adr, m) = Edge(k, adr.id, "explicit", always)
    BY Zenon DEF MemberEdge
  <2> HIDE DEF k, always
  <2>2. MemberEdge(adr, m).key = k /\ MemberEdge(adr, m).relation.local = always
    BY <2>1, EdgeFields
  <2> QED BY <2>2, Zenon DEF k, always
<1>3. ASSUME NEW e
      PROVE  /\ DrawnEdge(adr, e).key = EdgeKey(adr, e)
             /\ DrawnEdge(adr, e).relation.local = TRUE
  <2> DEFINE k == EdgeKey(adr, e)
             always == TRUE
  <2>1. DrawnEdge(adr, e) = Edge(k, adr.id, "explicit", always)
    BY Zenon DEF DrawnEdge
  <2> HIDE DEF k, always
  <2>2. DrawnEdge(adr, e).key = k /\ DrawnEdge(adr, e).relation.local = always
    BY <2>1, EdgeFields
  <2> QED BY <2>2, Zenon DEF k, always
<1> QED BY <1>1, <1>2, <1>3

(* Before validation a reference names what the lookup finds. *)
LEMMA LookupLocal ==
    ASSUME pc \notin Valid
    PROVE  Lookup = Local
  BY DEF Lookup, Local, Own, Core, Typed

(* Once the files are read, what authors a reference is an entity. *)
LEMMA SourcesRead ==
    ASSUME IInv, pc = "derive" \/ Sent, NEW a \in ADRs
    PROVE  /\ Core \subseteq Local /\ a.id \in Core
           /\ \A c \in Range(a.claims) : c.from \in Core
<1>1. ReadInv /\ Core \subseteq Local /\ a \in Document /\ Admissible(a)
  BY CorpusFacts DEF IInv, Local, Core
<1> USE DEF Sent
<1>2. Sources(a) \subseteq Core
  <2>1. a.kind \in {"logical", "system", "component"}
    BY <1>1, DocumentTyped
  <2>2. CASE a.kind = "logical"
    <3>1. /\ a.id \in Core
          /\ Holds(a, {"capability", "contract", "decision"}) /\ Holds(a, {"invariant"})
      BY <1>1, <2>2 DEF ReadInv, LogicalInv, InvariantInv
    <3>2. Authors[a.kind] = {"capability", "contract", "decision", "invariant"}
      BY <2>2 DEF Authors
    <3> QED BY <3>1, <3>2 DEF Sources, Holds
  <2>3. CASE a.kind = "system"
    <3>1. a.id \in Core
      BY <1>1, <2>3 DEF ReadInv, PhysicalInv
    <3>2. Authors[a.kind] = {}
      BY <2>3 DEF Authors
    <3> QED BY <3>1, <3>2 DEF Sources
  <2>4. CASE a.kind = "component"
    <3>1. a.id \in Core /\ Holds(a, {"component", "implementation_decision"})
      BY <1>1, <2>4 DEF ReadInv, PhysicalInv
    <3>2. Authors[a.kind] = {"component", "implementation_decision"}
      BY <2>4 DEF Authors
    <3> QED BY <3>1, <3>2 DEF Sources, Holds
  <2> QED BY <2>1, <2>2, <2>3, <2>4
<1>3. a.id \in Sources(a) /\ \A c \in Range(a.claims) : c.from \in Sources(a)
  BY <1>1 DEF Admissible, Sources
<1> QED BY <1>1, <1>2, <1>3

(* The parts of a claim. *)
LEMMA ClaimsRead ==
    ASSUME IInv, NEW a \in ADRs, NEW c \in Range(a.claims)
    PROVE  c.field \in Field
<1>1. a \in Document
  BY CorpusFacts DEF IInv
<1>2. a.claims \in Seq([field : Field, from : STRING, to : STRING])
  BY <1>1, DocumentTyped
<1>3. PICK i \in DOMAIN a.claims : c = a.claims[i]
  BY DEF Range
<1>4. i \in 1 .. Len(a.claims)
  BY <1>2, <1>3
<1>5. c \in [field : Field, from : STRING, to : STRING]
  BY <1>2, <1>3, <1>4, ElementOfSeq
<1> QED BY <1>5

(* The type of a statement, by what states it. *)
LEMMA StatedType ==
    ASSUME IInv, PlainVerbs, NEW a \in ADRs, NEW x, Says(x, a)
    PROVE  \/ \E c \in Range(a.claims) :
                 SaidByClaim(x, a, c) /\ x.key[1] \in {Rule[c.field].type, Rule[c.field].back}
           \/ /\ a.kind = "system" /\ x.key[1] = "composed_of"
              /\ \E m \in Range(a.members) : x.key = MemberKey(a, m)
           \/ x.key[1] \notin Reserved
<1>1. CASE \E c \in Range(a.claims) : SaidByClaim(x, a, c)
  <2>1. PICK c \in Range(a.claims) : SaidByClaim(x, a, c)
    BY <1>1
  <2>2. CASE x = Straight(a, c)
    <3>1. x.key = ClaimKey(c)
      BY <2>2, StatementFields, Zenon
    <3>2. x.key[1] = Rule[c.field].type
      BY <3>1, ClaimKeyParts
    <3> QED BY <2>1, <3>2
  <2>3. CASE x = Converse(a, c)
    <3>1. x.key = <<Rule[c.field].back, Target(c), c.from>>
      BY <2>3, StatementFields, Zenon
    <3>2. x.key[1] = Rule[c.field].back
      BY <3>1
    <3> QED BY <2>1, <3>2
  <2> QED BY <2>1, <2>2, <2>3 DEF SaidByClaim
<1>2. CASE a.kind = "system" /\ \E m \in Range(a.members) : x = MemberEdge(a, m)
  <2>1. PICK m \in Range(a.members) : x = MemberEdge(a, m)
    BY <1>2
  <2>2. x.key = MemberKey(a, m)
    BY <2>1, StatementFields, Zenon
  <2>3. MemberKey(a, m)[1] = "composed_of"
    BY DEF MemberKey
  <2> QED BY <1>2, <2>2, <2>3
<1>3. CASE \E e \in Range(a.edges) : x = DrawnEdge(a, e)
  <2>1. PICK e \in Range(a.edges) : x = DrawnEdge(a, e)
    BY <1>3
  <2>2. x.key = EdgeKey(a, e)
    BY <2>1, StatementFields, Zenon
  <2>3. EdgeKey(a, e)[1] = e.verb
    BY DEF EdgeKey
  <2>4. e.verb \notin Reserved
    <3>1. PICK i \in DOMAIN corpus : a = corpus[i]
      BY DEF ADRs, Range
    <3> QED BY <3>1 DEF PlainVerbs, IInv
  <2> QED BY <2>2, <2>3, <2>4
<1> QED BY <1>1, <1>2, <1>3 DEF Says

(* Neither a claim nor a typed edge of a topology speaks of composition or *)
(* of declaration.                                                         *)
LEMMA StatedElsewhere ==
    ASSUME IInv, PlainVerbs, NEW a \in ADRs, NEW x, Says(x, a)
    PROVE  /\ x.key[1] # "declared_in"
           /\ x.key[1] = "composed_of" =>
                 a.kind = "system" /\ \E m \in Range(a.members) : x.key = MemberKey(a, m)
<1>1. \A c \in Range(a.claims) : {Rule[c.field].type, Rule[c.field].back} \cap {"composed_of", "declared_in"} = {}
  BY ClaimsRead, RulesPair DEF Pairs
<1>2. "declared_in" \in Reserved /\ "composed_of" \in Reserved
  BY DEF Reserved
<1> QED BY <1>1, <1>2, StatedType

(* An extension is of no core type. *)
LEMMA ExtensionTypes ==
    ASSUME corpus \in Corpora, NEW key \in Extended
    PROVE  key[1] \notin CoreTypes
<1>1. PICK a \in ADRs : key \in Range(a.extensions)
  BY DEF Extended
<1> QED BY <1>1, CorpusFacts DEF Admissible

(* A handle names the component of the one member that has it. *)
LEMMA NamedIs ==
    ASSUME NEW a \in Document, LocalTopology(a), NEW m \in Range(a.members),
           m.ref # NoRef
    PROVE  Named(a, m.handle) = m.ref
<1> DEFINE slim == {i \in DOMAIN a.members : a.members[i].handle = m.handle /\ a.members[i].ref # NoRef}
<1>1. DOMAIN a.members \subseteq Nat
  BY DocumentTyped
<1>2. PICK i \in DOMAIN a.members : m = a.members[i]
  BY DEF Range
<1>3. slim = {i}
  BY <1>2 DEF LocalTopology
<1>4. Max({i}) = i
  BY <1>1, <1>2 DEF Max
<1>5. Named(a, m.handle) = a.members[Max(slim)].ref
  BY <1>3 DEF Named
<1> QED BY <1>2, <1>3, <1>4, <1>5

LEMMA SlimMembers ==
    ASSUME IInv, Typed, NEW a \in ADRs, NEW m \in Range(a.members)
    PROVE  m.ref # NoRef
<1>1. a.version \in {"1.5", "1.6"} /\ Admissible(a)
  BY CorpusFacts DEF IInv, ReadInv, VersionInv
<1> QED BY <1>1 DEF Admissible

(* What a statement that is heard joins. *)
LEMMA HeardEnds ==
    ASSUME IInv, pc = "derive", NEW a \in ADRs, NEW x, Says(x, a), Heard(x)
    PROVE  /\ x.relation.local \/ x.key[1] = "binds_rule"
           /\ x.key[2] \in Local /\ (x.relation.local => x.key[3] \in Local)
<1>1. Lookup = Local
  BY LookupLocal DEF Valid
<1>2. x.key[2] \in Local /\ (x.relation.local => x.key[3] \in Local)
  BY <1>1 DEF Heard
<1>3. x.relation.local \/ x.key[1] = "binds_rule"
  <2>1. CASE \E c \in Range(a.claims) : SaidByClaim(x, a, c)
    <3>1. PICK c \in Range(a.claims) : SaidByClaim(x, a, c)
      BY <2>1
    <3>2. CASE x = Straight(a, c)
      <4>1. x.key = ClaimKey(c) /\ x.relation.local = (Rule[c.field].missing # "external")
        BY <3>2, StatementFields, Zenon
      <4>2. x.key[1] = Rule[c.field].type
        BY <4>1, ClaimKeyParts
      <4>3. Rule[c.field].missing = "external" => Rule[c.field].type = "binds_rule"
        BY ClaimsRead, RulesPair DEF Pairs
      <4> QED BY <4>1, <4>2, <4>3
    <3>3. CASE x = Converse(a, c)
      BY <3>3, StatementFields, Zenon
    <3> QED BY <3>1, <3>2, <3>3 DEF SaidByClaim
  <2>2. CASE \E m \in Range(a.members) : x = MemberEdge(a, m)
    BY <2>2, StatementFields, Zenon
  <2>3. CASE \E e \in Range(a.edges) : x = DrawnEdge(a, e)
    BY <2>3, StatementFields, Zenon
  <2> QED BY <2>1, <2>2, <2>3 DEF Says
<1> QED BY <1>2, <1>3

LEMMA DerivedEnds ==
    ASSUME IInv, pc = "derive", NEW added, Derived(added), NEW key \in DOMAIN added
    PROVE  /\ added[key].local \/ key[1] = "binds_rule"
           /\ key \in Extended \/ (key[2] \in Local /\ (added[key].local => key[3] \in Local))
<1>1. CASE key \in DOMAIN relations /\ added[key] = relations[key]
  BY <1>1 DEF IInv, RelationInv, ExtensionInv
<1>2. CASE key \in Declared /\ added[key] = Relation(key[3], "explicit", TRUE)
  <2>1. Lookup = Local
    BY LookupLocal DEF Valid
  <2>2. key[2] \in Local /\ key[3] \in Local
    BY <1>2, <2>1 DEF Declared
  <2>3. Relation(key[3], "explicit", TRUE).local = TRUE
    BY DEF Relation
  <2> QED BY <1>2, <2>2, <2>3
<1>3. CASE \E a \in ADRs : \E x : Says(x, a) /\ Heard(x) /\ x.key = key /\ added[key] = x.relation
  BY <1>3, HeardEnds
<1> QED BY <1>1, <1>2, <1>3 DEF Derived

(* A claim whose target is known becomes a relation, and its inverse one. *)
LEMMA ClaimHeard ==
    ASSUME IInv, pc = "derive", NEW added, Derived(added), NEW a \in ADRs, NEW c \in Range(a.claims),
           Rule[c.field].missing \notin {"external", "raise"}, Target(c) \in Local
    PROVE  /\ ClaimKey(c) \in DOMAIN added
           /\ Rule[c.field].back # "" => <<Rule[c.field].back, Target(c), c.from>> \in DOMAIN added
<1>1. Lookup = Local /\ c.from \in Local
  BY LookupLocal, SourcesRead DEF Valid
<1>2. IsStated(c)
  BY <1>1 DEF IsStated, Known
<1>3. ClaimKey(c) \in DOMAIN added
  <2> DEFINE x == Straight(a, c)
  <2>1. x.key = ClaimKey(c)
    BY StatementFields, Zenon
  <2>2. Says(x, a)
    BY <1>2 DEF Says, SaidByClaim
  <2> HIDE DEF x
  <2>3. Heard(x)
    <3>1. {ClaimKey(c)[2], ClaimKey(c)[3]} = {c.from, Target(c)}
      BY ClaimKeyParts
    <3>2. ClaimKey(c)[2] \in Lookup /\ ClaimKey(c)[3] \in Lookup
      BY <1>1, <3>1
    <3> QED BY <2>1, <3>2, Zenon DEF Heard
  <2> QED BY <2>1, <2>2, <2>3 DEF Derived
<1>4. ASSUME Rule[c.field].back # ""
      PROVE  <<Rule[c.field].back, Target(c), c.from>> \in DOMAIN added
  <2> DEFINE x == Converse(a, c)
  <2>1. x.key = <<Rule[c.field].back, Target(c), c.from>>
    BY StatementFields, Zenon
  <2>2. Says(x, a)
    BY <1>2, <1>4 DEF Says, SaidByClaim
  <2> HIDE DEF x
  <2>3. Heard(x)
    BY <1>1, <2>1 DEF Heard
  <2> QED BY <2>1, <2>2, <2>3 DEF Derived
<1> QED BY <1>3, <1>4

(* Whichever end authored a relation that has an inverse, both are there. *)
LEMMA DerivedMirrors ==
    ASSUME IInv, pc = "derive", PlainVerbs, NEW added, Derived(added),
           NEW key \in DOMAIN added, key[1] \in DOMAIN Opposite
    PROVE  <<Opposite[key[1]], key[3], key[2]>> \in DOMAIN added
<1>1. corpus \in Corpora /\ DOMAIN relations = Extended
  BY DEF IInv, RelationInv, ExtensionInv
<1>2. key \notin DOMAIN relations
  BY <1>1, ExtensionTypes, TypesOfTheCore
<1>3. key \notin Declared
  BY Opposites DEF Declared
<1>4. PICK a \in ADRs : \E y : Says(y, a) /\ Heard(y) /\ y.key = key
  BY <1>2, <1>3 DEF Derived
<1>5. PICK x : Says(x, a) /\ Heard(x) /\ x.key = key
  BY <1>4
<1>6. key[1] \in Reserved /\ key[1] # "composed_of"
  BY Opposites DEF Reserved
<1>7. PICK c \in Range(a.claims) : SaidByClaim(x, a, c)
  BY <1>5, <1>6, StatedType
<1> DEFINE r == Rule[c.field]
<1>8. Pairs(r)
  BY ClaimsRead, RulesPair
<1>9. r.back # ""
  <2>1. CASE x = Straight(a, c)
    <3>1. key = ClaimKey(c)
      BY <1>5, <2>1, StatementFields, Zenon
    <3>2. key[1] = r.type
      BY <3>1, ClaimKeyParts
    <3> QED BY <1>8, <3>2, Opposites DEF Pairs
  <2>2. CASE x # Straight(a, c)
    BY <1>7, <2>2 DEF SaidByClaim
  <2> QED BY <2>1, <2>2
<1>10. /\ r.back \in DOMAIN Opposite /\ Opposite[r.back] = r.type /\ ~ r.swap
       /\ r.missing \notin {"external", "raise"}
  BY <1>8, <1>9 DEF Pairs
<1>11. Target(c) \in Local
  <2>1. Known(c)
    BY <1>7, <1>10 DEF SaidByClaim, IsStated
  <2>2. Lookup = Local
    BY LookupLocal DEF Valid
  <2> QED BY <2>1, <2>2 DEF Known
<1>12. ClaimKey(c) \in DOMAIN added /\ <<r.back, Target(c), c.from>> \in DOMAIN added
  BY <1>9, <1>10, <1>11, ClaimHeard
<1>13. ClaimKey(c) = <<r.type, c.from, Target(c)>>
  BY <1>10, ClaimKeyParts
<1> HIDE DEF r
<1>14. CASE x = Straight(a, c)
  <2>1. key = <<r.type, c.from, Target(c)>>
    <3>1. key = ClaimKey(c)
      BY <1>5, <1>14, StatementFields, Zenon
    <3> QED BY <3>1, <1>13
  <2>2. key[1] = r.type /\ key[2] = c.from /\ key[3] = Target(c)
    BY <2>1
  <2>3. Opposite[key[1]] = r.back
    BY <1>8, <2>2 DEF Pairs
  <2> QED BY <1>12, <2>2, <2>3
<1>15. CASE x = Converse(a, c)
  <2>1. key = <<r.back, Target(c), c.from>>
    BY <1>5, <1>15, StatementFields, Zenon DEF r
  <2>2. key[1] = r.back /\ key[2] = Target(c) /\ key[3] = c.from
    BY <2>1
  <2>3. Opposite[key[1]] = r.type
    BY <1>10, <2>2
  <2> QED BY <1>12, <1>13, <2>2, <2>3
<1> QED BY <1>7, <1>14, <1>15 DEF SaidByClaim

(* Composition is said by a system's topology alone, declaration by the    *)
(* graph alone.                                                            *)
LEMMA DerivedElsewhere ==
    ASSUME IInv, pc = "derive", PlainVerbs, NEW added, Derived(added), NEW key \in DOMAIN added
    PROVE  /\ key[1] = "composed_of" =>
                 \E a \in ADRs : a.kind = "system" /\ \E m \in Range(a.members) : key = MemberKey(a, m)
           /\ key[1] = "declared_in" => key \in Declared
<1>1. corpus \in Corpora /\ DOMAIN relations = Extended
  BY DEF IInv, RelationInv, ExtensionInv
<1>2. CASE key \in DOMAIN relations
  BY <1>1, <1>2, ExtensionTypes, TypesOfTheCore
<1>3. CASE key \in Declared
  BY <1>3 DEF Declared
<1>4. CASE \E a \in ADRs : \E x : Says(x, a) /\ Heard(x) /\ x.key = key
  BY <1>4, StatedElsewhere
<1> QED BY <1>2, <1>3, <1>4 DEF Derived

(* An edge between two handles is drawn between the components they name.  *)
LEMMA DerivedDrawn ==
    ASSUME IInv, pc = "derive", version = "2.2", NEW added, Derived(added),
           NEW a \in ADRs, a.kind = "system", NEW e \in Range(a.edges),
           NEW m \in Range(a.members), NEW k \in Range(a.members),
           m.handle = e.from, k.handle = e.to
    PROVE  <<e.verb, m.ref, k.ref>> \in DOMAIN added
<1>1. a \in Document /\ LocalTopology(a)
  BY CorpusFacts DEF IInv, RelationInv, TopologyInv
<1>2. m.ref # NoRef /\ k.ref # NoRef
  BY SlimMembers DEF Typed
<1>3. Named(a, e.from) = m.ref /\ Named(a, e.to) = k.ref
  BY <1>1, <1>2, NamedIs
<1>4. m.ref \in Lookup /\ k.ref \in Lookup
  BY <1>1 DEF LocalTopology, Lookup
<1> DEFINE x == DrawnEdge(a, e)
<1>5. x.key = EdgeKey(a, e)
  BY StatementFields, Zenon
<1>6. EdgeKey(a, e) = <<e.verb, m.ref, k.ref>>
  BY <1>3 DEF EdgeKey
<1>7. Says(x, a)
  BY <1>2, <1>3 DEF Says, IsNamed
<1> HIDE DEF x
<1>8. Heard(x)
  BY <1>4, <1>5, <1>6 DEF Heard
<1> QED BY <1>5, <1>6, <1>7, <1>8 DEF Derived

(* The gaps of a file, and those of all of them. *)
LEMMA GapsOf ==
    ASSUME NEW adr \in Document, NEW S, Range(adr.claims) \subseteq S
    PROVE  /\ Gaps(adr) \in Seq(S)
           /\ \A c : c \in Range(Gaps(adr)) <=> c \in Range(adr.claims) /\ Gap(c)
<1> DEFINE n == Len(adr.claims)
           ss == [i \in 1 .. n |-> When(Gap(adr.claims[i]), adr.claims[i])]
<1>1. n \in Nat /\ DOMAIN adr.claims = 1 .. n
  BY DocumentTyped
<1>2. Range(adr.claims) = {adr.claims[i] : i \in 1 .. n}
  BY <1>1 DEF Range
<1>3. ASSUME NEW i \in 1 .. n
      PROVE  /\ ss[i] \in Seq(S)
             /\ \A x : x \in Range(ss[i]) <=> Gap(adr.claims[i]) /\ x = adr.claims[i]
  <2> DEFINE v == adr.claims[i]
             test == Gap(v)
  <2>1. v \in S /\ ss[i] = When(test, v)
    BY <1>2
  <2>2. test \in BOOLEAN
    BY DEF Gap
  <2> HIDE DEF v, test, ss
  <2>3. /\ When(test, v) \in Seq(S)
        /\ \A x : x \in Range(When(test, v)) <=> test /\ x = v
    BY <2>1, <2>2, RangeOfWhen
  <2> QED BY <2>1, <2>3, Zenon DEF v, test
<1>4. ss = [i \in 1 .. n |-> ss[i]]
  OBVIOUS
<1>5. Gaps(adr) = FlattenSeq(ss)
  BY <1>1, Zenon DEF Gaps
<1> HIDE DEF ss
<1>6. /\ FlattenSeq(ss) \in Seq(S)
      /\ \A x : x \in Range(FlattenSeq(ss)) <=> \E i \in 1 .. n : x \in Range(ss[i])
  <2> HIDE DEF n
  <2> QED BY <1>1, <1>3, <1>4, FlatMembers
<1> HIDE DEF n
<1>7. \A x : (\E i \in 1 .. n : x \in Range(ss[i])) <=> x \in Range(adr.claims) /\ Gap(x)
  BY <1>2, <1>3
<1> QED BY <1>5, <1>6, <1>7

LEMMA GapsInCorpus ==
    ASSUME corpus \in Corpora
    PROVE  \A c : c \in Range(FlattenSeq([i \in DOMAIN corpus |-> Gaps(corpus[i])]))
                  <=> \E a \in ADRs : c \in Range(a.claims) /\ Gap(c)
<1> DEFINE n == Len(corpus)
           S == UNION {Range(a.claims) : a \in ADRs}
           ss == [i \in 1 .. n |-> Gaps(corpus[i])]
           stated == FlattenSeq([i \in DOMAIN corpus |-> Gaps(corpus[i])])
<1>1. /\ n \in Nat /\ DOMAIN corpus = 1 .. n /\ ADRs = {corpus[i] : i \in 1 .. n}
      /\ \A i \in 1 .. n : corpus[i] \in Document
  BY CorpusFacts
<1>2. stated = FlattenSeq(ss)
  BY <1>1, Zenon
<1>3. ss = [i \in 1 .. n |-> ss[i]] /\ \A i \in 1 .. n : ss[i] = Gaps(corpus[i])
  OBVIOUS
<1>4. \A i \in 1 .. n : Range(corpus[i].claims) \subseteq S
  BY <1>1
<1> HIDE DEF ss, S
<1>5. \A i \in 1 .. n : /\ ss[i] \in Seq(S)
                        /\ \A c : c \in Range(ss[i]) <=> c \in Range(corpus[i].claims) /\ Gap(c)
  BY <1>1, <1>3, <1>4, GapsOf
<1>6. \A x : x \in Range(FlattenSeq(ss)) <=> \E i \in 1 .. n : x \in Range(ss[i])
  <2> HIDE DEF n
  <2> QED BY <1>1, <1>3, <1>5, FlatMembers
<1> HIDE DEF n
<1>7. \A x : x \in Range(FlattenSeq(ss)) <=> \E a \in ADRs : x \in Range(a.claims) /\ Gap(x)
  BY <1>1, <1>5, <1>6
<1> QED BY <1>2, <1>7, Zenon

-----------------------------------------------------------------------------
(* After derivation the entities of the corpus stay as they are. *)
LEMMA ReadKept ==
    ASSUME IInv, corpus' = corpus, version' = version, Own' = Own,
           \A id \in Own : entities'[id] = entities[id],
           pc \in {"derive"} \cup {"unresolved", "validate", "assemble", "done"},
           pc' \in {"unresolved", "validate", "assemble", "done"}
    PROVE  /\ ADRs' = ADRs /\ Extended' = Extended /\ Typed' = Typed
           /\ Core' = Core /\ Local' = Local /\ ReadInv'
<1>1. ADRs' = ADRs /\ Typed' = Typed
  BY DEF ADRs, Typed
<1>2. Extended' = Extended
  BY <1>1 DEF Extended
<1>3. Core' = Core
  BY DEF Core
<1>4. Local' = Local
  BY <1>1, <1>3 DEF Local
<1>5. ReadInv
  BY DEF IInv
<1>6. VersionInv' /\ SourceInv' /\ KindInv'
  BY <1>1, <1>5 DEF ReadInv, VersionInv, SourceInv, KindInv
<1>7. LogicalInv' /\ InvariantInv' /\ PhysicalInv'
  BY <1>1, <1>3, <1>5, SourcesKept
<1> QED BY <1>1, <1>2, <1>3, <1>4, <1>6, <1>7 DEF ReadInv

LEMMA TargetsKept ==
    ASSUME systems' = systems
    PROVE  /\ \A c : Target(c)' = Target(c)
           /\ \A c : ClaimKey(c)' = ClaimKey(c)
           /\ \A a, m : MemberKey(a, m)' = MemberKey(a, m)
<1>1. \A c : Target(c)' = Target(c)
  BY DEF Target
<1>2. \A c : ClaimKey(c)' = ClaimKey(c)
  BY <1>1 DEF ClaimKey
<1>3. \A a, m : MemberKey(a, m)' = MemberKey(a, m)
  BY DEF MemberKey
<1> QED BY <1>1, <1>2, <1>3

LEMMA DeriveStep ==
    ASSUME IInv, RelationshipInference
    PROVE  IInv'
<1> DEFINE added == AddRelations(FlattenSeq([i \in DOMAIN corpus |-> Statements(corpus[i])]))
           missing == FlattenSeq([i \in DOMAIN corpus |-> Gaps(corpus[i])])
<1>1. CASE Raise
  BY <1>1, Raised DEF RelationshipInference, Valid
<1>2. CASE ~ Raise
  <2>1. /\ pc = "derive" /\ pc' = "unresolved" /\ relations' = added /\ gaps' = missing
        /\ corpus' = corpus /\ version' = version /\ entities' = entities
        /\ systems' = systems /\ unresolved' = unresolved
    BY <1>2 DEF RelationshipInference, Go
  <2>2. Own' = Own /\ \A id \in Own : entities'[id] = entities[id]
    BY <2>1 DEF Own, Valid
  <2>3. corpus \in Corpora
    BY DEF IInv
  <2>4. Derived(added)
    BY <2>3, Deriving
  <2>5. \A c : c \in Range(missing) <=> \E a \in ADRs : c \in Range(a.claims) /\ Gap(c)
    BY <2>3, GapsInCorpus
  <2>6. /\ ADRs' = ADRs /\ Extended' = Extended /\ Typed' = Typed
        /\ Core' = Core /\ Local' = Local /\ ReadInv'
    BY <2>1, <2>2, ReadKept
  <2>7. /\ \A c : Target(c)' = Target(c)
        /\ \A c : ClaimKey(c)' = ClaimKey(c)
        /\ \A a, m : MemberKey(a, m)' = MemberKey(a, m)
    BY <2>1, TargetsKept
  <2>8. Lookup = Local
    BY <2>1, LookupLocal DEF Valid
  <2> HIDE DEF added, missing
  <2>9. EndsInv'
    BY <2>1, <2>4, <2>6, DerivedEnds DEF EndsInv
  <2>10. StatedInv'
    BY <2>1, <2>4, <2>6, <2>7, ClaimHeard DEF StatedInv, IsGap
  <2>11. MirrorInv'
    BY <2>1, <2>4, DerivedMirrors DEF MirrorInv
  <2>12. ComposedInv'
    BY <2>1, <2>4, <2>6, <2>7, DerivedElsewhere DEF ComposedInv
  <2>13. DrawnInv'
    BY <2>1, <2>4, <2>6, DerivedDrawn DEF DrawnInv
  <2>14. DeclaredInv'
    <3>1. \A id \in Local : entities[id].type # "adr" /\ entities[id].adr \in Local =>
              <<"declared_in", id, entities[id].adr>> \in DOMAIN added
      BY <2>4, <2>8 DEF Derived, Declared
    <3>2. ASSUME PlainVerbs, NEW key \in DOMAIN added, key[1] = "declared_in"
          PROVE  key[2] \in Local /\ key = <<"declared_in", key[2], entities[key[2]].adr>>
      <4>1. key \in Declared
        BY <2>1, <2>4, <3>2, DerivedElsewhere
      <4> QED BY <2>8, <4>1 DEF Declared
    <3> QED BY <2>1, <2>6, <3>1, <3>2 DEF DeclaredInv
  <2>15. RelationInv'
    <3>1. TopologyInv' /\ ExtensionInv'
      BY <2>1 DEF TopologyInv, ExtensionInv
    <3> QED BY <2>9, <2>10, <2>11, <2>12, <2>13, <2>14, <3>1 DEF RelationInv
  <2>16. GapsInv'
    BY <2>1, <2>5, <2>6, <2>7, <2>8 DEF GapsInv, Gap, IsGap, Known
  <2>17. UnresolvedInv'
    BY <2>1, SameUnresolved
  <2>18. ValidInv' /\ BundleInv'
    BY <2>1 DEF ValidInv, BundleInv, Valid, Done
  <2> QED BY <2>1, <2>3, <2>6, <2>15, <2>16, <2>17, <2>18 DEF IInv
<1> QED BY <1>1, <1>2

(* What is related stays related. *)
LEMMA RelationsKept ==
    ASSUME IInv, relations' = relations, systems' = systems, version' = version,
           ADRs' = ADRs, Extended' = Extended, Local' = Local,
           \A id \in Own : entities'[id] = entities[id],
           pc \in {"unresolved", "validate", "assemble", "done"},
           pc' \in {"unresolved", "validate", "assemble", "done"}
    PROVE  RelationInv'
<1>1. RelationInv /\ Sent /\ Sent'
  BY DEF IInv, Sent
<1>2. /\ \A c : Target(c)' = Target(c)
      /\ \A c : ClaimKey(c)' = ClaimKey(c)
      /\ \A a, m : MemberKey(a, m)' = MemberKey(a, m)
  BY TargetsKept
<1>3. Local \subseteq Own
  BY DEF Local, Core
<1>4. EndsInv' /\ DrawnInv'
  BY <1>1 DEF RelationInv, EndsInv, DrawnInv
<1>5. StatedInv' /\ ComposedInv'
  BY <1>1, <1>2 DEF RelationInv, StatedInv, ComposedInv
<1>6. MirrorInv'
  BY <1>1 DEF RelationInv, MirrorInv
<1>7. DeclaredInv'
  <2>1. \A id \in Local : entities'[id] = entities[id]
    BY <1>3
  <2> QED BY <1>1, <2>1 DEF RelationInv, DeclaredInv
<1>8. TopologyInv' /\ ExtensionInv'
  BY DEF TopologyInv, ExtensionInv
<1> QED BY <1>4, <1>5, <1>6, <1>7, <1>8 DEF RelationInv

LEMMA UnresolvedStep ==
    ASSUME IInv, UnresolvedDetection
    PROVE  IInv'
<1>1. CASE Raise
  BY <1>1, Raised DEF UnresolvedDetection, Valid
<1>2. CASE ~ Raise
  <2>1. /\ pc = "unresolved" /\ pc' = "validate"
        /\ unresolved' = unresolved \cup {<<g.field, g.from, g.to>> : g \in Range(gaps)}
        /\ corpus' = corpus /\ version' = version /\ entities' = entities
        /\ systems' = systems /\ relations' = relations
    BY <1>2 DEF UnresolvedDetection, Go
  <2>2. Own' = Own /\ \A id \in Own : entities'[id] = entities[id]
    BY <2>1 DEF Own, Valid
  <2>3. /\ ADRs' = ADRs /\ Extended' = Extended /\ Typed' = Typed
        /\ Core' = Core /\ Local' = Local /\ ReadInv'
    BY <2>1, <2>2, ReadKept
  <2>4. RelationInv'
    BY <2>1, <2>2, <2>3, RelationsKept
  <2>5. \A c : Target(c)' = Target(c)
    BY <2>1, TargetsKept
  <2>6. \A u \in unresolved : OwnGap(u)
    BY <2>1 DEF IInv, UnresolvedInv
  <2>7. \A u : OwnGap(u)' <=> OwnGap(u)
    BY <2>3 DEF OwnGap
  <2>8. \A c : c \in Range(gaps) <=>
            \E a \in ADRs : c \in Range(a.claims) /\ IsGap(c) /\ Target(c) \notin Local
    BY <2>1 DEF IInv, GapsInv
  <2>9. unresolved' = unresolved \cup {Record(g) : g \in Range(gaps)}
    BY <2>1 DEF Record
  <2>10. UnresolvedInv'
    <3>1. ASSUME NEW u \in unresolved'
          PROVE  \/ OwnGap(u)'
                 \/ \E a \in ADRs : \E c \in Range(a.claims) :
                       IsGap(c) /\ Target(c)' \notin Local' /\ u = Record(c)
      <4>1. CASE u \in unresolved
        BY <2>6, <2>7, <4>1
      <4>2. CASE u \notin unresolved
        <5>1. PICK g \in Range(gaps) : u = Record(g)
          BY <2>9, <4>2
        <5>2. PICK a \in ADRs : g \in Range(a.claims) /\ IsGap(g) /\ Target(g) \notin Local
          BY <2>8, <5>1
        <5> QED BY <2>3, <2>5, <5>1, <5>2
      <4> QED BY <4>1, <4>2
    <3>2. ASSUME NEW a \in ADRs, NEW c \in Range(a.claims), IsGap(c), Target(c)' \notin Local'
          PROVE  Record(c) \in unresolved'
      BY <2>3, <2>5, <2>8, <2>9, <3>2
    <3>3. pc' \in {"validate", "assemble", "done"}
      BY <2>1
    <3> QED BY <2>3, <3>1, <3>2, <3>3 DEF UnresolvedInv
  <2>11. GapsInv' /\ ValidInv' /\ BundleInv'
    BY <2>1 DEF GapsInv, ValidInv, BundleInv, Valid, Done
  <2> QED BY <2>1, <2>3, <2>4, <2>10, <2>11 DEF IInv
<1> QED BY <1>1, <1>2

(* What is unresolved stays so. *)
LEMMA UnresolvedKept ==
    ASSUME IInv, unresolved' = unresolved, systems' = systems, ADRs' = ADRs, Local' = Local,
           pc \in {"validate", "assemble", "done"}, pc' \in {"validate", "assemble", "done"}
    PROVE  UnresolvedInv'
<1>1. \A c : Target(c)' = Target(c)
  BY TargetsKept
<1>2. \A u : OwnGap(u)' <=> OwnGap(u)
  BY DEF OwnGap
<1>3. /\ \A u \in unresolved : \/ OwnGap(u)
                               \/ \E a \in ADRs : \E c \in Range(a.claims) :
                                     IsGap(c) /\ Target(c) \notin Local /\ u = Record(c)
      /\ \A a \in ADRs : \A c \in Range(a.claims) :
            IsGap(c) /\ Target(c) \notin Local => Record(c) \in unresolved
  BY DEF IInv, UnresolvedInv
<1>4. /\ \A u \in unresolved' : \/ OwnGap(u)'
                                \/ \E a \in ADRs' : \E c \in Range(a.claims) :
                                      IsGap(c) /\ Target(c)' \notin Local' /\ u = Record(c)
      /\ \A a \in ADRs' : \A c \in Range(a.claims) :
            IsGap(c) /\ Target(c)' \notin Local' => Record(c) \in unresolved'
  BY <1>1, <1>2, <1>3
<1> QED BY <1>4 DEF UnresolvedInv

LEMMA MembershipKept ==
    ASSUME corpus' = corpus, systems' = systems
    PROVE  Membership' <=> Membership
<1>1. \A c : Target(c)' = Target(c)
  BY TargetsKept
<1>2. ADRs' = ADRs
  BY DEF ADRs
<1>3. \A id : Holders(id)' = Holders(id)
  BY DEF Holders
<1>4. \A id : Claimed(id)' = Claimed(id)
  BY <1>1, <1>3 DEF Claimed
<1> QED BY <1>2, <1>4 DEF Membership, OwnSystem

LEMMA ValidationStep ==
    ASSUME IInv, Validation
    PROVE  IInv'
<1>1. CASE Raise
  BY <1>1, Raised DEF Validation, Valid
<1>2. CASE ~ Raise
  <2>1. /\ pc = "validate" /\ pc' = "assemble" /\ entities' = Namespace
        /\ IF Typed THEN TopologySemantics ELSE BundleValid
        /\ Marker \notin DOMAIN entities
        /\ corpus' = corpus /\ version' = version /\ unresolved' = unresolved
        /\ systems' = systems /\ relations' = relations
    BY <1>2 DEF Validation, Go, Typed
  <2>2. Own' = Own /\ \A id \in Own : entities'[id] = entities[id]
    <3>1. Own = DOMAIN entities
      BY <2>1 DEF Own, Valid
    <3>2. Own' = DOMAIN Namespace \ {Marker}
      BY <2>1 DEF Own, Valid, Marker
    <3>3. DOMAIN Namespace = DOMAIN entities \cup {Marker}
      BY DEF Namespace
    <3>4. \A id \in DOMAIN entities : Namespace[id] = entities[id]
      BY <2>1 DEF Namespace
    <3> QED BY <2>1, <3>1, <3>2, <3>3, <3>4
  <2>3. /\ ADRs' = ADRs /\ Extended' = Extended /\ Typed' = Typed
        /\ Core' = Core /\ Local' = Local /\ ReadInv'
    BY <2>1, <2>2, ReadKept
  <2>4. RelationInv'
    BY <2>1, <2>2, <2>3, RelationsKept
  <2>5. UnresolvedInv'
    BY <2>1, <2>3, UnresolvedKept
  <2>6. ValidInv'
    <3>1. Own = DOMAIN entities
      BY <2>1 DEF Own, Valid
    <3>2. ASSUME Typed
          PROVE  /\ Membership
                 /\ \A key \in DOMAIN relations :
                       key[2] \in Own /\ (relations[key].local => key[3] \in Own)
      BY <2>1, <3>1, <3>2 DEF TopologySemantics, EndsFit, Type
    <3>3. ~ Typed => DOMAIN relations \cap Extended = {}
      <4>1. \A key \in Extended : key[1] \notin CoreTypes
        BY ExtensionTypes DEF IInv
      <4> QED BY <2>1, <4>1 DEF BundleValid
    <3>4. Membership' <=> Membership
      BY <2>1, MembershipKept
    <3> QED BY <2>1, <2>2, <2>3, <3>2, <3>3, <3>4 DEF ValidInv, Valid
  <2>7. GapsInv' /\ BundleInv'
    BY <2>1 DEF GapsInv, BundleInv, Done
  <2> QED BY <2>1, <2>3, <2>4, <2>5, <2>6, <2>7 DEF IInv
<1> QED BY <1>1, <1>2

(* Nothing that is projected changes any more. *)
LEMMA RegistriesKept ==
    ASSUME corpus' = corpus, version' = version, entities' = entities,
           relations' = relations, unresolved' = unresolved
    PROVE  Registries' = Registries
<1>1. Extended' = Extended
  BY DEF Extended, ADRs
<1>2. ProjectedEntities' = ProjectedEntities
  BY DEF ProjectedEntities, Publishable
<1>3. ProjectedRelations' = ProjectedRelations
  BY DEF ProjectedRelations, HasUuidEnds
<1>4. \A id : Summary(id)' = Summary(id)
  BY <1>1 DEF Summary
<1>5. \A t : OfType(t)' = OfType(t)
  BY <1>2 DEF OfType
<1>6. LegacyEntities' = LegacyEntities
  BY <1>5 DEF LegacyEntities
<1>7. [id \in ProjectedEntities |-> Summary(id)]' = [id \in ProjectedEntities |-> Summary(id)]
  BY <1>2, <1>4
<1>8. [t \in Legacy \cup {"system"} |-> OfType(t)]' = [t \in Legacy \cup {"system"} |-> OfType(t)]
  BY <1>5
<1>9. HardFailures' = HardFailures
  BY <1>2, <1>4 DEF HardFailures
<1> QED BY <1>2, <1>3, <1>6, <1>7, <1>8, <1>9, Zenon DEF Registries

LEMMA AssembleStep ==
    ASSUME IInv, AssembleBundle
    PROVE  IInv'
<1>1. /\ pc = "assemble" /\ pc' = "done" /\ bundle' = Registries
      /\ corpus' = corpus /\ version' = version /\ entities' = entities
      /\ systems' = systems /\ relations' = relations /\ unresolved' = unresolved
  BY DEF AssembleBundle, Go
<1>2. Own' = Own /\ \A id \in Own : entities'[id] = entities[id]
  BY <1>1 DEF Own, Valid
<1>3. /\ ADRs' = ADRs /\ Extended' = Extended /\ Typed' = Typed
      /\ Core' = Core /\ Local' = Local /\ ReadInv'
  BY <1>1, <1>2, ReadKept
<1>4. RelationInv'
  BY <1>1, <1>2, <1>3, RelationsKept
<1>5. UnresolvedInv'
  BY <1>1, <1>3, UnresolvedKept
<1>6. ValidInv'
  <2>1. Membership' <=> Membership
    BY <1>1, MembershipKept
  <2> QED BY <1>1, <1>2, <1>3, <2>1 DEF IInv, ValidInv, Valid
<1>7. BundleInv'
  <2>1. Registries' = Registries
    BY <1>1, RegistriesKept
  <2> QED BY <1>1, <2>1 DEF BundleInv
<1>8. GapsInv'
  BY <1>1 DEF GapsInv
<1> QED BY <1>1, <1>3, <1>4, <1>5, <1>6, <1>7, <1>8 DEF IInv

-----------------------------------------------------------------------------
LEMMA Stuttering ==
    ASSUME IInv, UNCHANGED vars
    PROVE  IInv'
<1>1. /\ pc' = pc /\ corpus' = corpus /\ version' = version /\ entities' = entities
      /\ systems' = systems /\ relations' = relations /\ gaps' = gaps
      /\ unresolved' = unresolved /\ bundle' = bundle
  BY DEF vars
<1>2. ADRs' = ADRs /\ Typed' = Typed /\ Own' = Own /\ Sent' = Sent
  BY <1>1 DEF ADRs, Typed, Own, Sent
<1>3. Extended' = Extended /\ Core' = Core
  BY <1>1, <1>2 DEF Extended, Core
<1>4. Local' = Local
  BY <1>2, <1>3 DEF Local
<1>5. /\ \A c : Target(c)' = Target(c)
      /\ \A c : ClaimKey(c)' = ClaimKey(c)
      /\ \A a, m : MemberKey(a, m)' = MemberKey(a, m)
  BY <1>1, TargetsKept
<1>6. ReadInv'
  <2>1. VersionInv' /\ SourceInv' /\ KindInv'
    BY <1>1, <1>2 DEF IInv, ReadInv, VersionInv, SourceInv, KindInv
  <2>2. LogicalInv' /\ InvariantInv' /\ PhysicalInv'
    BY <1>1, <1>2, <1>3 DEF IInv, ReadInv, LogicalInv, InvariantInv, PhysicalInv, Holds
  <2> QED BY <2>1, <2>2 DEF ReadInv
<1>7. RelationInv'
  <2>1. RelationInv
    BY DEF IInv
  <2>2. EndsInv' /\ DrawnInv' /\ MirrorInv' /\ DeclaredInv' /\ ExtensionInv'
    BY <1>1, <1>2, <1>3, <1>4, <2>1 DEF RelationInv, EndsInv, DrawnInv, MirrorInv, DeclaredInv, ExtensionInv
  <2>3. StatedInv' /\ ComposedInv'
    BY <1>1, <1>2, <1>4, <1>5, <2>1 DEF RelationInv, StatedInv, ComposedInv
  <2>4. TopologyInv'
    BY <1>1, <1>2, <2>1 DEF RelationInv, TopologyInv, LocalTopology, Handles
  <2> QED BY <2>2, <2>3, <2>4 DEF RelationInv
<1>8. GapsInv'
  BY <1>1, <1>2, <1>4, <1>5 DEF IInv, GapsInv
<1>9. UnresolvedInv'
  <2>1. CASE pc \in {"validate", "assemble", "done"}
    BY <1>1, <1>2, <1>4, <2>1, UnresolvedKept
  <2>2. CASE pc \notin {"validate", "assemble", "done"}
    <3>1. \A u : OwnGap(u)' <=> OwnGap(u)
      BY <1>2 DEF OwnGap
    <3> QED BY <1>1, <2>2, <3>1 DEF IInv, UnresolvedInv
  <2> QED BY <2>1, <2>2
<1>10. ValidInv'
  <2>1. Membership' <=> Membership
    BY <1>1, MembershipKept
  <2> QED BY <1>1, <1>2, <1>3, <2>1 DEF IInv, ValidInv
<1>11. BundleInv'
  <2>1. Registries' = Registries
    BY <1>1, RegistriesKept
  <2> QED BY <1>1, <2>1 DEF IInv, BundleInv, Done
<1> QED BY <1>1, <1>6, <1>7, <1>8, <1>9, <1>10, <1>11 DEF IInv

LEMMA Initially == Init => IInv
<1> SUFFICES ASSUME Init PROVE IInv
  OBVIOUS
<1>1. /\ corpus \in Corpora /\ pc = "detect" /\ version = "" /\ unresolved = {}
      /\ entities = <<>>
  BY DEF Init, Empty
<1>2. Own = {} /\ DOMAIN entities = {}
  <2>1. DOMAIN <<>> = {}
    OBVIOUS
  <2> QED BY <1>1, <2>1 DEF Own, Valid
<1>3. VersionInv /\ SourceInv /\ KindInv
  BY <1>1, <1>2 DEF VersionInv, SourceInv, KindInv, Typed
<1>4. LogicalInv /\ InvariantInv /\ PhysicalInv
  BY <1>1 DEF LogicalInv, InvariantInv, PhysicalInv
<1>5. RelationInv
  BY <1>1 DEF RelationInv, EndsInv, StatedInv, MirrorInv, ComposedInv, DrawnInv, TopologyInv,
              DeclaredInv, ExtensionInv, Sent
<1>6. GapsInv /\ UnresolvedInv /\ ValidInv /\ BundleInv
  BY <1>1 DEF GapsInv, UnresolvedInv, ValidInv, BundleInv, Valid, Done
<1> QED BY <1>1, <1>3, <1>4, <1>5, <1>6 DEF IInv, ReadInv

LEMMA EveryStep == IInv /\ [Next]_vars => IInv'
<1> SUFFICES ASSUME IInv, [Next]_vars PROVE IInv'
  OBVIOUS
<1>1. CASE VersionDetection
  BY <1>1, DetectStep
<1>2. CASE LogicalEntityExtraction
  BY <1>2, LogicalStep
<1>3. CASE InvariantExtraction
  BY <1>3, InvariantStep
<1>4. CASE PhysicalEntityExtraction
  BY <1>4, PhysicalStep
<1>5. CASE NormativePropositionExtraction
  BY <1>5, PropositionStep
<1>6. CASE ExtensionEntityExtraction
  BY <1>6, ExtensionStep
<1>7. CASE TopologyResolution
  BY <1>7, TopologyStep
<1>8. CASE RelationshipInference
  BY <1>8, DeriveStep
<1>9. CASE UnresolvedDetection
  BY <1>9, UnresolvedStep
<1>10. CASE Validation
  BY <1>10, ValidationStep
<1>11. CASE AssembleBundle
  BY <1>11, AssembleStep
<1>12. CASE Halt
  BY <1>12, Stuttering DEF Halt
<1>13. CASE UNCHANGED vars
  BY <1>13, Stuttering
<1> QED BY <1>1, <1>2, <1>3, <1>4, <1>5, <1>6, <1>7, <1>8, <1>9, <1>10, <1>11, <1>12, <1>13 DEF Next

(* A model version is chosen before anything is read, and the namespace    *)
(* marker is there once the model is valid.                                *)
EraInv == pc \notin {"detect", "failed"} => version \in {"1.1", "2.0", "2.1", "2.2", "2.3"}

MarkerInv == pc \in Valid => Marker \in DOMAIN entities /\ entities[Marker].adr = "PROJECT.yaml"

LEMMA EraAndMarker == EraInv /\ MarkerInv /\ [Next]_vars => EraInv' /\ MarkerInv'
<1> SUFFICES ASSUME EraInv, MarkerInv, [Next]_vars PROVE EraInv' /\ MarkerInv'
  OBVIOUS
<1>1. CASE Raise
  BY <1>1 DEF Raise, EraInv, MarkerInv, Valid
<1>2. CASE VersionDetection /\ ~ Raise
  <2> DEFINE versions == {a.version : a \in ADRs}
             modern   == versions \cap DOMAIN Line
             v        == CHOOSE w \in modern : TRUE
  <2>1. pc' = "logical" /\ version' = IF modern = {} THEN "1.1" ELSE Line[v]
    BY <1>2 DEF VersionDetection, Go
  <2>2. DOMAIN Line = {"1.3", "1.4", "1.5", "1.6"}
    BY DEF Line
  <2>3. \A w \in DOMAIN Line : Line[w] \in {"2.0", "2.1", "2.2", "2.3"}
    BY DEF Line
  <2>4. modern # {} => v \in DOMAIN Line
    OBVIOUS
  <2> HIDE DEF modern, v
  <2>5. version' \in {"1.1", "2.0", "2.1", "2.2", "2.3"}
    <3>1. CASE modern = {}
      BY <2>1, <3>1
    <3>2. CASE modern # {}
      <4>1. Line[v] \in {"2.0", "2.1", "2.2", "2.3"}
        BY <2>3, <2>4, <3>2
      <4> QED BY <2>1, <3>2, <4>1
    <3> QED BY <3>1, <3>2
  <2> QED BY <2>1, <2>5 DEF EraInv, MarkerInv, Valid
<1>3. CASE Validation /\ ~ Raise
  <2>1. pc = "validate" /\ pc' = "assemble" /\ entities' = Namespace /\ version' = version
    BY <1>3 DEF Validation, Go
  <2>2. Marker \in DOMAIN Namespace /\ Namespace[Marker] = [type |-> "boundary", adr |-> "PROJECT.yaml"]
    BY DEF Namespace
  <2>3. [type |-> "boundary", adr |-> "PROJECT.yaml"].adr = "PROJECT.yaml"
    OBVIOUS
  <2>4. entities'[Marker].adr = "PROJECT.yaml"
    BY <2>1, <2>2, <2>3
  <2>5. Marker' = Marker
    BY DEF Marker
  <2> QED BY <2>1, <2>2, <2>4, <2>5 DEF EraInv, MarkerInv
<1>4. CASE \/ LogicalEntityExtraction \/ InvariantExtraction \/ PhysicalEntityExtraction
           \/ NormativePropositionExtraction \/ ExtensionEntityExtraction \/ TopologyResolution
           \/ RelationshipInference \/ UnresolvedDetection
  <2>1. CASE ~ Raise
    <3>1. version' = version /\ pc \notin {"detect", "failed"} /\ pc' \notin Valid
      BY <1>4, <2>1 DEF LogicalEntityExtraction, InvariantExtraction, PhysicalEntityExtraction,
                        NormativePropositionExtraction, ExtensionEntityExtraction,
                        TopologyResolution, RelationshipInference, UnresolvedDetection, Go, Valid
    <3> QED BY <3>1 DEF EraInv, MarkerInv
  <2> QED BY <1>1, <2>1
<1>5. CASE AssembleBundle
  BY <1>5 DEF AssembleBundle, Go, EraInv, MarkerInv, Valid, Marker
<1>6. CASE Halt \/ UNCHANGED vars
  BY <1>6 DEF Halt, vars, EraInv, MarkerInv, Valid, Marker
<1> QED BY <1>1, <1>2, <1>3, <1>4, <1>5, <1>6 DEF Next

(* The system of each system ADR, once the physical files are read. *)
SystemsInv ==
    pc \notin {"detect", "logical", "invariants", "physical", "failed"} =>
        \A a \in ADRs : a.kind = "system" => systems[a.id] = SystemOf(a.id)

LEMMA SystemsStep == SystemsInv /\ [Next]_vars => SystemsInv'
<1> SUFFICES ASSUME SystemsInv, [Next]_vars PROVE SystemsInv'
  OBVIOUS
<1>1. corpus' = corpus
  BY DEF Next, VersionDetection, LogicalEntityExtraction, InvariantExtraction,
         PhysicalEntityExtraction, NormativePropositionExtraction, ExtensionEntityExtraction,
         TopologyResolution, RelationshipInference, UnresolvedDetection, Validation,
         AssembleBundle, Halt, Raise, vars
<1>2. ADRs' = ADRs /\ \A id : SystemOf(id)' = SystemOf(id)
  BY <1>1 DEF ADRs, SystemOf, OwnSystem
<1>3. CASE Raise
  BY <1>3 DEF Raise, SystemsInv
<1>4. CASE PhysicalEntityExtraction /\ ~ Raise
  <2>1. systems' = [id \in {a.id : a \in {b \in ADRs : b.kind = "system"}} |-> SystemOf(id)]
    BY <1>4 DEF PhysicalEntityExtraction
  <2>2. \A a \in ADRs : a.kind = "system" => systems'[a.id] = SystemOf(a.id)
    BY <2>1
  <2> QED BY <1>2, <2>2 DEF SystemsInv
<1>5. CASE \/ VersionDetection \/ LogicalEntityExtraction \/ InvariantExtraction
  <2>1. CASE ~ Raise
    BY <1>5, <2>1 DEF VersionDetection, LogicalEntityExtraction, InvariantExtraction, Go, SystemsInv
  <2> QED BY <1>3, <2>1
<1>6. CASE \/ NormativePropositionExtraction \/ ExtensionEntityExtraction \/ TopologyResolution
           \/ RelationshipInference \/ UnresolvedDetection \/ Validation \/ AssembleBundle
  <2>1. CASE ~ Raise
    <3>1. /\ systems' = systems
          /\ pc \notin {"detect", "logical", "invariants", "physical", "failed"}
      BY <1>6, <2>1 DEF NormativePropositionExtraction, ExtensionEntityExtraction,
             TopologyResolution, RelationshipInference, UnresolvedDetection, Validation,
             AssembleBundle, Go
    <3> QED BY <1>2, <3>1 DEF SystemsInv
  <2> QED BY <1>3, <2>1
<1>7. CASE Halt \/ UNCHANGED vars
  BY <1>2, <1>7 DEF Halt, vars, SystemsInv
<1> QED BY <1>3, <1>4, <1>5, <1>6, <1>7 DEF Next

(* Compilation keeps the inductive invariant, whatever the corpus. *)
THEOREM CompilationInvariant == Spec => [](IInv /\ EraInv /\ MarkerInv /\ SystemsInv)
<1>1. Init => IInv /\ EraInv /\ MarkerInv /\ SystemsInv
  BY Initially DEF Init, EraInv, MarkerInv, SystemsInv, Valid
<1>2. IInv /\ EraInv /\ MarkerInv /\ SystemsInv /\ [Next]_vars =>
          (IInv /\ EraInv /\ MarkerInv /\ SystemsInv)'
  BY EveryStep, EraAndMarker, SystemsStep, Zenon
<1> QED BY <1>1, <1>2, PTL DEF Spec

-----------------------------------------------------------------------------
(* Only the relations of a rule binding may end outside. *)
LEMMA GapTypes ==
    \A f \in Field : Rule[f].missing = "gap" => Rule[f].type # "binds_rule"
  BY RulesPair DEF Pairs

LEMMA Published ==
    ASSUME IInv, Done
    PROVE  /\ bundle.relations = ProjectedRelations /\ bundle.unresolved = unresolved
           /\ bundle.entities = ProjectedEntities /\ bundle.failures = HardFailures
           /\ \A id \in ProjectedEntities : bundle.summary[id] = Summary(id)
<1>1. bundle = Registries
  BY DEF IInv, BundleInv
<1>2. /\ Registries.relations = ProjectedRelations /\ Registries.unresolved = unresolved
      /\ Registries.entities = ProjectedEntities /\ Registries.failures = HardFailures
      /\ Registries.summary = [id \in ProjectedEntities |-> Summary(id)]
  BY DEF Registries
<1> QED BY <1>1, <1>2

(* All but the relations of a rule binding are local, and every one is      *)
(* published but those that are dropped.                                    *)
LEMMA PublishedRelations ==
    ASSUME IInv, Done
    PROVE  /\ \A key \in DOMAIN relations : key \in bundle.relations <=> ~ Dropped(key)
           /\ \A key \in DOMAIN relations : key[1] # "binds_rule" => relations[key].local
           /\ bundle.relations \subseteq DOMAIN relations
<1>1. bundle.relations = ProjectedRelations
  BY Published
<1>2. \A key \in DOMAIN relations : relations[key].local \/ key[1] = "binds_rule"
  BY DEF IInv, RelationInv, EndsInv, Sent, Done
<1> QED BY <1>1, <1>2 DEF ProjectedRelations, Dropped

(* A relation and its mirror image are published together. *)
LEMMA MirrorsPublished ==
    ASSUME IInv, Done, NEW key \in bundle.relations, NEW mirror \in DOMAIN relations,
           mirror[2] = key[3], mirror[3] = key[2]
    PROVE  mirror \in bundle.relations
<1>1. ~ Dropped(key)
  BY PublishedRelations
<1>2. ~ Dropped(mirror)
  BY <1>1 DEF Dropped, HasUuidEnds
<1> QED BY <1>2, PublishedRelations

(* A reference whose target is missing is recorded, once and by its field; *)
(* the others have become relations.                                       *)
LEMMA Accounted ==
    ASSUME IInv, Done, NEW a \in ADRs, NEW c \in Range(a.claims), IsGap(c)
    PROVE  /\ ClaimKey(c) \in DOMAIN relations <=> Target(c) \in Local
           /\ Record(c) \in bundle.unresolved <=> Target(c) \notin Local
           /\ ClaimKey(c)[1] # "binds_rule" /\ ClaimKey(c) \notin Extended
<1>1. c.field \in Field /\ Rule[c.field].type # "binds_rule" /\ Rule[c.field].type \in CoreTypes
  BY ClaimsRead, GapTypes, TypesOfTheCore DEF IsGap
<1>2. /\ ClaimKey(c)[1] = Rule[c.field].type
      /\ {ClaimKey(c)[2], ClaimKey(c)[3]} = {c.from, Target(c)}
  BY ClaimKeyParts
<1>3. Target(c) \in Local => ClaimKey(c) \in DOMAIN relations
  BY DEF IInv, RelationInv, StatedInv, Sent, Done
<1>4. ClaimKey(c) \notin Extended
  BY <1>1, <1>2, ExtensionTypes DEF IInv
<1>5. ClaimKey(c) \in DOMAIN relations => Target(c) \in Local
  <2>1. SUFFICES ASSUME ClaimKey(c) \in DOMAIN relations PROVE Target(c) \in Local
    OBVIOUS
  <2>2. relations[ClaimKey(c)].local
    BY <1>1, <1>2, <2>1, PublishedRelations
  <2>3. ClaimKey(c)[2] \in Local /\ ClaimKey(c)[3] \in Local
    BY <1>4, <2>1, <2>2 DEF IInv, RelationInv, EndsInv, Sent, Done
  <2> QED BY <1>2, <2>3
<1>6. Target(c) \notin Local => Record(c) \in unresolved
  BY DEF IInv, UnresolvedInv, Done
<1>7. Record(c) \in unresolved => Target(c) \notin Local
  <2>1. SUFFICES ASSUME Record(c) \in unresolved PROVE Target(c) \notin Local
    OBVIOUS
  <2>2. ~ OwnGap(Record(c))
    BY <1>1, Fields DEF OwnGap, Record
  <2>3. PICK b \in ADRs : \E d \in Range(b.claims) : Target(d) \notin Local /\ Record(c) = Record(d)
    BY <2>1, <2>2 DEF IInv, UnresolvedInv, Done
  <2>4. PICK d \in Range(b.claims) : Target(d) \notin Local /\ Record(c) = Record(d)
    BY <2>3
  <2>5. c.field = d.field /\ c.to = d.to
    BY <2>4 DEF Record
  <2>6. Target(c) = Target(d)
    BY <2>5 DEF Target
  <2> QED BY <2>4, <2>6
<1> QED BY <1>1, <1>2, <1>3, <1>4, <1>5, <1>6, <1>7, Published

(* Whatever is compiled, a reference whose absence is reported becomes a    *)
(* relation or an unresolved record, never both; and a relation that no end *)
(* without a UUID keeps out is published, one that is kept out stays in the *)
(* summary of its source.                                                   *)
THEOREM AccountsForReferences == Spec => []ReferencesAccounted
<1>1. IInv => ReferencesAccounted
  <2> SUFFICES ASSUME IInv, Done, NEW a \in ADRs, NEW c \in Range(a.claims),
                      Rule[c.field].missing = "gap", NEW key, key = ClaimKey(c)
               PROVE  /\ (key \in DOMAIN relations)
                             # (<<c.field, c.from, c.to>> \in bundle.unresolved)
                      /\ key \in DOMAIN relations =>
                            IF Dropped(key) THEN key[2] \in bundle.entities => key \in bundle.summary[key[2]]
                            ELSE key \in bundle.relations
    BY Zenon DEF ReferencesAccounted
  <2> DEFINE related == key \in DOMAIN relations
             recorded == Record(c) \in bundle.unresolved
  <2>1. (related <=> ~ recorded) /\ key[1] # "binds_rule" /\ key \notin Extended
    BY Accounted DEF IsGap
  <2>2. related \in BOOLEAN /\ recorded \in BOOLEAN
    OBVIOUS
  <2>3. ASSUME related
        PROVE  IF Dropped(key) THEN key[2] \in bundle.entities => key \in bundle.summary[key[2]]
               ELSE key \in bundle.relations
    <3>1. relations[key].local /\ (key \in bundle.relations <=> ~ Dropped(key))
      BY <2>1, <2>3, PublishedRelations
    <3>2. key \in Summary(key[2])
      BY <2>1, <2>3, <3>1 DEF Summary
    <3>3. key[2] \in bundle.entities => bundle.summary[key[2]] = Summary(key[2])
      BY Published
    <3> QED BY <3>1, <3>2, <3>3
  <2> HIDE DEF recorded
  <2>4. related # recorded
    <3> HIDE DEF related
    <3> QED BY <2>1, <2>2
  <2> QED BY <2>3, <2>4, Zenon DEF recorded, Record
<1> QED BY <1>1, CompilationInvariant, PTL

(* No edge of a topology of model 2.2 is dropped by derivation, by the      *)
(* validation or by the projection, however many files state it.            *)
THEOREM KeepsTopology == Spec => []TopologyKept
<1>1. IInv => TopologyKept
  <2> SUFFICES ASSUME IInv, Done, version = "2.2", NEW a \in ADRs, a.kind = "system",
                      NEW e \in Range(a.edges), NEW m \in Range(a.members),
                      NEW n \in Range(a.members), m.handle = e.from, n.handle = e.to
               PROVE  <<e.verb, m.ref, n.ref>> \in bundle.relations
    BY Zenon DEF TopologyKept
  <2> DEFINE key == <<e.verb, m.ref, n.ref>>
  <2>1. key \in DOMAIN relations
    BY DEF IInv, RelationInv, DrawnInv, Sent, Done
  <2>2. {m.ref, n.ref} \subseteq Uuids
    <3>1. Admissible(a) /\ a.version \in {"1.5", "1.6"}
      BY CorpusFacts DEF IInv, ReadInv, VersionInv, Typed
    <3> QED BY <3>1 DEF Admissible
  <2>3. ~ Dropped(key)
    BY <2>2 DEF Dropped, HasUuidEnds
  <2> HIDE DEF key
  <2>4. key \in bundle.relations
    BY <2>1, <2>3, PublishedRelations
  <2> QED BY <2>4 DEF key
<1> QED BY <1>1, CompilationInvariant, PTL

(* With one system for each id, derivation and validation agree on it. *)
LEMMA OwnIsLast ==
    ASSUME IInv, SystemsInv, Done, OneSystemEach, NEW a \in ADRs, a.kind = "system"
    PROVE  systems[a.id] = OwnSystem(a)
<1> DEFINE n    == Len(corpus)
           same == {i \in DOMAIN corpus : corpus[i].kind = "system" /\ corpus[i].id = a.id}
<1>1. n \in Nat /\ DOMAIN corpus = 1 .. n /\ ADRs = {corpus[i] : i \in 1 .. n}
  BY CorpusFacts DEF IInv
<1>2. same \in SUBSET (0 .. n) /\ same # {}
  BY <1>1
<1>3. Max(same) \in same
  BY <1>1, <1>2, MaxInside
<1>4. corpus[Max(same)] = a
  BY <1>1, <1>3 DEF OneSystemEach
<1>5. SystemOf(a.id) = OwnSystem(corpus[Max(same)])
  BY Zenon DEF SystemOf
<1> QED BY <1>4, <1>5 DEF SystemsInv, Done

(* Membership is told by the component too, and its relation is there. *)
LEMMA Embodied ==
    ASSUME IInv, SystemsInv, Done, Typed, PlainVerbs, OneSystemEach,
           NEW key \in DOMAIN relations, key[1] = "composed_of"
    PROVE  <<"embodied_in", key[3], key[2]>> \in DOMAIN relations
<1>1. PICK a \in ADRs : a.kind = "system" /\ \E m \in Range(a.members) : key = MemberKey(a, m)
  BY DEF IInv, RelationInv, ComposedInv, Sent, Done
<1>2. PICK m \in Range(a.members) : key = MemberKey(a, m)
  BY <1>1
<1>3. m.ref # NoRef
  BY SlimMembers
<1>4. key = <<"composed_of", systems[a.id], m.ref>>
  BY <1>2, <1>3 DEF MemberKey
<1>5. key[2] = systems[a.id] /\ key[3] = m.ref
  BY <1>4
<1>6. Membership /\ key[2] \in Local
  <2>1. Membership /\ key[2] \in Own
    BY DEF IInv, ValidInv, Valid, Done
  <2> QED BY <2>1 DEF Local
<1>7. systems[a.id] \in Claimed(m.ref)
  <2>1. OwnSystem(a) \in Claimed(m.ref)
    BY <1>1, <1>3, <1>6 DEF Membership
  <2> QED BY <1>1, <2>1, OwnIsLast
<1>8. PICK d \in UNION {Range(corpus[i].claims) : i \in Holders(m.ref)} :
          d.field = "implements_system" /\ d.from = m.ref /\ systems[a.id] = Target(d)
  BY <1>7 DEF Claimed
<1>9. PICK i \in DOMAIN corpus : d \in Range(corpus[i].claims)
  BY <1>8 DEF Holders
<1>10. PICK b \in ADRs : d \in Range(b.claims)
  BY <1>9 DEF ADRs, Range
<1>11. IsGap(d) /\ Target(d) \in Local
  BY <1>5, <1>6, <1>8, SystemRule DEF IsGap
<1>12. ClaimKey(d) \in DOMAIN relations
  BY <1>10, <1>11, Accounted
<1>13. ClaimKey(d) = <<Rule[d.field].type, d.from, Target(d)>>
  BY <1>8, SystemRule, ClaimKeyParts
<1>14. ClaimKey(d) = <<"embodied_in", m.ref, systems[a.id]>>
  BY <1>8, <1>13, SystemRule
<1> QED BY <1>5, <1>12, <1>14

(* Relations that have inverses come in pairs, and membership is told by    *)
(* both ends, unless a topology of line 1.3 or 1.4 takes for a verb a type  *)
(* that derivation gives a meaning: such an edge has no inverse.            *)
THEOREM PublishesInverses ==
    ASSUME PlainVerbs
    PROVE  Spec => []InversesTogether
<1>1. IInv /\ SystemsInv => InversesTogether
  <2> SUFFICES ASSUME IInv, SystemsInv, Done, NEW key \in bundle.relations
               PROVE  /\ key[1] \in DOMAIN Opposite =>
                            <<Opposite[key[1]], key[3], key[2]>> \in bundle.relations
                      /\ key[1] = "composed_of" /\ version \in {"2.2", "2.3"} /\ OneSystemEach =>
                            <<"embodied_in", key[3], key[2]>> \in bundle.relations
    BY Zenon DEF InversesTogether
  <2>1. key \in DOMAIN relations
    BY PublishedRelations
  <2>2. ASSUME key[1] \in DOMAIN Opposite
        PROVE  <<Opposite[key[1]], key[3], key[2]>> \in bundle.relations
    <3> DEFINE mirror == <<Opposite[key[1]], key[3], key[2]>>
    <3>1. mirror \in DOMAIN relations
      BY <2>1, <2>2 DEF IInv, RelationInv, MirrorInv, Sent, Done
    <3>2. mirror[2] = key[3] /\ mirror[3] = key[2]
      OBVIOUS
    <3> HIDE DEF mirror
    <3>3. mirror \in bundle.relations
      BY <3>1, <3>2, MirrorsPublished
    <3> QED BY <3>3 DEF mirror
  <2>3. ASSUME key[1] = "composed_of", version \in {"2.2", "2.3"}, OneSystemEach
        PROVE  <<"embodied_in", key[3], key[2]>> \in bundle.relations
    <3> DEFINE mirror == <<"embodied_in", key[3], key[2]>>
    <3>1. mirror \in DOMAIN relations
      BY <2>1, <2>3, Embodied DEF Typed
    <3>2. mirror[2] = key[3] /\ mirror[3] = key[2]
      OBVIOUS
    <3> HIDE DEF mirror
    <3>3. mirror \in bundle.relations
      BY <3>1, <3>2, MirrorsPublished
    <3> QED BY <3>3 DEF mirror
  <2> QED BY <2>2, <2>3
<1>2. [](IInv /\ SystemsInv) => []InversesTogether
  BY <1>1, PTL
<1> QED BY <1>2, CompilationInvariant, PTL

(* An entity of the corpus is published, if its model version has the      *)
(* extensions.                                                             *)
LEMMA PublishedEntities ==
    ASSUME IInv, MarkerInv, Done
    PROVE  /\ \A id \in ProjectedEntities :
                 /\ id \in Own /\ Publishable(id)
                 /\ entities[id].type = "extension" => version \notin {"1.1", "2.0"}
           /\ \A id \in Core \cup Local : Publishable(id) => id \in ProjectedEntities
<1>1. Own = DOMAIN entities \ {Marker} /\ Marker \in DOMAIN entities
      /\ entities[Marker].adr = "PROJECT.yaml"
  BY DEF Own, Valid, Done, MarkerInv
<1>2. \A id \in Own : entities[id].adr # "PROJECT.yaml"
  <2> SUFFICES ASSUME NEW id \in Own PROVE entities[id].adr # "PROJECT.yaml"
    OBVIOUS
  <2>1. PICK a \in ADRs : entities[id].adr = a.id
    BY DEF IInv, ReadInv, SourceInv
  <2>2. a.id # "PROJECT.yaml"
    BY CorpusFacts DEF IInv, Admissible
  <2> QED BY <2>1, <2>2
<1>3. ProjectedEntities =
         {id \in Own : Publishable(id) /\ (entities[id].type = "extension" => version \notin {"1.1", "2.0"})}
  BY <1>1, <1>2 DEF ProjectedEntities
<1>4. \A id \in Core \cup Local : id \in Own /\ (entities[id].type = "extension" => version \notin {"1.1", "2.0"})
  BY DEF Core, Local, Typed
<1> QED BY <1>3, <1>4

LEMMA ClosedRelations ==
    ASSUME IInv, MarkerInv, Done, NEW key \in bundle.relations
    PROVE  /\ key[2] \in bundle.entities
           /\ relations[key].local => key[3] \in bundle.entities
<1>1. key \in DOMAIN relations /\ bundle.entities = ProjectedEntities /\ ~ Dropped(key)
  BY Published, PublishedRelations
<1>2. Publishable(key[2]) /\ Publishable(key[3])
  BY <1>1 DEF Dropped, HasUuidEnds, Publishable
<1>3. key[2] \in Local /\ (relations[key].local => key[3] \in Local)
  <2>1. CASE Typed
    BY <1>1, <2>1 DEF IInv, ValidInv, Valid, Done, Local
  <2>2. CASE ~ Typed
    <3>1. key \notin Extended
      BY <1>1, <2>2 DEF IInv, ValidInv, Valid, Done
    <3> QED BY <1>1, <3>1 DEF IInv, RelationInv, EndsInv, Sent, Done
  <2> QED BY <2>1, <2>2
<1> QED BY <1>1, <1>2, <1>3, PublishedEntities

LEMMA ClosedRecords ==
    ASSUME IInv, MarkerInv, Done, NEW u \in bundle.unresolved
    PROVE  u[2] \in bundle.entities \/ Outside(u, u[2])
<1>1. u \in unresolved /\ bundle.entities = ProjectedEntities /\ bundle.failures = HardFailures
  BY Published
<1>2. u[2] \in Core
  <2>1. CASE OwnGap(u)
    BY <2>1, SourcesRead DEF OwnGap, Sent, Done
  <2>2. CASE ~ OwnGap(u)
    <3>1. PICK a \in ADRs : \E c \in Range(a.claims) : u = Record(c)
      BY <1>1, <2>2 DEF IInv, UnresolvedInv, Done
    <3>2. PICK c \in Range(a.claims) : u = Record(c)
      BY <3>1
    <3>3. u[2] = c.from
      BY <3>2 DEF Record
    <3>4. c.from \in Core
      BY SourcesRead DEF Sent, Done
    <3> QED BY <3>3, <3>4
  <2> QED BY <2>1, <2>2
<1>3. ASSUME ~ Publishable(u[2])
      PROVE  version = "2.0" => u \in HardFailures
  <2>1. u[2] \notin ProjectedEntities
    BY <1>3 DEF ProjectedEntities
  <2> QED BY <1>1, <2>1 DEF HardFailures
<1> QED BY <1>1, <1>2, <1>3, PublishedEntities DEF Outside

(* A summary agrees with the relations, but for what they drop. *)
LEMMA ClosedSummaries ==
    ASSUME IInv, MarkerInv, Done, NEW id \in bundle.entities, NEW key \in bundle.summary[id]
    PROVE  key \in bundle.relations \/ Outside(key, key[3])
<1>1. /\ id \in ProjectedEntities /\ bundle.failures = HardFailures
      /\ bundle.summary[id] = Summary(id)
  BY Published
<1>2. key \in DOMAIN relations /\ key[2] = id
  BY <1>1 DEF Summary
<1>3. ASSUME key \notin bundle.relations
      PROVE  Outside(key, key[3])
  <2>1. Dropped(key) /\ Publishable(key[2])
    BY <1>1, <1>2, <1>3, PublishedRelations, PublishedEntities
  <2>2. ~ Publishable(key[3])
    BY <2>1 DEF Dropped, HasUuidEnds, Publishable
  <2>3. key[3] \notin ProjectedEntities
    BY <2>2 DEF ProjectedEntities
  <2>4. key \in UNION {Summary(other) : other \in ProjectedEntities}
    BY <1>1
  <2>5. version = "2.0" => key \in HardFailures
    BY <2>3, <2>4 DEF HardFailures
  <2> QED BY <1>1, <2>2, <2>5 DEF Outside
<1> QED BY <1>3

(* One declaration for each nested entity. *)
LEMMA DeclaredOnceEach ==
    ASSUME IInv, EraInv, MarkerInv, Done, PlainVerbs, NEW id \in bundle.entities,
           id \notin {a.id : a \in ADRs}, entities[id].type # "extension" \/ version # "2.1"
    PROVE  Cardinality({key \in bundle.summary[id] : key[1] = "declared_in"}) = 1
<1> DEFINE one == <<"declared_in", id, entities[id].adr>>
<1>1. bundle.entities = ProjectedEntities /\ bundle.summary[id] = Summary(id)
  BY Published
<1>2. id \in Own /\ (entities[id].type = "extension" => version \notin {"1.1", "2.0"})
  BY <1>1, PublishedEntities
<1>3. id \in Local
  <2>1. version \in {"1.1", "2.0", "2.1", "2.2", "2.3"}
    BY DEF EraInv, Done
  <2> QED BY <1>2, <2>1 DEF Local, Typed, Core
<1>4. PICK a \in ADRs : entities[id].adr = a.id /\ (entities[id].type = "adr" => id = a.id)
  BY <1>2 DEF IInv, ReadInv, SourceInv
<1>5. entities[id].type # "adr" /\ entities[id].adr \in Local
  <2>1. a.id \in Local
    BY SourcesRead DEF Sent, Done
  <2> QED BY <1>4, <2>1
<1>6. one \in DOMAIN relations
  BY <1>3, <1>5 DEF IInv, RelationInv, DeclaredInv, Sent, Done
<1>7. one[1] = "declared_in" /\ one[2] = id
  OBVIOUS
<1>8. one \in Summary(id)
  <2> HIDE DEF one
  <2>1. relations[one].local
    BY <1>6, <1>7, PublishedRelations
  <2>2. one \notin Extended
    BY <1>7, ExtensionTypes, TypesOfTheCore DEF IInv
  <2> QED BY <1>6, <1>7, <2>1, <2>2 DEF Summary
<1>9. ASSUME NEW key \in Summary(id), key[1] = "declared_in"
      PROVE  key = one
  <2>1. key \in DOMAIN relations /\ key[2] = id
    BY DEF Summary
  <2>2. key = <<"declared_in", key[2], entities[key[2]].adr>>
    BY <1>9, <2>1 DEF IInv, RelationInv, DeclaredInv, Sent, Done
  <2> QED BY <2>1, <2>2
<1> HIDE DEF one
<1>10. {key \in bundle.summary[id] : key[1] = "declared_in"} = {one}
  BY <1>1, <1>7, <1>8, <1>9
<1> QED BY <1>10, FS_Singleton

(* The published bundle names nothing outside itself but what has no UUID,  *)
(* which model 2.0 reports, and tells of every nested entity where it is    *)
(* declared, exactly once: an edge of a topology with the verb declared_in  *)
(* would tell it twice.                                                     *)
THEOREM PublishesClosed ==
    ASSUME PlainVerbs
    PROVE  Spec => []BundleClosed
<1>1. IInv /\ EraInv /\ MarkerInv => BundleClosed
  <2> SUFFICES ASSUME IInv, EraInv, MarkerInv, Done
               PROVE  BundleClosed
    BY DEF BundleClosed
  <2>1. \A key \in bundle.relations :
           /\ key[2] \in bundle.entities
           /\ relations[key].local => key[3] \in bundle.entities
    BY ClosedRelations
  <2>2. \A u \in bundle.unresolved : u[2] \in bundle.entities \/ Outside(u, u[2])
    BY ClosedRecords
  <2>3. \A id \in bundle.entities : \A key \in bundle.summary[id] :
           key \in bundle.relations \/ Outside(key, key[3])
    BY ClosedSummaries
  <2>4. \A id \in bundle.entities \ {a.id : a \in ADRs} :
           entities[id].type # "extension" \/ version # "2.1" =>
               Cardinality({key \in bundle.summary[id] : key[1] = "declared_in"}) = 1
    BY DeclaredOnceEach
  <2> QED BY <2>1, <2>2, <2>3, <2>4 DEF BundleClosed
<1>2. [](IInv /\ EraInv /\ MarkerInv) => []BundleClosed
  BY <1>1, PTL
<1> QED BY <1>2, CompilationInvariant, PTL
=============================================================================
