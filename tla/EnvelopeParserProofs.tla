------------------------ MODULE EnvelopeParserProofs ------------------------
(***************************************************************************)
(* Proof that parse_envelope cuts out of a document what XML has for the   *)
(* children of its Header and the first child of its Body, and that their  *)
(* roots declare what was in scope there: for all start tags, and          *)
(* documents of any depth and length.                                      *)
(***************************************************************************)
EXTENDS EnvelopeParser, WellFoundedInduction, NaturalsInduction, TLAPS

-----------------------------------------------------------------------------
(* Where in the document the parser is: how the level inside the Envelope, *)
(* and the part it is in, follow the elements that open and close.         *)

(* The open elements are a sequence, with a first Envelope or none.        *)
IsStack == \E E : open \in Seq(E)
Outside == IsStack /\ \A i \in DOMAIN open : open[i].local # "Envelope"
EnvelopeAt(k) ==
    /\ IsStack
    /\ k \in DOMAIN open /\ open[k].local = "Envelope"
    /\ \A j \in 1 .. k - 1 : open[j].local # "Envelope"

(* Outside the Envelope nothing is in it; inside, the first one is at      *)
(* level 1.                                                                *)
OutsideIsOut == Outside => InEnvelope = <<>> /\ Level = 0 /\ Part = Absent
InsideIsIn ==
    \A k : EnvelopeAt(k) =>
        /\ k \in 1 .. Len(open) /\ Len(open) \in Nat
        /\ Level = Len(open) - k + 1
        /\ Part = IF Level > 1 /\ IsPart(open[k + 1]) THEN open[k + 1].local ELSE Absent

(* Levels are counted from the first Envelope.                             *)
LEMMA Levels == OutsideIsOut /\ InsideIsIn
  <1>1. ASSUME Outside PROVE InEnvelope = <<>> /\ Level = 0 /\ Part = Absent
    <2>1. {i \in 1 .. Len(open) : open[i].local = "Envelope"} = {}
      BY <1>1 DEF Outside, IsStack
    <2>2. InEnvelope = <<>>
      BY <2>1 DEF InEnvelope, SelectInSeq
    <2> QED BY <2>2 DEF Level, Part
  <1>2. ASSUME NEW k, EnvelopeAt(k)
        PROVE  /\ k \in 1 .. Len(open) /\ Len(open) \in Nat
               /\ Level = Len(open) - k + 1
               /\ Part = IF Level > 1 /\ IsPart(open[k + 1]) THEN open[k + 1].local ELSE Absent
    <2>1. PICK E : open \in Seq(E)
      BY <1>2 DEF EnvelopeAt, IsStack
    <2>2. k \in 1 .. Len(open) /\ Len(open) \in Nat
      BY <1>2, <2>1 DEF EnvelopeAt
    <2> DEFINE I == {i \in 1 .. Len(open) : open[i].local = "Envelope"}
    <2>3. k \in I /\ \A i \in I : k <= i
      BY <1>2, <2>2 DEF EnvelopeAt
    <2>4. Min(I) = k
      <3>1. \A x \in I : (\A y \in I : x <= y) => x = k
        BY <2>2, <2>3
      <3> HIDE DEF I
      <3> QED BY <2>3, <3>1 DEF Min
    <2>5. SelectInSeq(open, LAMBDA e : e.local = "Envelope") = k
      BY <2>3, <2>4 DEF SelectInSeq
    <2>6. InEnvelope = SubSeq(open, k, Len(open))
      BY <2>2, <2>5 DEF InEnvelope
    <2>7. Level = Len(open) - k + 1
      BY <2>1, <2>2, <2>6 DEF Level
    <2>8. Level > 1 => InEnvelope[2] = open[k + 1]
      BY <2>1, <2>2, <2>6, <2>7
    <2> QED BY <2>2, <2>7, <2>8 DEF Part, Level
  <1> QED BY <1>1, <1>2 DEF OutsideIsOut, InsideIsIn

(* Also after a step.                                                      *)
LEMMA LevelsPrimed == OutsideIsOut' /\ InsideIsIn'
  BY Levels, PTL

Stack == Outside \/ \E k : EnvelopeAt(k)

(* An element opens.                                                       *)
LEMMA Opened ==
    ASSUME Stack, NEW e, open' = Append(open, e)
    PROVE  /\ Stack' /\ Level \in Nat
           /\ Level' = IF Level > 0 THEN Level + 1 ELSE IF e.local = "Envelope" THEN 1 ELSE 0
           /\ Part' = IF Level > 1 THEN Part
                      ELSE IF Level = 1 /\ IsPart(e) THEN e.local ELSE Absent
  <1>1. PICK E : open \in Seq(E)
    BY DEF Stack, Outside, EnvelopeAt, IsStack
  <1> DEFINE F == E \cup {e}
  <1>2. open \in Seq(F) /\ open' \in Seq(F)
    BY <1>1
  <1>3. /\ Len(open) \in Nat /\ DOMAIN open = 1 .. Len(open)
        /\ Len(open') = Len(open) + 1 /\ DOMAIN open' = 1 .. Len(open) + 1
        /\ \A i \in 1 .. Len(open) : open'[i] = open[i]
        /\ open'[Len(open) + 1] = e /\ IsStack'
    BY <1>2 DEF IsStack
  <1> HIDE DEF F
  <1>4. CASE Outside /\ e.local # "Envelope"
    <2>1. Outside'
      BY <1>3, <1>4 DEF Outside
    <2> QED BY <1>4, <2>1, Levels, LevelsPrimed DEF OutsideIsOut, Stack
  <1>5. CASE Outside /\ e.local = "Envelope"
    <2>0. PICK k : k = Len(open) + 1
      OBVIOUS
    <2>1. EnvelopeAt(k)'
      BY <1>3, <1>5, <2>0 DEF EnvelopeAt, Outside
    <2>2. Level' = 1 /\ Part' = Absent
      BY <1>3, <2>0, <2>1, LevelsPrimed DEF InsideIsIn
    <2> QED BY <1>5, <2>1, <2>2, Levels DEF OutsideIsOut, Stack
  <1>6. ASSUME NEW k, EnvelopeAt(k)
        PROVE  /\ Stack' /\ Level \in Nat
               /\ Level' = IF Level > 0 THEN Level + 1 ELSE IF e.local = "Envelope" THEN 1 ELSE 0
               /\ Part' = IF Level > 1 THEN Part
                          ELSE IF Level = 1 /\ IsPart(e) THEN e.local ELSE Absent
    <2>1. EnvelopeAt(k)'
      BY <1>3, <1>6 DEF EnvelopeAt
    <2>2. /\ k \in 1 .. Len(open) /\ Level = Len(open) - k + 1 /\ Level' = Len(open) + 1 - k + 1
          /\ Part = IF Level > 1 /\ IsPart(open[k + 1]) THEN open[k + 1].local ELSE Absent
          /\ Part' = IF Level' > 1 /\ IsPart(open'[k + 1]) THEN open'[k + 1].local ELSE Absent
      BY <1>3, <1>6, <2>1, Levels, LevelsPrimed DEF InsideIsIn, IsPart
    <2>3. Level \in Nat /\ Level > 0 /\ Level' = Level + 1
      BY <1>3, <2>2
    <2>4. CASE Level > 1
      BY <1>3, <2>1, <2>2, <2>3, <2>4 DEF Stack
    <2>5. CASE Level = 1
      <3>1. open'[k + 1] = e
        BY <1>3, <2>2, <2>5
      <3> QED BY <1>3, <2>1, <2>2, <2>3, <2>5, <3>1 DEF Stack
    <2> QED BY <2>3, <2>4, <2>5
  <1> QED BY <1>4, <1>5, <1>6 DEF Stack

(* An element closes.                                                      *)
LEMMA Closed ==
    ASSUME Stack, open # <<>>, open' = Front(open)
    PROVE  /\ Stack' /\ Level \in Nat
           /\ Level' = IF Level > 0 THEN Level - 1 ELSE 0
           /\ Part' = IF Level > 2 THEN Part ELSE Absent
  <1>1. PICK E : open \in Seq(E)
    BY DEF Stack, Outside, EnvelopeAt, IsStack
  <1>2. Len(open) \in Nat \ {0} /\ DOMAIN open = 1 .. Len(open)
    BY <1>1
  <1>3. /\ open' \in Seq(E) /\ Len(open') = Len(open) - 1
        /\ \A i \in 1 .. Len(open) - 1 : open'[i] = open[i]
    BY <1>1, <1>2 DEF Front
  <1>4. DOMAIN open' = 1 .. Len(open) - 1 /\ IsStack'
    BY <1>3 DEF IsStack
  <1>5. CASE Outside
    <2>1. Outside'
      BY <1>2, <1>3, <1>4, <1>5 DEF Outside
    <2> QED BY <1>5, <2>1, Levels, LevelsPrimed DEF OutsideIsOut, Stack
  <1>6. ASSUME NEW k, EnvelopeAt(k)
        PROVE  /\ Stack' /\ Level \in Nat
               /\ Level' = IF Level > 0 THEN Level - 1 ELSE 0
               /\ Part' = IF Level > 2 THEN Part ELSE Absent
    <2>1. /\ k \in 1 .. Len(open) /\ Level = Len(open) - k + 1 /\ Level \in Nat /\ Level > 0
          /\ Part = IF Level > 1 /\ IsPart(open[k + 1]) THEN open[k + 1].local ELSE Absent
      BY <1>2, <1>6, Levels DEF InsideIsIn
    <2>2. CASE Level = 1
      <3>0. k = Len(open)
        <4>1. /\ k \in 1 .. Len(open) /\ Len(open) \in Nat /\ k \in Nat
              /\ Len(open) - k + 1 = 1
          BY <1>2, <2>1, <2>2
        <4> QED BY <4>1
      <3>1. Outside'
        <4>1. \A i \in 1 .. Len(open) - 1 : open[i].local # "Envelope"
          BY <1>6, <3>0 DEF EnvelopeAt
        <4>2. \A i \in DOMAIN open' : open'[i].local # "Envelope"
          BY <1>3, <1>4, <4>1
        <4> QED BY <1>4, <4>2 DEF Outside
      <3> QED BY <2>1, <2>2, <3>1, LevelsPrimed DEF OutsideIsOut, Stack
    <2>3. CASE Level > 1
      <3>1. EnvelopeAt(k)'
        BY <1>2, <1>3, <1>4, <1>6, <2>1, <2>3 DEF EnvelopeAt
      <3>2. /\ Level' = Level - 1
            /\ Part' = IF Level' > 1 /\ IsPart(open'[k + 1]) THEN open'[k + 1].local ELSE Absent
        BY <1>2, <1>3, <2>1, <3>1, LevelsPrimed DEF InsideIsIn, IsPart
      <3>3. Level > 2 => open'[k + 1] = open[k + 1]
        BY <1>2, <1>3, <2>1, <2>3
      <3> QED BY <2>1, <2>3, <3>1, <3>2, <3>3 DEF Stack
    <2> QED BY <2>1, <2>2, <2>3
  <1> QED BY <1>5, <1>6 DEF Stack

-----------------------------------------------------------------------------
(* What XML has for the children of the parts, event by event.             *)

(* None is neither a fragment nor a list of children.                      *)
AbsentIsNone ==
    /\ "items" \notin DOMAIN Absent
    /\ \A S : Absent \notin Seq(S)

(* The children of a part are a sequence of things that have items and     *)
(* declarations in scope.                                                  *)
ChildrenShape ==
    \E E : /\ \A x \in E : "items" \in DOMAIN x /\ "scope" \in DOMAIN x
           /\ children \in [Parts -> Seq(E) \cup {Absent}]

Document == Stack /\ ChildrenShape /\ Noted

(* The list of the children of a part, as a step leaves it.                *)
Afterwards(p) == IF children'[p] = Absent THEN <<>> ELSE children'[p]

(* ChildrenOf after the step.                                              *)
LEMMA AfterwardsIs == ASSUME NEW p PROVE ChildrenOf(p)' = Afterwards(p)
  BY DEF ChildrenOf, Afterwards

(* How the list of the children of a part may change.                      *)
SameChildren(p) == children'[p] = children[p]
NoChildrenYet(p) == children'[p] = <<>> /\ children'[p] # Absent
NewChild(p, item) ==
    LET c == ChildrenOf(p)
    IN  /\ children'[p] # Absent /\ Afterwards(p) # <<>>
        /\ Len(c) \in Nat /\ Len(Afterwards(p)) = Len(c) + 1
        /\ \A i \in 1 .. Len(c) : Afterwards(p)[i] = c[i]
        /\ Afterwards(p)[Len(c) + 1].items = <<item>>
        /\ Afterwards(p)[Len(c) + 1].scope = item[2].declares \o Scope(open)
LastGrows(p, item) ==
    LET c == ChildrenOf(p)
    IN  /\ children'[p] # Absent /\ Afterwards(p) # <<>>
        /\ Len(c) \in Nat /\ Len(c) > 0 /\ Len(Afterwards(p)) = Len(c)
        /\ \A i \in 1 .. Len(c) - 1 : Afterwards(p)[i] = c[i]
        /\ Afterwards(p)[Len(c)].items = Append(c[Len(c)].items, item)
        /\ Afterwards(p)[Len(c)].scope = c[Len(c)].scope

(* A child is added to a part.                                             *)
LEMMA Added ==
    ASSUME AbsentIsNone, ChildrenShape, NEW p \in Parts, children[p] # Absent,
           NEW x, NEW item, "items" \in DOMAIN x, x.items = <<item>>,
           "scope" \in DOMAIN x, x.scope = item[2].declares \o Scope(open),
           children' = [children EXCEPT ![p] = Append(@, x)]
    PROVE  ChildrenShape' /\ NewChild(p, item) /\ \A q \in Parts \ {p} : SameChildren(q)
  <1>1. PICK E : /\ \A y \in E : "items" \in DOMAIN y /\ "scope" \in DOMAIN y
                 /\ children \in [Parts -> Seq(E) \cup {Absent}]
    BY DEF ChildrenShape
  <1> DEFINE F == E \cup {x}
             c == children[p]
  <1>2. c \in Seq(E) /\ children'[p] = Append(c, x)
    BY <1>1
  <1>3. /\ \A y \in F : "items" \in DOMAIN y /\ "scope" \in DOMAIN y
        /\ children \in [Parts -> Seq(F) \cup {Absent}]
        /\ c \in Seq(F)
    <2>1. \A s : s \in Seq(E) => s \in Seq(F)
      OBVIOUS
    <2> QED BY <1>1, <1>2, <2>1
  <1>4. Append(c, x) \in Seq(F)
    BY <1>2
  <1>5. ChildrenShape'
    BY <1>3, <1>4 DEF ChildrenShape
  <1>6. children'[p] # Absent /\ ChildrenOf(p)' = Append(c, x) /\ ChildrenOf(p) = c
    BY <1>2, <1>4 DEF ChildrenOf, AbsentIsNone
  <1>7. /\ Len(c) \in Nat /\ Len(Append(c, x)) = Len(c) + 1 /\ Append(c, x) # <<>>
        /\ \A i \in 1 .. Len(c) : Append(c, x)[i] = c[i]
        /\ Append(c, x)[Len(c) + 1] = x
    <2>1. PICK b \in Seq(F) : b = c
      BY <1>3
    <2>2. PICK y \in F : y = x
      OBVIOUS
    <2> HIDE DEF F
    <2>3. /\ Len(b) \in Nat /\ Len(Append(b, y)) = Len(b) + 1 /\ Append(b, y) # <<>>
          /\ \A i \in 1 .. Len(b) : Append(b, y)[i] = b[i]
          /\ Append(b, y)[Len(b) + 1] = y
      OBVIOUS
    <2> QED BY <2>1, <2>2, <2>3
  <1>8. NewChild(p, item)
    BY <1>6, <1>7, AfterwardsIs DEF NewChild
  <1> QED BY <1>1, <1>5, <1>8 DEF SameChildren

(* The last child of a part grows.                                         *)
LEMMA LastExtended ==
    ASSUME AbsentIsNone, ChildrenShape, NEW p \in Parts, p = Part,
           children[p] # Absent, children[p] # <<>>, NEW item, children' = Grown(item)
    PROVE  ChildrenShape' /\ LastGrows(p, item) /\ \A q \in Parts \ {p} : SameChildren(q)
  <1>1. PICK E : /\ \A y \in E : "items" \in DOMAIN y /\ "scope" \in DOMAIN y
                 /\ children \in [Parts -> Seq(E) \cup {Absent}]
    BY DEF ChildrenShape
  <1> DEFINE c == children[p]
             x == Longer(Last(c), item)
             F == E \cup {x}
             d == Append(Front(c), x)
  <1>0. children' = [children EXCEPT ![p] = d]
    BY DEF Grown
  <1>2. c \in Seq(E) /\ children' = [children EXCEPT ![p] = d]
    BY <1>0, <1>1
  <1>3. /\ Len(c) \in Nat /\ Len(c) > 0 /\ Last(c) = c[Len(c)] /\ Last(c) \in E
        /\ Front(c) \in Seq(E) /\ Len(Front(c)) = Len(c) - 1
        /\ \A i \in 1 .. Len(c) - 1 : Front(c)[i] = c[i]
    BY <1>2 DEF Last, Front
  <1>4. /\ "items" \in DOMAIN x /\ x.items = Append(c[Len(c)].items, item)
        /\ "scope" \in DOMAIN x /\ x.scope = c[Len(c)].scope
    BY <1>1, <1>3 DEF Longer
  <1> HIDE DEF x
  <1>5. /\ \A y \in F : "items" \in DOMAIN y /\ "scope" \in DOMAIN y
        /\ children \in [Parts -> Seq(F) \cup {Absent}]
        /\ Front(c) \in Seq(F)
    <2>1. \A s : s \in Seq(E) => s \in Seq(F)
      OBVIOUS
    <2> QED BY <1>1, <1>3, <1>4, <2>1
  <1>6. /\ d \in Seq(F) /\ Len(d) = Len(c) /\ d # <<>>
        /\ \A i \in 1 .. Len(c) - 1 : d[i] = c[i]
        /\ d[Len(c)] = x
    BY <1>3, <1>5
  <1> HIDE DEF d
  <1>7. ChildrenShape'
    BY <1>2, <1>5, <1>6 DEF ChildrenShape
  <1>8. children'[p] # Absent /\ ChildrenOf(p)' = d /\ ChildrenOf(p) = c
    BY <1>1, <1>2, <1>6 DEF ChildrenOf, AbsentIsNone
  <1>9. LastGrows(p, item)
    BY <1>3, <1>4, <1>6, <1>8, AfterwardsIs DEF LastGrows
  <1> QED BY <1>1, <1>2, <1>7, <1>9 DEF SameChildren

(* The part, by its name.                                                  *)
LEMMA PartNamed == Part \in Parts \cup {Absent} /\ (Level <= 1 => Part = Absent)
  BY DEF Part, Level, IsPart

(* Levels are numbers.                                                     *)
LEMMA LevelNatural == Stack => Level \in Nat
  <1>1. Outside => Level \in Nat
    BY Levels DEF OutsideIsOut
  <1>2. ASSUME NEW k, EnvelopeAt(k) PROVE Level \in Nat
    BY <1>2, Levels DEF InsideIsIn
  <1> QED BY <1>1, <1>2 DEF Stack

(* An element that begins, empty or not.                                   *)
LEMMA NodeGrows ==
    ASSUME AbsentIsNone, Document, NEW tag, NEW item, item[2] = tag, Node(tag, item)
    PROVE  /\ ChildrenShape' /\ odd \subseteq odd'
           /\ Level = 1 /\ IsPart(Element(tag)) =>
                 /\ tag.local \in Parts /\ NoChildrenYet(tag.local)
                 /\ children[tag.local] # Absent => "repeated" \in odd'
                 /\ \A q \in Parts \ {tag.local} : SameChildren(q)
           /\ Level = 2 /\ Part # Absent =>
                 NewChild(Part, item) /\ \A q \in Parts \ {Part} : SameChildren(q)
           /\ Level > 2 /\ Part # Absent =>
                 LastGrows(Part, item) /\ \A q \in Parts \ {Part} : SameChildren(q)
           /\ (Level = 1 => ~IsPart(Element(tag))) /\ Part = Absent =>
                 \A q \in Parts : SameChildren(q)
  <1> DEFINE part == Level = 1 /\ IsPart(Element(tag))
  <1>1. odd \subseteq odd' /\ (part /\ children[tag.local] # Absent => "repeated" \in odd')
    BY DEF Node, Level
  <1>2. PICK E : /\ \A y \in E : "items" \in DOMAIN y /\ "scope" \in DOMAIN y
                 /\ children \in [Parts -> Seq(E) \cup {Absent}]
    BY DEF Document, ChildrenShape
  <1>3. CASE part
    <2>1. tag.local \in Parts
      BY <1>3 DEF IsPart, Element
    <2>2. children' = [children EXCEPT ![tag.local] = <<>>]
      BY <1>3 DEF Node, Level
    <2>3. <<>> \in Seq(E) /\ <<>> # Absent
      <3>1. Absent \notin Seq(E)
        BY DEF AbsentIsNone
      <3>2. <<>> \in Seq(E)
        OBVIOUS
      <3> QED BY <3>1, <3>2
    <2>4. ChildrenShape'
      BY <1>2, <2>2, <2>3 DEF ChildrenShape
    <2>5. NoChildrenYet(tag.local) /\ \A q \in Parts \ {tag.local} : SameChildren(q)
      BY <1>2, <2>1, <2>2, <2>3 DEF NoChildrenYet, SameChildren
    <2> QED BY <1>1, <1>3, <2>1, <2>4, <2>5, PartNamed
  <1>4. CASE ~part /\ Part = Absent
    <2>1. children' = children
      BY <1>4 DEF Node, Level
    <2> QED BY <1>1, <1>2, <1>4, <2>1 DEF ChildrenShape, SameChildren
  <1>5. CASE Part # Absent /\ Level = 2
    <2>1. children' = [children EXCEPT ![Part] =
             Append(@, [scope |-> tag.declares \o Scope(open), items |-> <<item>>])]
      BY <1>5 DEF Node, Level
    <2>2. Part \in Parts /\ children[Part] # Absent
      BY <1>5 DEF Document, Noted
    <2>3. PICK p \in Parts : p = Part
      BY <2>2
    <2>4. PICK x : x = [scope |-> tag.declares \o Scope(open), items |-> <<item>>]
      OBVIOUS
    <2>5. ChildrenShape' /\ NewChild(p, item) /\ \A q \in Parts \ {p} : SameChildren(q)
      <3>1. /\ "items" \in DOMAIN x /\ x.items = <<item>>
            /\ "scope" \in DOMAIN x /\ x.scope = item[2].declares \o Scope(open)
        BY <2>4
      <3>2. children' = [children EXCEPT ![p] = Append(@, x)]
        BY <2>1, <2>3, <2>4
      <3> QED BY <2>2, <2>3, <3>1, <3>2, Added DEF Document
    <2> QED BY <1>1, <1>5, <2>3, <2>5
  <1>6. CASE Part # Absent /\ Level > 2
    <2>0. Level # 1 /\ Level # 2
      BY <1>6
    <2>1. children' = Grown(item)
      BY <1>6, <2>0 DEF Node, Level
    <2>2. Part \in Parts /\ children[Part] # Absent /\ children[Part] # <<>>
      BY <1>6 DEF Document, Noted
    <2>3. PICK p \in Parts : p = Part
      BY <2>2
    <2>4. ChildrenShape' /\ LastGrows(p, item) /\ \A q \in Parts \ {p} : SameChildren(q)
      BY <2>1, <2>2, <2>3, LastExtended DEF Document
    <2> QED BY <1>1, <1>6, <2>3, <2>4
  <1>7. part \/ Part = Absent \/ Level = 2 \/ Level > 2
    BY PartNamed, LevelNatural DEF Document
  <1> QED BY <1>3, <1>4, <1>5, <1>6, <1>7

(* Content of an element that is open: the last child of its part grows,   *)
(* if it is inside one.                                                    *)
LEMMA ContentGrows ==
    ASSUME AbsentIsNone, Document, NEW item, children' = Content(item)
    PROVE  /\ ChildrenShape'
           /\ Level > 2 /\ Part # Absent =>
                 LastGrows(Part, item) /\ \A q \in Parts \ {Part} : SameChildren(q)
           /\ Level <= 2 \/ Part = Absent =>
                 children' = children /\ \A q \in Parts : SameChildren(q)
  <1>0. Level \in Nat
    BY LevelNatural DEF Document
  <1>1. CASE Level > 2 /\ Part # Absent
    <2>1. children' = Grown(item)
      BY <1>1 DEF Content, Level
    <2>2. Part \in Parts /\ children[Part] # Absent /\ children[Part] # <<>>
      BY <1>1 DEF Document, Noted
    <2>3. PICK p \in Parts : p = Part
      BY <2>2
    <2>4. ChildrenShape' /\ LastGrows(p, item) /\ \A q \in Parts \ {p} : SameChildren(q)
      BY <2>1, <2>2, <2>3, LastExtended DEF Document
    <2>5. ~(Level <= 2 \/ Part = Absent)
      BY <1>0, <1>1
    <2> QED BY <2>3, <2>4, <2>5
  <1>2. CASE ~(Level > 2 /\ Part # Absent)
    <2>1. children' = children
      BY <1>2 DEF Content, Level
    <2>2. ChildrenShape
      BY DEF Document
    <2> QED BY <1>2, <2>1, <2>2 DEF ChildrenShape, SameChildren
  <1> QED BY <1>1, <1>2

(* A list that is new is no longer none.                                   *)
LEMMA GrownNoted ==
    ASSUME NEW p, NEW item, NewChild(p, item) \/ LastGrows(p, item)
    PROVE  children'[p] # Absent /\ children'[p] # <<>>
  BY AfterwardsIs DEF NewChild, LastGrows, ChildrenOf

-----------------------------------------------------------------------------
(* What the events do to the document.                                     *)

(* A start tag.                                                            *)
LEMMA OpeningMoves ==
    ASSUME AbsentIsNone, Document, NEW tag, Opening(tag)
    PROVE  /\ Document' /\ odd \subseteq odd'
           /\ Level \in Nat
           /\ Level' = IF Level > 0 THEN Level + 1 ELSE IF tag.local = "Envelope" THEN 1 ELSE 0
           /\ Part' = IF Level > 1 THEN Part
                      ELSE IF Level = 1 /\ IsPart(Element(tag)) THEN tag.local ELSE Absent
  <1>1. Node(tag, <<"start", tag>>) /\ open' = Append(open, Element(tag)) /\ Stack
    BY DEF Opening, Document
  <1>2. /\ Stack' /\ Level \in Nat
        /\ Level' = IF Level > 0 THEN Level + 1
                    ELSE IF Element(tag).local = "Envelope" THEN 1 ELSE 0
        /\ Part' = IF Level > 1 THEN Part
                   ELSE IF Level = 1 /\ IsPart(Element(tag)) THEN Element(tag).local ELSE Absent
    BY <1>1, Opened
  <1>3. Element(tag).local = tag.local
    BY DEF Element
  <1>4. ChildrenShape' /\ odd \subseteq odd'
    BY <1>1, NodeGrows
  <1>5. Noted'
    <2>1. CASE Level > 1 /\ Part # Absent
      <3>1. NewChild(Part, <<"start", tag>>) \/ LastGrows(Part, <<"start", tag>>)
        BY <1>1, <1>2, <2>1, NodeGrows
      <3>2. children'[Part] # Absent /\ children'[Part] # <<>>
        BY <3>1, GrownNoted
      <3>3. Part' = Part /\ Part \in Parts
        BY <1>2, <2>1 DEF Document, Noted
      <3> QED BY <3>2, <3>3 DEF Noted
    <2>2. CASE Level = 1 /\ IsPart(Element(tag))
      <3>1. tag.local \in Parts /\ NoChildrenYet(tag.local)
        BY <1>1, <2>2, NodeGrows
      <3>2. Part' = tag.local /\ Level' = 2
        BY <1>2, <1>3, <2>2
      <3> QED BY <3>1, <3>2 DEF Noted, NoChildrenYet
    <2>3. CASE ~(Level > 1 /\ Part # Absent) /\ ~(Level = 1 /\ IsPart(Element(tag)))
      BY <1>2, <2>3 DEF Noted
    <2> QED BY <2>1, <2>2, <2>3
  <1> QED BY <1>2, <1>3, <1>4, <1>5 DEF Document

(* An event that neither opens nor closes an element.                      *)
LEMMA OpenKept ==
    ASSUME Document, UNCHANGED open
    PROVE  Stack' /\ Level' = Level /\ Part' = Part /\ Level \in Nat
  <1>1. Stack' <=> Stack
    BY DEF Stack, Outside, EnvelopeAt, IsStack
  <1>2. InEnvelope' = InEnvelope
    BY DEF InEnvelope, SelectInSeq
  <1>3. Level' = Level /\ Part' = Part
    BY <1>2 DEF Level, Part, IsPart
  <1> QED BY <1>1, <1>3, LevelNatural DEF Document

(* An element without content.                                             *)
LEMMA EmptyMoves ==
    ASSUME AbsentIsNone, Document, NEW tag, EmptyNode(tag)
    PROVE  /\ Document' /\ odd \subseteq odd'
           /\ Level \in Nat /\ Level' = Level /\ Part' = Part
  <1>1. Node(tag, <<"empty", tag>>) /\ UNCHANGED open
    BY DEF EmptyNode
  <1>2. Stack' /\ Level' = Level /\ Part' = Part /\ Level \in Nat
    BY <1>1, OpenKept
  <1>3. ChildrenShape' /\ odd \subseteq odd'
    BY <1>1, NodeGrows
  <1>4. Noted'
    <2>1. CASE Level > 1 /\ Part # Absent
      <3>1. NewChild(Part, <<"empty", tag>>) \/ LastGrows(Part, <<"empty", tag>>)
        BY <1>1, <1>2, <2>1, NodeGrows
      <3>2. children'[Part] # Absent /\ children'[Part] # <<>>
        BY <3>1, GrownNoted
      <3>3. Part \in Parts
        BY <2>1 DEF Document, Noted
      <3> QED BY <1>2, <3>2, <3>3 DEF Noted
    <2>2. CASE ~(Level > 1 /\ Part # Absent)
      <3>1. Part = Absent
        BY <1>2, <2>2, PartNamed
      <3> QED BY <1>2, <3>1 DEF Noted
    <2> QED BY <2>1, <2>2
  <1> QED BY <1>2, <1>3, <1>4 DEF Document

(* An event that belongs to an element that is open.                       *)
LEMMA ContentMoves ==
    ASSUME AbsentIsNone, Document, NEW item, children' = Content(item), Stack',
           Level \in Nat, Level' \in Nat,
           Part' = Absent \/ (Part' = Part /\ Level' <= Level)
    PROVE  Document'
  <1>1. ChildrenShape'
    BY ContentGrows
  <1>2. Noted'
    <2>1. CASE Level > 2 /\ Part # Absent
      <3>1. children'[Part] # Absent /\ children'[Part] # <<>>
        BY <2>1, ContentGrows, GrownNoted
      <3>2. Part \in Parts
        BY <2>1 DEF Document, Noted
      <3> QED BY <3>1, <3>2 DEF Noted
    <2>2. CASE ~(Level > 2 /\ Part # Absent)
      <3>1. children' = children
        BY <2>2, ContentGrows
      <3>2. Part' # Absent => Part' = Part /\ Level' <= 2
        BY <2>2
      <3> QED BY <3>1, <3>2 DEF Noted, Document
    <2> QED BY <2>1, <2>2
  <1> QED BY <1>1, <1>2 DEF Document

(* An end tag.                                                             *)
LEMMA ClosingMoves ==
    ASSUME AbsentIsNone, Document, Closing
    PROVE  /\ Document' /\ odd' = odd
           /\ Level \in Nat /\ Level' = IF Level > 0 THEN Level - 1 ELSE 0
           /\ Part' = IF Level > 2 THEN Part ELSE Absent
  <1>1. /\ Stack' /\ Level \in Nat
        /\ Level' = IF Level > 0 THEN Level - 1 ELSE 0
        /\ Part' = IF Level > 2 THEN Part ELSE Absent
    BY Closed DEF Closing, Document
  <1>2. Level' \in Nat /\ Level' <= Level /\ (Part' = Absent \/ Part' = Part)
    BY <1>1
  <1>3. Document'
    BY <1>1, <1>2, ContentMoves DEF Closing
  <1> QED BY <1>1, <1>3 DEF Closing

(* Text, CDATA, a reference.                                               *)
LEMMA DataMoves ==
    ASSUME AbsentIsNone, Document, Data
    PROVE  Document' /\ Level \in Nat /\ Level' = Level /\ Part' = Part
  <1>1. Stack' /\ Level' = Level /\ Part' = Part /\ Level \in Nat
    BY OpenKept DEF Data
  <1>2. Document'
    BY <1>1, ContentMoves DEF Data
  <1> QED BY <1>1, <1>2

-----------------------------------------------------------------------------
(* The code keeps up with the document, event by event.                    *)

(* What is kept, and what is being copied, are fragments.                  *)
Fragments ==
    /\ \E F : headers \in Seq(F)
    /\ Copying => "items" \in DOMAIN buffer /\ "declares" \in DOMAIN buffer

Reading ==
    /\ Document /\ Fragments /\ Position
    /\ Usual => HeadersKept /\ BodyKept

(* The children of a part are a sequence.                                  *)
LEMMA ChildrenListed ==
    ASSUME AbsentIsNone, ChildrenShape, NEW p \in Parts
    PROVE  \E E : ChildrenOf(p) \in Seq(E)
  <1>1. PICK E : children \in [Parts -> Seq(E) \cup {Absent}]
    BY DEF ChildrenShape
  <1>2. <<>> \in Seq(E)
    OBVIOUS
  <1> QED BY <1>1, <1>2 DEF ChildrenOf

(* Which is empty if it has no length.                                     *)
LEMMA ChildrenSequence ==
    ASSUME AbsentIsNone, ChildrenShape, NEW p \in Parts
    PROVE  /\ Len(ChildrenOf(p)) \in Nat /\ DOMAIN ChildrenOf(p) = 1 .. Len(ChildrenOf(p))
           /\ ChildrenOf(p) = <<>> <=> Len(ChildrenOf(p)) = 0
  BY ChildrenListed

(* The lists that an event leaves alone, and those it begins.              *)
LEMMA Untouched ==
    ASSUME NEW p
    PROVE  /\ SameChildren(p) => ChildrenOf(p)' = ChildrenOf(p)
           /\ NoChildrenYet(p) => ChildrenOf(p)' = <<>>
  BY DEF SameChildren, NoChildrenYet, ChildrenOf

(* A step that has nothing to do with the Header, or with the Body.        *)
LEMMA HeadersUntouched ==
    ASSUME HeadersKept, phase # "header" \/ depth = 0, phase' # "header" \/ depth' = 0,
           headers' = headers, SameChildren("Header")
    PROVE  HeadersKept'
  BY Untouched DEF HeadersKept

(* Likewise for the Body, unless its first child begins or is copied.      *)
LEMMA BodyUntouched ==
    ASSUME BodyKept, phase # "child", phase' \notin {"child", "body"},
           phase' = "skip" => Part' # "Body",
           body' = body, SameChildren("Body")
    PROVE  BodyKept'
  BY Untouched DEF BodyKept

(* What is usual was so before.                                            *)
LEMMA UsualBefore == odd \subseteq odd' /\ Usual' => Usual
  BY DEF Usual

(* The document before the Envelope.                                       *)
LEMMA BeforeEnvelopeSound ==
    ASSUME AbsentIsNone, Reading, NEW tag, BeforeEnvelope(tag)
    PROVE  Reading'
  <1>1. Level = 0 /\ Part = Absent /\ phase = "envelope"
    BY PartNamed DEF Reading, Position, BeforeEnvelope
  <1>2. Document' /\ odd \subseteq odd' /\ Level' = 0 /\ Part' = Absent
    BY <1>1, OpeningMoves DEF Reading, BeforeEnvelope
  <1>3. \A q \in Parts : SameChildren(q)
    BY <1>1, NodeGrows DEF Reading, BeforeEnvelope, Opening
  <1>4. UNCHANGED code
    BY DEF BeforeEnvelope
  <1>5. Fragments' /\ Position'
    BY <1>1, <1>2, <1>4 DEF Reading, Fragments, Position, Copying, code, result
  <1>6. Usual' => HeadersKept' /\ BodyKept'
    BY <1>1, <1>2, <1>3, <1>4, HeadersUntouched, BodyUntouched, UsualBefore
       DEF Reading, code, result, Parts
  <1> QED BY <1>2, <1>5, <1>6 DEF Reading

(* The Envelope itself.                                                    *)
LEMMA EnvelopeSound ==
    ASSUME AbsentIsNone, Reading, NEW tag, Envelope(tag)
    PROVE  Reading'
  <1>1. Level = 0 /\ Part = Absent /\ phase = "envelope"
    BY PartNamed DEF Reading, Position, Envelope
  <1>2. Document' /\ odd \subseteq odd' /\ Level' = 1 /\ Part' = Absent
    BY <1>1, OpeningMoves DEF Reading, Envelope
  <1>3. \A q \in Parts : SameChildren(q)
    BY <1>1, NodeGrows DEF Reading, Envelope, Opening
  <1>4. phase' = "children" /\ UNCHANGED <<depth, buffer, headers, body>>
    BY DEF Envelope
  <1>5. Fragments' /\ Position'
    BY <1>1, <1>2, <1>4 DEF Reading, Fragments, Position, Copying
  <1>6. Usual' => HeadersKept' /\ BodyKept'
    BY <1>1, <1>2, <1>3, <1>4, HeadersUntouched, BodyUntouched, UsualBefore
       DEF Reading, Parts
  <1> QED BY <1>2, <1>5, <1>6 DEF Reading

(* The children of the Envelope.                                           *)
LEMMA HeaderSound ==
    ASSUME AbsentIsNone, Reading, NEW tag, Header(tag)
    PROVE  Reading'
  <1>1. Level = 1 /\ phase = "children" /\ IsPart(Element(tag)) /\ tag.local = "Header"
    BY DEF Reading, Position, Header
  <1>2. Document' /\ odd \subseteq odd' /\ Level' = 2 /\ Part' = "Header"
    BY <1>1, OpeningMoves DEF Reading, Header
  <1>3. NoChildrenYet("Header") /\ SameChildren("Body")
    BY <1>1, NodeGrows DEF Reading, Header, Opening, Parts
  <1>4. phase' = "header" /\ depth' = 0 /\ headers' = <<>> /\ body' = body
    BY DEF Header
  <1>5. Fragments' /\ Position'
    BY <1>1, <1>2, <1>4 DEF Fragments, Position, Copying
  <1>6. HeadersKept'
    BY <1>3, <1>4, Untouched DEF HeadersKept
  <1>7. Usual' => BodyKept'
    BY <1>1, <1>2, <1>3, <1>4, BodyUntouched, UsualBefore DEF Reading
  <1> QED BY <1>2, <1>5, <1>6, <1>7 DEF Reading

(* The Body opens: it is the first, and has no child yet.                  *)
LEMMA BodySound ==
    ASSUME AbsentIsNone, Reading, NEW tag, Body(tag)
    PROVE  Reading'
  <1>1. Level = 1 /\ phase = "children" /\ IsPart(Element(tag)) /\ tag.local = "Body"
    BY DEF Reading, Position, Body
  <1>2. Document' /\ odd \subseteq odd' /\ Level' = 2 /\ Part' = "Body"
    BY <1>1, OpeningMoves DEF Reading, Body
  <1>3. /\ NoChildrenYet("Body") /\ SameChildren("Header")
        /\ children["Body"] # Absent => "repeated" \in odd'
    BY <1>1, NodeGrows DEF Reading, Body, Opening, Parts
  <1>4. phase' = "body" /\ UNCHANGED <<depth, headers, buffer, body>>
    BY DEF Body
  <1>5. Fragments' /\ Position'
    BY <1>1, <1>2, <1>4 DEF Reading, Fragments, Position, Copying
  <1>6. Usual' => HeadersKept'
    BY <1>1, <1>2, <1>3, <1>4, HeadersUntouched, UsualBefore DEF Reading
  <1>7. ASSUME Usual' PROVE BodyKept'
    <2>1. children["Body"] = Absent
      BY <1>3, <1>7 DEF Usual
    <2>2. body = Absent
      BY <1>1, <1>2, <1>7, <2>1, UsualBefore DEF Reading, BodyKept, ChildrenOf
    <2> QED BY <1>3, <1>4, <2>2, Untouched DEF BodyKept
  <1> QED BY <1>2, <1>5, <1>6, <1>7 DEF Reading

(* A child of the Envelope that is neither.                                *)
LEMMA OtherChildSound ==
    ASSUME AbsentIsNone, Reading, NEW tag, OtherChild(tag)
    PROVE  Reading'
  <1>1. Level = 1 /\ Part = Absent /\ phase = "children" /\ ~IsPart(Element(tag))
    BY PartNamed DEF Reading, Position, OtherChild
  <1>2. Document' /\ odd \subseteq odd' /\ Level' = 2 /\ Part' = Absent
    BY <1>1, OpeningMoves DEF Reading, OtherChild
  <1>3. \A q \in Parts : SameChildren(q)
    BY <1>1, NodeGrows DEF Reading, OtherChild, Opening
  <1>4. phase' = "skip" /\ depth' = 1 /\ UNCHANGED <<headers, buffer, body>>
    BY DEF OtherChild
  <1>5. Absent # "Header" /\ Absent # "Body"
    BY ParserAssumption DEF Parts
  <1>6. Fragments' /\ Position'
    BY <1>1, <1>2, <1>4, <1>5 DEF Reading, Fragments, Position, Copying
  <1>7. Usual' => HeadersKept' /\ BodyKept'
    BY <1>1, <1>2, <1>3, <1>4, <1>5, HeadersUntouched, BodyUntouched, UsualBefore
       DEF Reading, Parts
  <1> QED BY <1>2, <1>6, <1>7 DEF Reading

-----------------------------------------------------------------------------
(* The fragments.                                                          *)

(* A fragment that is begun or goes on.                                    *)
LEMMA RootItems ==
    ASSUME NEW tag, NEW item
    PROVE  /\ "items" \in DOMAIN Root(tag, item) /\ Root(tag, item).items = <<item>>
           /\ "declares" \in DOMAIN Root(tag, item)
  BY DEF Root

(* A copy goes on with the event.                                          *)
LEMMA CopiedItems ==
    ASSUME NEW item, "items" \in DOMAIN buffer, "declares" \in DOMAIN buffer
    PROVE  /\ "items" \in DOMAIN Copied(item) /\ "declares" \in DOMAIN Copied(item)
           /\ Copied(item).declares = buffer.declares
           /\ Copied(item).items = Append(buffer.items, item)
  BY DEF Copied, Longer

(* A child of the Header, or the first child of the Body, begins.          *)
LEMMA BeginFragmentSound ==
    ASSUME AbsentIsNone, Reading, NEW tag, BeginFragment(tag)
    PROVE  Reading'
  <1> DEFINE item == <<"start", tag>>
  <1>1. /\ Level = 2 /\ Part \in Parts /\ Part # Absent
        /\ phase = "header" => Part = "Header" /\ depth = 0
        /\ phase = "body" => Part = "Body"
        /\ phase \in {"header", "body"}
    BY ParserAssumption DEF Reading, Position, BeginFragment, AtRoot, Parts
  <1>2. Document' /\ odd \subseteq odd' /\ Level' = 3 /\ Part' = Part
    BY <1>1, OpeningMoves DEF Reading, BeginFragment
  <1>3. NewChild(Part, item) /\ \A q \in Parts \ {Part} : SameChildren(q)
    BY <1>1, NodeGrows DEF Reading, BeginFragment, Opening
  <1>4. /\ buffer' = Root(tag, item) /\ depth' = 1 /\ headers' = headers /\ body' = body
        /\ phase' = IF phase = "body" THEN "child" ELSE phase
    BY DEF BeginFragment, result
  <1>5. "items" \in DOMAIN buffer' /\ buffer'.items = <<item>> /\ "declares" \in DOMAIN buffer'
    BY <1>4, RootItems
  <1>6. Fragments' /\ Position'
    BY <1>1, <1>2, <1>4, <1>5 DEF Reading, Fragments, Position
  <1>7. ASSUME Usual' PROVE HeadersKept' /\ BodyKept'
    <2>0. HeadersKept /\ BodyKept
      BY <1>2, <1>7, UsualBefore DEF Reading
    <2>1. CASE phase = "header"
      <3>1. Part = "Header" /\ NewChild("Header", item) /\ SameChildren("Body")
        BY <1>1, <1>3, <2>1 DEF Parts
      <3>2. Len(headers) \in Nat /\ DOMAIN headers = 1 .. Len(headers)
        BY DEF Reading, Fragments
      <3>3. HeadersKept'
        <4>1. /\ Len(ChildrenOf("Header")) = Len(headers)
              /\ \A i \in 1 .. Len(headers) : headers[i].items = ChildrenOf("Header")[i].items
          BY <1>1, <2>0, <2>1, <3>2 DEF HeadersKept
        <4>2. /\ Len(ChildrenOf("Header")') = Len(headers) + 1
              /\ \A i \in 1 .. Len(headers) :
                    headers[i].items = ChildrenOf("Header")'[i].items
              /\ ChildrenOf("Header")'[Len(headers) + 1].items = <<item>>
          BY <3>1, <3>2, <4>1, AfterwardsIs DEF NewChild
        <4>3. phase' = "header" /\ depth' > 0
          BY <1>4, <2>1
        <4> HIDE DEF item
        <4> QED BY <1>4, <1>5, <3>2, <4>2, <4>3 DEF HeadersKept
      <3>4. BodyKept'
        BY <1>2, <1>4, <2>0, <2>1, <3>1, BodyUntouched
      <3> QED BY <3>3, <3>4
    <2>2. CASE phase = "body"
      <3>1. Part = "Body" /\ NewChild("Body", item) /\ SameChildren("Header")
        BY <1>1, <1>3, <2>2 DEF Parts
      <3>2. HeadersKept'
        BY <1>4, <2>0, <2>2, <3>1, HeadersUntouched
      <3>3. ChildrenOf("Body") = <<>> /\ body = Absent
        BY <2>0, <2>2 DEF BodyKept
      <3>4. Len(ChildrenOf("Body")') = 1 /\ ChildrenOf("Body")'[1].items = <<item>>
        <4>1. Len(ChildrenOf("Body")) = 0
          BY <3>3
        <4>2. /\ Len(ChildrenOf("Body")') = 0 + 1
              /\ ChildrenOf("Body")'[0 + 1].items = <<item>>
          BY <3>1, <4>1, AfterwardsIs DEF NewChild
        <4> QED BY <4>2
      <3>5. BodyKept'
        BY <1>4, <1>5, <2>2, <3>3, <3>4 DEF BodyKept
      <3> QED BY <3>2, <3>5
    <2> QED BY <1>1, <2>1, <2>2
  <1> QED BY <1>2, <1>6, <1>7 DEF Reading

(* Keeping a fragment that is what the last child of its part has become.  *)
LEMMA KeepSound ==
    ASSUME AbsentIsNone, Reading, NEW fragment, Keep(fragment), "items" \in DOMAIN fragment,
           phase \in {"header", "body", "child"}, Document',
           Level' = 2, Part' = Part, odd \subseteq odd',
           \A q \in Parts \ {Part} : SameChildren(q),
           Usual' =>
              /\ phase = "header" =>
                    /\ Len(ChildrenOf("Header")') = Len(headers) + 1
                    /\ \A i \in 1 .. Len(headers) :
                          ChildrenOf("Header")'[i].items = headers[i].items
                    /\ ChildrenOf("Header")'[Len(headers) + 1].items = fragment.items
              /\ phase # "header" =>
                    /\ ChildrenOf("Body")' # <<>>
                    /\ ChildrenOf("Body")'[1].items = fragment.items
    PROVE  Reading'
  <1>1. /\ headers' = IF phase = "header" THEN Append(headers, fragment) ELSE headers
        /\ body' = IF phase = "header" THEN body ELSE fragment
        /\ phase' = IF phase = "header" THEN "header" ELSE "skip"
        /\ depth' = IF phase = "header" THEN 0 ELSE 1
    BY DEF Keep
  <1>2. PICK F : headers \in Seq(F)
    BY DEF Reading, Fragments
  <1>3. /\ headers \in Seq(F \cup {fragment})
        /\ Append(headers, fragment) \in Seq(F \cup {fragment})
        /\ Len(headers) \in Nat
        /\ Len(Append(headers, fragment)) = Len(headers) + 1
        /\ DOMAIN Append(headers, fragment) = 1 .. Len(headers) + 1
        /\ \A i \in 1 .. Len(headers) : Append(headers, fragment)[i] = headers[i]
        /\ Append(headers, fragment)[Len(headers) + 1] = fragment
    BY <1>2
  <1>4. phase = "header" => Part = "Header"
    BY DEF Reading, Position
  <1>5. phase # "header" => Part = "Body"
    BY DEF Reading, Position
  <1>6. Fragments'
    <2>1. \E G : headers' \in Seq(G)
      BY <1>1, <1>3
    <2>2. ~Copying'
      BY <1>1 DEF Copying
    <2> QED BY <2>1, <2>2 DEF Fragments
  <1>7. Position'
    BY <1>1, <1>4, <1>5 DEF Position
  <1>8. ASSUME Usual' PROVE HeadersKept' /\ BodyKept'
    <2>0. HeadersKept /\ BodyKept
      BY <1>8, UsualBefore DEF Reading
    <2>1. CASE phase = "header"
      <3>1. HeadersKept'
        BY <1>1, <1>3, <1>8, <2>1 DEF HeadersKept
      <3>2. SameChildren("Body")
        BY <1>4, <2>1 DEF Parts
      <3>3. BodyKept'
        BY <1>1, <2>0, <2>1, <3>2, BodyUntouched
      <3> QED BY <3>1, <3>3
    <2>2. CASE phase # "header"
      <3>1. SameChildren("Header")
        BY <1>5, <2>2 DEF Parts
      <3>2. HeadersKept'
        BY <1>1, <2>0, <2>2, <3>1, HeadersUntouched
      <3>3. fragment # Absent
        BY DEF AbsentIsNone
      <3>4. BodyKept'
        BY <1>1, <1>8, <2>2, <3>3 DEF BodyKept
      <3> QED BY <3>2, <3>4
    <2> QED BY <2>1, <2>2
  <1> QED BY <1>6, <1>7, <1>8 DEF Reading

(* Such a child that is empty.                                             *)
LEMMA EmptyFragmentSound ==
    ASSUME AbsentIsNone, Reading, NEW tag, EmptyFragment(tag)
    PROVE  Reading'
  <1> DEFINE item == <<"empty", tag>>
             fragment == Root(tag, item)
  <1>1. /\ Level = 2 /\ Part \in Parts /\ Part # Absent
        /\ phase = "header" => Part = "Header" /\ depth = 0
        /\ phase = "body" => Part = "Body"
        /\ phase \in {"header", "body"}
    BY ParserAssumption DEF Reading, Position, EmptyFragment, AtRoot, Parts
  <1>2. Document' /\ odd \subseteq odd' /\ Level' = 2 /\ Part' = Part
    BY <1>1, EmptyMoves DEF Reading, EmptyFragment
  <1>3. NewChild(Part, item) /\ \A q \in Parts \ {Part} : SameChildren(q)
    BY <1>1, NodeGrows DEF Reading, EmptyFragment, EmptyNode
  <1>4. "items" \in DOMAIN fragment /\ fragment.items = <<item>>
    BY RootItems
  <1>5. Keep(fragment)
    BY DEF EmptyFragment
  <1>6. ASSUME Usual', phase = "header"
        PROVE  /\ Len(ChildrenOf("Header")') = Len(headers) + 1
               /\ \A i \in 1 .. Len(headers) :
                     ChildrenOf("Header")'[i].items = headers[i].items
               /\ ChildrenOf("Header")'[Len(headers) + 1].items = fragment.items
    <2>1. HeadersKept /\ NewChild("Header", item)
      BY <1>1, <1>2, <1>3, <1>6, UsualBefore DEF Reading
    <2>2. DOMAIN headers = 1 .. Len(headers)
      BY DEF Reading, Fragments
    <2>3. /\ Len(ChildrenOf("Header")) = Len(headers)
          /\ \A i \in 1 .. Len(headers) : headers[i].items = ChildrenOf("Header")[i].items
      BY <1>1, <1>6, <2>1, <2>2 DEF HeadersKept
    <2>4. PICK c : c = ChildrenOf("Header")
      OBVIOUS
    <2>5. PICK d : d = ChildrenOf("Header")'
      OBVIOUS
    <2>6. /\ Len(d) = Len(c) + 1 /\ \A i \in 1 .. Len(c) : d[i] = c[i]
          /\ d[Len(c) + 1].items = <<item>>
      BY <2>1, <2>4, <2>5, AfterwardsIs DEF NewChild
    <2> HIDE DEF fragment
    <2> QED BY <1>4, <2>3, <2>4, <2>5, <2>6
  <1>7. ASSUME Usual', phase # "header"
        PROVE  ChildrenOf("Body")' # <<>> /\ ChildrenOf("Body")'[1].items = fragment.items
    <2>1. ChildrenOf("Body") = <<>>
      BY <1>1, <1>2, <1>7, UsualBefore DEF Reading, BodyKept
    <2>2. NewChild("Body", item)
      BY <1>1, <1>3, <1>7
    <2> HIDE DEF fragment
    <2> QED BY <1>4, <2>1, <2>2, AfterwardsIs DEF NewChild
  <1> HIDE DEF fragment
  <1> QED BY <1>1, <1>2, <1>3, <1>4, <1>5, <1>6, <1>7, KeepSound

(* Where a fragment is being copied.                                       *)
LEMMA CopyingIs ==
    ASSUME Reading, Copying
    PROVE  /\ Level = depth + 2 /\ depth \in Nat /\ depth > 0 /\ Level > 2
           /\ Part \in Parts /\ Part # Absent
           /\ phase = "header" => Part = "Header"
           /\ phase = "child" => Part = "Body"
           /\ phase \in {"header", "child"}
           /\ "items" \in DOMAIN buffer /\ "declares" \in DOMAIN buffer
  BY ParserAssumption DEF Reading, Position, Copying, Parts, Fragments

(* The copy grows as the last child of the part does.                      *)
LEMMA CopyGrows ==
    ASSUME AbsentIsNone, Reading, Copying, NEW item, LastGrows(Part, item), Usual
    PROVE  /\ phase = "header" =>
                 /\ Len(ChildrenOf("Header")') = Len(headers) + 1
                 /\ \A i \in 1 .. Len(headers) :
                       ChildrenOf("Header")'[i].items = headers[i].items
                 /\ ChildrenOf("Header")'[Len(headers) + 1].items = Copied(item).items
           /\ phase # "header" =>
                 /\ Len(ChildrenOf("Body")') = 1 /\ ChildrenOf("Body")' # <<>>
                 /\ ChildrenOf("Body")'[1].items = Copied(item).items
  <1>1. Copied(item).items = Append(buffer.items, item)
    BY CopyingIs, CopiedItems
  <1>2. HeadersKept /\ BodyKept
    BY DEF Reading
  <1>3. Len(headers) \in Nat /\ DOMAIN headers = 1 .. Len(headers)
    BY DEF Reading, Fragments
  <1>4. CASE phase = "header"
    <2>1. LastGrows("Header", item) /\ depth > 0
      BY <1>4, CopyingIs
    <2>2. /\ Len(ChildrenOf("Header")) = Len(headers) + 1
          /\ buffer.items = ChildrenOf("Header")[Len(headers) + 1].items
          /\ \A i \in 1 .. Len(headers) : headers[i].items = ChildrenOf("Header")[i].items
      BY <1>2, <1>3, <1>4, <2>1 DEF HeadersKept
    <2>3. PICK c : c = ChildrenOf("Header")
      OBVIOUS
    <2>4. PICK d : d = ChildrenOf("Header")'
      OBVIOUS
    <2>5. /\ Len(d) = Len(c) /\ \A i \in 1 .. Len(c) - 1 : d[i] = c[i]
          /\ d[Len(c)].items = Append(c[Len(c)].items, item)
      BY <2>1, <2>3, <2>4, AfterwardsIs DEF LastGrows
    <2>6. PICK n \in Nat : n = Len(headers)
      BY <1>3
    <2>7. Len(c) = n + 1 /\ 1 .. Len(c) - 1 = 1 .. n
      BY <2>2, <2>3, <2>6
    <2>8. /\ Len(d) = n + 1 /\ d[n + 1].items = Copied(item).items
          /\ \A i \in 1 .. n : d[i].items = headers[i].items
      BY <1>1, <2>2, <2>3, <2>5, <2>6, <2>7
    <2> QED BY <1>4, <2>4, <2>6, <2>8
  <1>5. CASE phase # "header"
    <2>1. LastGrows("Body", item) /\ phase = "child"
      BY <1>5, CopyingIs
    <2>2. Len(ChildrenOf("Body")) = 1 /\ buffer.items = ChildrenOf("Body")[1].items
      BY <1>2, <2>1 DEF BodyKept
    <2> QED BY <1>1, <1>5, <2>1, <2>2, AfterwardsIs DEF LastGrows
  <1> QED BY <1>4, <1>5

(* An event is copied that does not end the fragment.                      *)
LEMMA CopySound ==
    ASSUME AbsentIsNone, Reading, Copying, NEW item, Document', odd \subseteq odd',
           LastGrows(Part, item), \A q \in Parts \ {Part} : SameChildren(q),
           Part' = Part, depth' \in Nat, depth' > 0, Level' = depth' + 2,
           phase' = phase, headers' = headers, body' = body, buffer' = Copied(item)
    PROVE  Reading'
  <1>1. "items" \in DOMAIN buffer' /\ "declares" \in DOMAIN buffer'
    BY CopyingIs, CopiedItems
  <1>2. Fragments'
    BY <1>1 DEF Reading, Fragments
  <1>3. Position'
    <2>1. /\ phase' \in {"header", "child"} /\ depth' >= 1
          /\ phase' = "header" => Part' = "Header"
          /\ phase' = "child" => Part' = "Body"
      BY CopyingIs
    <2> QED BY <2>1 DEF Position
  <1>4. ASSUME Usual' PROVE HeadersKept' /\ BodyKept'
    <2>0. HeadersKept /\ BodyKept /\ Usual
      BY <1>4, UsualBefore DEF Reading
    <2>1. Len(headers) \in Nat /\ DOMAIN headers = 1 .. Len(headers)
      BY DEF Reading, Fragments
    <2>2. CASE phase = "header"
      <3>1. HeadersKept'
        BY <2>0, <2>1, <2>2, CopyGrows DEF HeadersKept
      <3>2. SameChildren("Body")
        BY <2>2, CopyingIs DEF Parts
      <3>3. BodyKept'
        BY <2>0, <2>2, <3>2, BodyUntouched
      <3> QED BY <3>1, <3>3
    <2>3. CASE phase = "child"
      <3>1. SameChildren("Header")
        BY <2>3, CopyingIs DEF Parts
      <3>2. HeadersKept'
        BY <2>0, <2>3, <3>1, HeadersUntouched
      <3>3. body = Absent
        BY <2>0, <2>3 DEF BodyKept
      <3>4. BodyKept'
        BY <2>0, <2>3, <3>3, CopyGrows DEF BodyKept
      <3> QED BY <3>2, <3>4
    <2> QED BY <2>2, <2>3, CopyingIs
  <1> QED BY <1>2, <1>3, <1>4 DEF Reading

(* The events of a fragment.                                               *)
LEMMA CopyStartSound ==
    ASSUME AbsentIsNone, Reading, NEW tag, CopyStart(tag)
    PROVE  Reading'
  <1> DEFINE item == <<"start", tag>>
  <1>1. Copying /\ Opening(tag)
    BY DEF CopyStart
  <1>2. Document' /\ odd \subseteq odd' /\ Level' = Level + 1 /\ Part' = Part
    BY <1>1, CopyingIs, OpeningMoves DEF Reading
  <1>3. LastGrows(Part, item) /\ \A q \in Parts \ {Part} : SameChildren(q)
    BY <1>1, CopyingIs, NodeGrows DEF Reading, Opening
  <1>4. /\ phase' = phase /\ headers' = headers /\ body' = body
        /\ buffer' = Copied(item) /\ depth' = depth + 1
    BY DEF CopyStart, result
  <1>5. depth' \in Nat /\ depth' > 0 /\ Level' = depth' + 2
    BY <1>1, <1>2, <1>4, CopyingIs
  <1> QED BY <1>1, <1>2, <1>3, <1>4, <1>5, CopySound

(* An element without content within a fragment.                           *)
LEMMA CopyEmptySound ==
    ASSUME AbsentIsNone, Reading, NEW tag, CopyEmpty(tag)
    PROVE  Reading'
  <1> DEFINE item == <<"empty", tag>>
  <1>1. Copying /\ EmptyNode(tag)
    BY DEF CopyEmpty
  <1>2. Document' /\ odd \subseteq odd' /\ Level' = Level /\ Part' = Part
    BY <1>1, EmptyMoves DEF Reading
  <1>3. LastGrows(Part, item) /\ \A q \in Parts \ {Part} : SameChildren(q)
    BY <1>1, CopyingIs, NodeGrows DEF Reading, EmptyNode
  <1>4. /\ phase' = phase /\ headers' = headers /\ body' = body
        /\ buffer' = Copied(item) /\ depth' = depth
    BY DEF CopyEmpty, result
  <1>5. depth' \in Nat /\ depth' > 0 /\ Level' = depth' + 2
    BY <1>1, <1>2, <1>4, CopyingIs
  <1> QED BY <1>1, <1>2, <1>3, <1>4, <1>5, CopySound

(* Text within a fragment.                                                 *)
LEMMA CopyTextSound ==
    ASSUME AbsentIsNone, Reading, CopyText
    PROVE  Reading'
  <1> DEFINE item == <<"text">>
  <1>1. Copying /\ Data /\ children' = Content(item) /\ odd' = odd
    BY DEF CopyText, Data
  <1>2. Document' /\ Level' = Level /\ Part' = Part
    BY <1>1, DataMoves DEF Reading
  <1>3. LastGrows(Part, item) /\ \A q \in Parts \ {Part} : SameChildren(q)
    BY <1>1, CopyingIs, ContentGrows DEF Reading
  <1>4. /\ phase' = phase /\ headers' = headers /\ body' = body
        /\ buffer' = Copied(item) /\ depth' = depth
    BY DEF CopyText, result
  <1>5. depth' \in Nat /\ depth' > 0 /\ Level' = depth' + 2
    BY <1>1, <1>2, <1>4, CopyingIs
  <1> QED BY <1>1, <1>2, <1>3, <1>4, <1>5, CopySound

(* An end tag within a fragment, or its own.                               *)
LEMMA CopyEndSound ==
    ASSUME AbsentIsNone, Reading, CopyEnd
    PROVE  Reading'
  <1> DEFINE item == <<"end">>
  <1>1. Copying /\ Closing /\ children' = Content(item) /\ odd' = odd
    BY DEF CopyEnd, Closing
  <1>2. Document' /\ Level' = Level - 1 /\ Part' = Part
    BY <1>1, CopyingIs, ClosingMoves DEF Reading
  <1>3. LastGrows(Part, item) /\ \A q \in Parts \ {Part} : SameChildren(q)
    BY <1>1, CopyingIs, ContentGrows DEF Reading
  <1>4. CASE depth > 1
    <2>1. /\ phase' = phase /\ headers' = headers /\ body' = body
          /\ buffer' = Copied(item) /\ depth' = depth - 1
      BY <1>4 DEF CopyEnd
    <2>2. depth' \in Nat /\ depth' > 0 /\ Level' = depth' + 2
      BY <1>1, <1>2, <1>4, <2>1, CopyingIs
    <2> QED BY <1>1, <1>2, <1>3, <2>1, <2>2, CopySound
  <1>5. CASE ~(depth > 1)
    <2>1. Keep(Copied(item))
      BY <1>5 DEF CopyEnd
    <2>2. Level' = 2
      BY <1>1, <1>2, <1>5, CopyingIs
    <2>3. "items" \in DOMAIN Copied(item)
      BY <1>1, CopyingIs, CopiedItems
    <2>4. phase \in {"header", "body", "child"}
      BY <1>1, CopyingIs
    <2>5. Usual' => Usual
      BY <1>1 DEF Usual
    <2> QED BY <1>1, <1>2, <1>3, <2>1, <2>2, <2>3, <2>4, <2>5, CopyGrows, KeepSound
  <1> QED BY <1>4, <1>5

-----------------------------------------------------------------------------
(* What is skipped, and what ends.                                         *)

(* Where the parser is while it skips.                                     *)
LEMMA SkippingIs ==
    ASSUME Reading, phase = "skip"
    PROVE  /\ depth \in Nat /\ depth >= 1 /\ Level = depth + 1 /\ Level >= 2
           /\ Part = "Body" \/ Part = Absent
           /\ "Body" # Absent
           /\ Part = "Body" => Parts \ {Part} = {"Header"}
  <1>1. Part # "Header" /\ depth \in Nat /\ depth >= 1 /\ Level = depth + 1
    BY DEF Reading, Position
  <1> QED BY <1>1, ParserAssumption, PartNamed DEF Parts

(* Behind the first child of the Body, what grows is another child.        *)
LEMMA FirstStays ==
    ASSUME AbsentIsNone, Reading, phase = "skip", Part = "Body", Usual, NEW item,
           \/ Level = 2 /\ NewChild("Body", item)
           \/ Level > 2 /\ LastGrows("Body", item)
    PROVE  /\ body # Absent
           /\ Len(ChildrenOf("Body")') > 1 /\ ChildrenOf("Body")' # <<>>
           /\ body.items = ChildrenOf("Body")'[1].items
  <1> DEFINE c == ChildrenOf("Body")
  <1>1. /\ c # <<>> /\ body # Absent /\ body.items = c[1].items
        /\ depth > 1 => Len(c) > 1
    BY DEF Reading, BodyKept
  <1>2. Len(c) \in Nat /\ Len(c) > 0
    BY <1>1, ChildrenSequence DEF Reading, Document, Parts
  <1>3. CASE Level = 2 /\ NewChild("Body", item)
    BY <1>1, <1>2, <1>3, AfterwardsIs DEF NewChild
  <1>4. CASE Level > 2 /\ LastGrows("Body", item)
    <2>1. Len(c) > 1
      BY <1>1, <1>4, SkippingIs
    <2> QED BY <1>1, <1>2, <1>4, <2>1, AfterwardsIs DEF LastGrows
  <1> QED BY <1>3, <1>4

(* A step of skip_to_end or skip_element.                                  *)
LEMMA SkipSound ==
    ASSUME AbsentIsNone, Reading, phase = "skip", Document', odd \subseteq odd', NEW item,
           headers' = headers, body' = body, depth' \in Nat,
           \/ (\A q \in Parts : SameChildren(q)) /\ (Part = "Body" => depth' <= depth)
           \/ /\ Part = "Body" /\ SameChildren("Header")
              /\ \/ Level = 2 /\ NewChild("Body", item)
                 \/ Level > 2 /\ LastGrows("Body", item),
           \/ phase' = "skip" /\ depth' >= 1 /\ Level' = depth' + 1 /\ Part' = Part
           \/ phase' = "children" /\ Level' = 1
    PROVE  Reading'
  <1>1. Fragments'
    BY DEF Reading, Fragments, Copying
  <1>2. Position'
    BY SkippingIs DEF Reading, Position
  <1>3. ASSUME Usual' PROVE HeadersKept' /\ BodyKept'
    <2>0. HeadersKept /\ BodyKept /\ Usual
      BY <1>3, UsualBefore DEF Reading
    <2>1. SameChildren("Header")
      BY DEF Parts
    <2>2. HeadersKept'
      BY <2>0, <2>1, HeadersUntouched
    <2>3. CASE (\A q \in Parts : SameChildren(q)) /\ (Part = "Body" => depth' <= depth)
      <3>1. ChildrenOf("Body")' = ChildrenOf("Body")
        BY <2>3, Untouched DEF Parts
      <3>2. /\ (body = Absent) <=> (ChildrenOf("Body") = <<>>)
            /\ body # Absent => body.items = ChildrenOf("Body")[1].items
        BY <2>0 DEF BodyKept
      <3>3. Part = "Body" =>
               ChildrenOf("Body") # <<>> /\ (depth > 1 => Len(ChildrenOf("Body")) > 1)
        BY <2>0 DEF BodyKept
      <3>4. phase' = "skip" /\ Part' = "Body" => Part = "Body"
        OBVIOUS
      <3>5. Part = "Body" /\ depth' > 1 => depth > 1
        BY <2>3, SkippingIs
      <3>6. phase' \notin {"child", "body"}
        OBVIOUS
      <3> QED BY <2>2, <3>1, <3>2, <3>3, <3>4, <3>5, <3>6 DEF BodyKept
    <2>4. CASE /\ Part = "Body"
               /\ \/ Level = 2 /\ NewChild("Body", item)
                  \/ Level > 2 /\ LastGrows("Body", item)
      <3>1. /\ body # Absent
            /\ Len(ChildrenOf("Body")') > 1 /\ ChildrenOf("Body")' # <<>>
            /\ body.items = ChildrenOf("Body")'[1].items
        BY <2>0, <2>4, FirstStays
      <3>2. phase' \notin {"child", "body"}
        OBVIOUS
      <3> QED BY <2>2, <3>1, <3>2 DEF BodyKept
    <2> QED BY <2>3, <2>4
  <1> QED BY <1>1, <1>2, <1>3 DEF Reading

(* How the children grow below an element that is skipped.                 *)
LEMMA NodeSkipped ==
    ASSUME AbsentIsNone, Reading, phase = "skip", NEW tag, NEW item, item[2] = tag, Node(tag, item)
    PROVE  \/ (\A q \in Parts : SameChildren(q)) /\ Part = Absent
           \/ /\ Part = "Body" /\ SameChildren("Header")
              /\ \/ Level = 2 /\ NewChild("Body", item)
                 \/ Level > 2 /\ LastGrows("Body", item)
  <1>1. CASE Part = Absent
    BY <1>1, SkippingIs, NodeGrows DEF Reading
  <1>2. CASE Part = "Body"
    <2>1. Level = 2 \/ Level > 2
      BY SkippingIs
    <2>2. Part # Absent /\ Parts \ {Part} = {"Header"}
      BY <1>2, SkippingIs
    <2>3. /\ Level = 2 => NewChild("Body", item) /\ SameChildren("Header")
          /\ Level > 2 => LastGrows("Body", item) /\ SameChildren("Header")
      BY <1>2, <2>2, NodeGrows DEF Reading
    <2> QED BY <1>2, <2>1, <2>3
  <1> QED BY <1>1, <1>2, SkippingIs

(* Likewise, of content and end tags.                                      *)
LEMMA ContentSkipped ==
    ASSUME AbsentIsNone, Reading, phase = "skip", NEW item, children' = Content(item)
    PROVE  \/ (\A q \in Parts : SameChildren(q))
           \/ Part = "Body" /\ SameChildren("Header") /\ Level > 2 /\ LastGrows("Body", item)
  <1>1. CASE Part = Absent \/ Level <= 2
    BY <1>1, ContentGrows DEF Reading
  <1>2. CASE Part = "Body" /\ Level > 2
    <2>1. Part # Absent /\ Parts \ {Part} = {"Header"}
      BY <1>2, SkippingIs
    <2> QED BY <1>2, <2>1, ContentGrows DEF Reading
  <1>3. Level <= 2 \/ Level > 2
    BY SkippingIs
  <1> QED BY <1>1, <1>2, <1>3, SkippingIs

(* The events of an element that is skipped.                               *)
LEMMA SkipStartSound ==
    ASSUME AbsentIsNone, Reading, NEW tag, SkipStart(tag)
    PROVE  Reading'
  <1> DEFINE item == <<"start", tag>>
  <1>1. phase = "skip" /\ Opening(tag) /\ Node(tag, item)
    BY DEF SkipStart, Opening
  <1>2. Document' /\ odd \subseteq odd' /\ Level' = Level + 1 /\ Part' = Part
    BY <1>1, SkippingIs, OpeningMoves DEF Reading
  <1>3. /\ phase' = "skip" /\ depth' = depth + 1 /\ headers' = headers /\ body' = body
    BY DEF SkipStart, result
  <1>4. depth' \in Nat /\ depth' >= 1 /\ Level' = depth' + 1
    BY <1>1, <1>2, <1>3, SkippingIs
  <1>5. \/ (\A q \in Parts : SameChildren(q)) /\ (Part = "Body" => depth' <= depth)
        \/ /\ Part = "Body" /\ SameChildren("Header")
           /\ \/ Level = 2 /\ NewChild("Body", item)
              \/ Level > 2 /\ LastGrows("Body", item)
    BY <1>1, NodeSkipped, SkippingIs
  <1> QED BY <1>1, <1>2, <1>3, <1>4, <1>5, SkipSound

(* An end tag: of an element below, or of the element that is skipped.     *)
LEMMA SkipEndSound ==
    ASSUME AbsentIsNone, Reading, SkipEnd
    PROVE  Reading'
  <1> DEFINE item == <<"end">>
  <1>1. phase = "skip" /\ Closing /\ children' = Content(item) /\ odd' = odd
    BY DEF SkipEnd, Closing
  <1>2. /\ Document' /\ Level' = Level - 1
        /\ Part' = IF Level > 2 THEN Part ELSE Absent
    BY <1>1, SkippingIs, ClosingMoves DEF Reading
  <1>3. /\ phase' = IF depth = 1 THEN "children" ELSE "skip"
        /\ depth' = depth - 1 /\ headers' = headers /\ body' = body
    BY DEF SkipEnd, result
  <1>4. /\ depth' \in Nat /\ depth' <= depth
        /\ \/ phase' = "skip" /\ depth' >= 1 /\ Level' = depth' + 1 /\ Part' = Part
           \/ phase' = "children" /\ Level' = 1
    BY <1>1, <1>2, <1>3, SkippingIs
  <1>5. \/ (\A q \in Parts : SameChildren(q)) /\ (Part = "Body" => depth' <= depth)
        \/ /\ Part = "Body" /\ SameChildren("Header")
           /\ \/ Level = 2 /\ NewChild("Body", item)
              \/ Level > 2 /\ LastGrows("Body", item)
    BY <1>1, <1>4, ContentSkipped
  <1> QED BY <1>1, <1>2, <1>3, <1>4, <1>5, SkipSound

(* What the parser takes no notice of.                                     *)
LEMMA StillSound ==
    ASSUME Reading, Document', odd \subseteq odd', Level' = Level, Part' = Part,
           UNCHANGED <<phase, depth, buffer, headers, body>>,
           Usual' => \A p \in Parts : ChildrenOf(p)' = ChildrenOf(p)
    PROVE  Reading'
  <1>1. Fragments' /\ Position'
    BY DEF Reading, Fragments, Copying, Position
  <1>2. ASSUME Usual' PROVE HeadersKept' /\ BodyKept'
    <2>1. HeadersKept /\ BodyKept
      BY <1>2, UsualBefore DEF Reading
    <2>2. /\ ChildrenOf("Header")' = ChildrenOf("Header")
          /\ ChildrenOf("Body")' = ChildrenOf("Body")
      BY <1>2 DEF Parts
    <2> QED BY <2>1, <2>2 DEF HeadersKept, BodyKept
  <1> QED BY <1>1, <1>2 DEF Reading

(* An empty element outside the fragments, <Header/> and <Body/> included. *)
LEMMA PassOverEmptySound ==
    ASSUME AbsentIsNone, Reading, NEW tag, PassOverEmpty(tag)
    PROVE  Reading'
  <1> DEFINE item == <<"empty", tag>>
  <1>1. /\ phase \in {"envelope", "children", "skip"} /\ EmptyNode(tag) /\ Node(tag, item)
        /\ UNCHANGED <<phase, depth, buffer, headers, body>>
    BY DEF PassOverEmpty, EmptyNode, code, result
  <1>2. Document' /\ odd \subseteq odd' /\ Level' = Level /\ Part' = Part /\ Level \in Nat
    BY <1>1, EmptyMoves DEF Reading
  <1>3. CASE phase = "skip"
    <2>1. \/ (\A q \in Parts : SameChildren(q)) /\ (Part = "Body" => depth' <= depth)
          \/ /\ Part = "Body" /\ SameChildren("Header")
             /\ \/ Level = 2 /\ NewChild("Body", item)
                \/ Level > 2 /\ LastGrows("Body", item)
      BY <1>1, <1>3, NodeSkipped, SkippingIs
    <2>2. depth' \in Nat /\ depth' >= 1 /\ Level' = depth' + 1 /\ phase' = "skip"
      BY <1>1, <1>2, <1>3, SkippingIs
    <2> QED BY <1>1, <1>2, <1>3, <2>1, <2>2, SkipSound
  <1>4. CASE phase # "skip"
    <2>1. Level \in {0, 1} /\ Part = Absent
      BY <1>1, <1>4, PartNamed DEF Reading, Position
    <2>2. ASSUME Usual', NEW p \in Parts PROVE ChildrenOf(p)' = ChildrenOf(p)
      <3>1. CASE Level = 1 /\ IsPart(Element(tag)) /\ p = tag.local
        <4>1. NoChildrenYet(p) /\ (children[p] # Absent => "repeated" \in odd')
          BY <1>1, <3>1, NodeGrows DEF Reading
        <4>2. children[p] = Absent
          BY <2>2, <4>1 DEF Usual
        <4> QED BY <4>1, <4>2, Untouched DEF ChildrenOf
      <3>2. CASE ~(Level = 1 /\ IsPart(Element(tag)) /\ p = tag.local)
        <4>1. SameChildren(p)
          BY <1>1, <2>1, <3>2, NodeGrows DEF Reading
        <4> QED BY <4>1, Untouched
      <3> QED BY <3>1, <3>2
    <2> QED BY <1>1, <1>2, <2>2, StillSound
  <1> QED BY <1>3, <1>4

(* Text outside the fragments.                                             *)
LEMMA PassOverTextSound ==
    ASSUME AbsentIsNone, Reading, PassOverText
    PROVE  Reading'
  <1> DEFINE item == <<"text">>
  <1>1. /\ ~Copying /\ Data /\ children' = Content(item) /\ odd' = odd
        /\ UNCHANGED <<phase, depth, buffer, headers, body>>
    BY DEF PassOverText, Data, code, result
  <1>2. Document' /\ Level' = Level /\ Part' = Part /\ Level \in Nat
    BY <1>1, DataMoves DEF Reading
  <1>3. CASE phase = "skip"
    <2>1. \/ (\A q \in Parts : SameChildren(q)) /\ (Part = "Body" => depth' <= depth)
          \/ /\ Part = "Body" /\ SameChildren("Header")
             /\ \/ Level = 2 /\ NewChild("Body", item)
                \/ Level > 2 /\ LastGrows("Body", item)
      BY <1>1, <1>3, ContentSkipped, SkippingIs
    <2>2. depth' \in Nat /\ depth' >= 1 /\ Level' = depth' + 1 /\ phase' = "skip"
      BY <1>1, <1>2, <1>3, SkippingIs
    <2> QED BY <1>1, <1>2, <1>3, <2>1, <2>2, SkipSound
  <1>4. CASE phase # "skip"
    <2>1. Level <= 2
      BY <1>1, <1>4 DEF Reading, Position, Copying
    <2>2. \A p \in Parts : ChildrenOf(p)' = ChildrenOf(p)
      BY <1>1, <2>1, ContentGrows, Untouched DEF Reading
    <2> QED BY <1>1, <1>2, <2>2, StillSound
  <1> QED BY <1>3, <1>4

(* CDATA, anywhere.                                                        *)
LEMMA CDataSound ==
    ASSUME AbsentIsNone, Reading, CData
    PROVE  Reading'
  <1>1. /\ Data /\ UNCHANGED <<phase, depth, buffer, headers, body>>
        /\ odd' = IF children' = children THEN odd ELSE odd \cup {"cdata"}
    BY DEF CData, code, result
  <1>2. Document' /\ Level' = Level /\ Part' = Part
    BY <1>1, DataMoves DEF Reading
  <1>3. Usual' => \A p \in Parts : ChildrenOf(p)' = ChildrenOf(p)
    BY <1>1 DEF Usual, ChildrenOf
  <1> QED BY <1>1, <1>2, <1>3, StillSound

(* An end tag before the Envelope.                                         *)
LEMMA EndBeforeEnvelopeSound ==
    ASSUME AbsentIsNone, Reading, EndBeforeEnvelope
    PROVE  Reading'
  <1>1. /\ phase = "envelope" /\ Closing /\ children' = Content(<<"end">>) /\ odd' = odd
        /\ UNCHANGED <<phase, depth, buffer, headers, body>>
    BY DEF EndBeforeEnvelope, Closing, code, result
  <1>2. Level = 0 /\ Part = Absent
    BY <1>1, PartNamed DEF Reading, Position
  <1>3. Document' /\ Level' = Level /\ Part' = Part
    BY <1>1, <1>2, ClosingMoves DEF Reading
  <1>4. \A p \in Parts : ChildrenOf(p)' = ChildrenOf(p)
    BY <1>1, <1>2, ContentGrows, Untouched DEF Reading
  <1> QED BY <1>1, <1>3, <1>4, StillSound

(* The Header ends.                                                        *)
LEMMA EndOfHeaderSound ==
    ASSUME AbsentIsNone, Reading, EndOfHeader
    PROVE  Reading'
  <1>1. /\ phase = "header" /\ depth = 0
        /\ Closing /\ children' = Content(<<"end">>) /\ odd' = odd
        /\ phase' = "children" /\ UNCHANGED <<depth, buffer, headers, body>>
    BY DEF EndOfHeader, Closing, result
  <1>2. Level = 2
    BY <1>1 DEF Reading, Position
  <1>3. Document' /\ Level' = 1
    BY <1>1, <1>2, ClosingMoves DEF Reading
  <1>4. \A p \in Parts : SameChildren(p)
    BY <1>1, <1>2, ContentGrows DEF Reading
  <1>5. Fragments' /\ Position'
    BY <1>1, <1>3 DEF Reading, Fragments, Copying, Position
  <1>6. Usual' => HeadersKept' /\ BodyKept'
    BY <1>1, <1>4, HeadersUntouched, BodyUntouched, UsualBefore DEF Reading, Parts
  <1> QED BY <1>3, <1>5, <1>6 DEF Reading

-----------------------------------------------------------------------------
(* What parse_envelope returns.                                            *)

(* The children of the Envelope end, or the input among them.              *)
LEMMA FinishSound ==
    ASSUME AbsentIsNone, Reading, phase = "children", Finish, children' = children, odd' = odd
    PROVE  FragmentsAsXml' /\ outcome' # "reading"
  <1>1. /\ outcome' = IF body = Absent THEN "no body" ELSE "ok"
        /\ headers' = headers /\ body' = body
    BY DEF Finish, Return
  <1>2. \A p : ChildrenOf(p)' = ChildrenOf(p)
    BY DEF ChildrenOf
  <1>3. ASSUME Usual
        PROVE  /\ body = Absent <=> ChildrenOf("Body") = <<>>
               /\ body # Absent => body.items = ChildrenOf("Body")[1].items
               /\ Items(headers) = Items(ChildrenOf("Header"))
    <2>1. HeadersKept /\ BodyKept
      BY <1>3 DEF Reading
    <2>2. Len(headers) \in Nat /\ DOMAIN headers = 1 .. Len(headers)
      BY DEF Reading, Fragments
    <2>3. /\ Len(ChildrenOf("Header")) \in Nat
          /\ DOMAIN ChildrenOf("Header") = 1 .. Len(ChildrenOf("Header"))
      BY ChildrenSequence DEF Reading, Document, Parts
    <2>4. /\ Len(ChildrenOf("Header")) = Len(headers)
          /\ \A i \in DOMAIN headers : headers[i].items = ChildrenOf("Header")[i].items
      BY <2>1 DEF HeadersKept
    <2>5. Items(headers) = Items(ChildrenOf("Header"))
      BY <2>2, <2>3, <2>4 DEF Items
    <2> QED BY <2>1, <2>5 DEF BodyKept
  <1>4. /\ Items(headers)' = Items(headers)
        /\ Items(ChildrenOf("Header"))' = Items(ChildrenOf("Header"))
    BY <1>1, <1>2 DEF Items
  <1>5. Usual' => Usual
    BY DEF Usual
  <1> QED BY <1>1, <1>2, <1>3, <1>4, <1>5 DEF FragmentsAsXml

(* The Envelope ends.                                                      *)
LEMMA EndOfEnvelopeSound ==
    ASSUME AbsentIsNone, Reading, EndOfEnvelope
    PROVE  FragmentsAsXml' /\ outcome' # "reading"
  <1>1. /\ phase = "children" /\ Finish
        /\ children' = Content(<<"end">>) /\ odd' = odd
    BY DEF EndOfEnvelope, Closing
  <1>2. Level = 1
    BY <1>1 DEF Reading, Position
  <1>3. children' = children
    BY <1>1, <1>2, ContentGrows DEF Reading
  <1> QED BY <1>1, <1>3, FinishSound

(* The Body ends without a child.                                          *)
LEMMA EndOfBodySound ==
    ASSUME AbsentIsNone, Reading, EndOfBody
    PROVE  FragmentsAsXml' /\ outcome' # "reading"
  <1>1. /\ phase = "body" /\ outcome' = "no body"
        /\ children' = Content(<<"end">>) /\ odd' = odd
    BY DEF EndOfBody, Closing, Return
  <1>2. Level = 2
    BY <1>1 DEF Reading, Position
  <1>3. ChildrenOf("Body")' = ChildrenOf("Body")
    <2> DEFINE item == <<"end">>
    <2>1. Document /\ Level <= 2 /\ children' = Content(item)
      <3>1. Document
        BY DEF Reading
      <3>2. Level <= 2
        BY <1>2
      <3> QED BY <1>1, <3>1, <3>2
    <2> HIDE DEF item
    <2>2. children' = children
      BY <2>1, ContentGrows
    <2> QED BY <2>2 DEF ChildrenOf
  <1>4. Usual => ChildrenOf("Body") = <<>>
    BY <1>1 DEF Reading, BodyKept
  <1> QED BY <1>1, <1>3, <1>4 DEF FragmentsAsXml, Usual

(* The input ends, or is malformed.                                        *)
LEMMA EofSound ==
    ASSUME AbsentIsNone, Reading, Eof \/ Malformed
    PROVE  FragmentsAsXml' /\ outcome' # "reading"
  <1>1. CASE phase = "children" /\ Finish /\ children' = children /\ odd' = odd
    BY <1>1, FinishSound
  <1>2. CASE outcome' \in {"no envelope", "truncated", "malformed"}
    BY <1>2 DEF FragmentsAsXml
  <1> QED BY <1>1, <1>2 DEF Eof, Malformed, Return

-----------------------------------------------------------------------------
IInv == FragmentsAsXml /\ (outcome = "reading" => Reading)

(* The invariant holds before anything was read.                           *)
LEMMA InitSound == AbsentIsNone /\ Init => IInv
  <1> SUFFICES ASSUME AbsentIsNone, Init PROVE IInv
    OBVIOUS
  <1>1. Outside
    BY DEF Init, Outside, IsStack
  <1>2. Level = 0 /\ Part = Absent
    BY <1>1, Levels DEF OutsideIsOut
  <1>3. Document
    <2>1. ChildrenShape
      <3>1. children \in [Parts -> Seq({}) \cup {Absent}]
        BY DEF Init
      <3>2. \A x \in {} : "items" \in DOMAIN x /\ "scope" \in DOMAIN x
        OBVIOUS
      <3> QED BY <3>1, <3>2 DEF ChildrenShape
    <2> QED BY <1>1, <1>2, <2>1 DEF Document, Stack, Noted
  <1>4. Fragments /\ Position
    BY <1>2 DEF Init, Fragments, Copying, Position
  <1>5. ChildrenOf("Header") = <<>> /\ ChildrenOf("Body") = <<>>
    BY DEF Init, ChildrenOf, Parts
  <1>6. HeadersKept /\ BodyKept
    BY <1>5 DEF Init, HeadersKept, BodyKept
  <1> QED BY <1>3, <1>4, <1>6 DEF IInv, Reading, FragmentsAsXml, Init

(* Every event keeps it.                                                   *)
LEMMA StepSound == AbsentIsNone /\ IInv /\ [Next]_vars => IInv'
  <1> SUFFICES ASSUME AbsentIsNone, IInv, [Next]_vars PROVE IInv'
    OBVIOUS
  <1>0. Reading' /\ outcome' = "reading" => IInv'
    BY DEF IInv, FragmentsAsXml
  <1>1. ASSUME NEW tag,
               \/ BeforeEnvelope(tag) \/ Envelope(tag)
               \/ Header(tag) \/ Body(tag) \/ OtherChild(tag)
        PROVE  IInv'
    <2>1. outcome = "reading" /\ outcome' = "reading"
      BY <1>1 DEF BeforeEnvelope, Envelope, Header, Body, OtherChild, Opening, Node,
                  code, result
    <2>2. Reading'
      BY <1>1, <2>1, BeforeEnvelopeSound, EnvelopeSound, HeaderSound, BodySound, OtherChildSound
         DEF IInv
    <2> QED BY <1>0, <2>1, <2>2
  <1>2. ASSUME NEW tag,
               \/ BeginFragment(tag) \/ EmptyFragment(tag)
               \/ CopyStart(tag) \/ CopyEmpty(tag)
        PROVE  IInv'
    <2>1. outcome = "reading" /\ outcome' = "reading"
      BY <1>2 DEF BeginFragment, EmptyFragment, CopyStart, CopyEmpty, Opening, EmptyNode, Node,
                  result
    <2>2. Reading'
      BY <1>2, <2>1, BeginFragmentSound, EmptyFragmentSound, CopyStartSound, CopyEmptySound
         DEF IInv
    <2> QED BY <1>0, <2>1, <2>2
  <1>3. ASSUME NEW tag, SkipStart(tag) \/ PassOverEmpty(tag)
        PROVE  IInv'
    <2>1. outcome = "reading" /\ outcome' = "reading"
      BY <1>3 DEF SkipStart, PassOverEmpty, Opening, EmptyNode, Node, code, result
    <2>2. Reading'
      BY <1>3, <2>1, SkipStartSound, PassOverEmptySound DEF IInv
    <2> QED BY <1>0, <2>1, <2>2
  <1>4. ASSUME CopyEnd \/ SkipEnd \/ EndBeforeEnvelope \/ EndOfHeader
        PROVE  IInv'
    <2>1. outcome = "reading" /\ outcome' = "reading"
      BY <1>4 DEF CopyEnd, SkipEnd, EndBeforeEnvelope, EndOfHeader, Closing, code, result
    <2>2. Reading'
      BY <1>4, <2>1, CopyEndSound, SkipEndSound, EndBeforeEnvelopeSound, EndOfHeaderSound
         DEF IInv
    <2> QED BY <1>0, <2>1, <2>2
  <1>5. ASSUME CopyText \/ PassOverText \/ CData
        PROVE  IInv'
    <2>1. outcome = "reading" /\ outcome' = "reading"
      BY <1>5 DEF CopyText, PassOverText, CData, Data, code, result
    <2>2. Reading'
      BY <1>5, <2>1, CopyTextSound, PassOverTextSound, CDataSound DEF IInv
    <2> QED BY <1>0, <2>1, <2>2
  <1>6. ASSUME NEW tag, RefuseEnvelope(tag)
        PROVE  IInv'
    BY <1>6 DEF RefuseEnvelope, Return, IInv, FragmentsAsXml
  <1>7. ASSUME EndOfBody \/ EndOfEnvelope \/ Eof \/ Malformed
        PROVE  IInv'
    <2>1. outcome = "reading"
      BY <1>7 DEF EndOfBody, EndOfEnvelope, Eof, Malformed, Closing
    <2>2. FragmentsAsXml' /\ outcome' # "reading"
      BY <1>7, <2>1, EndOfBodySound, EndOfEnvelopeSound, EofSound DEF IInv
    <2> QED BY <2>2 DEF IInv
  <1>8. CASE UNCHANGED vars
    <2>1. Reading => Reading'
      <3>1. ASSUME Reading PROVE Document'
        <4>1. Stack' /\ Level' = Level /\ Part' = Part
          BY <1>8, <3>1, OpenKept DEF vars, Reading
        <4> QED BY <1>8, <3>1, <4>1 DEF vars, Reading, Document, ChildrenShape, Noted
      <3>2. ASSUME Reading PROVE Level' = Level /\ Part' = Part
        BY <1>8, <3>2, OpenKept DEF vars, Reading
      <3> QED BY <1>8, <3>1, <3>2, StillSound DEF vars, code, result, ChildrenOf
    <2> QED BY <1>8, <2>1
        DEF vars, code, result, IInv, FragmentsAsXml, Usual, Items, ChildrenOf
  <1> QED BY <1>1, <1>2, <1>3, <1>4, <1>5, <1>6, <1>7, <1>8 DEF Next

(* None being neither a fragment nor a list of children, what              *)
(* parse_envelope returns is what XML has there: for documents of any      *)
(* depth and length, over all start tags.                                  *)
THEOREM FragmentsCutRight == AbsentIsNone => (Spec => []FragmentsAsXml)
  <1> SUFFICES ASSUME AbsentIsNone PROVE Spec => []FragmentsAsXml
    OBVIOUS
  <1>1. Init => IInv
    BY InitSound
  <1>2. IInv /\ [Next]_vars => IInv'
    BY StepSound
  <1>3. IInv => FragmentsAsXml
    BY DEF IInv
  <1> QED BY <1>1, <1>2, <1>3, PTL DEF Spec

-----------------------------------------------------------------------------
(* Which declaration of a prefix comes first.                              *)

(* A set of numbers has a least one.                                       *)
LEMMA Least ==
    ASSUME NEW T \in SUBSET Nat, T # {}
    PROVE  \E x \in T : \A y \in T : x <= y
  <1>1. PICK x \in T : \A y \in T : ~(<<y, x>> \in OpToRel(<, Nat))
    BY WFMin, NatLessThanWellFounded
  <1>2. ASSUME NEW y \in T, y < x PROVE FALSE
    BY <1>1, <1>2 DEF OpToRel
  <1> QED BY <1>2

(* A set that has 0, and with a number the next up to n, has them all.     *)
LEMMA UpTo ==
    ASSUME NEW n \in Nat, NEW T, 0 \in T, \A k \in 0 .. n - 1 : k \in T => k + 1 \in T
    PROVE  \A k \in 0 .. n : k \in T
  <1> DEFINE M == {k \in 0 .. n : k \notin T}
  <1>1. SUFFICES ASSUME M # {} PROVE FALSE
    OBVIOUS
  <1>2. M \in SUBSET Nat
    OBVIOUS
  <1>3. PICK x \in M : \A y \in M : x <= y
    <2> HIDE DEF M
    <2> QED BY <1>1, <1>2, Least
  <1>4. x # 0 /\ x - 1 \in 0 .. n - 1 /\ x - 1 \notin M
    BY <1>3
  <1> QED BY <1>3, <1>4

(* The first declaration of a prefix is the i-th.                          *)
First(bindings, prefix, i) ==
    /\ i \in DOMAIN bindings /\ bindings[i][1] = prefix
    /\ \A j \in 1 .. i - 1 : bindings[j][1] # prefix

(* It is the one FirstBinding finds.                                       *)
LEMMA FirstIs ==
    ASSUME NEW S, NEW s \in Seq(S), NEW p, NEW i, First(s, p, i)
    PROVE  FirstBinding(s, p) = s[i][2]
  <1> DEFINE I == {k \in 1 .. Len(s) : s[k][1] = p}
  <1>1. i \in 1 .. Len(s) /\ Len(s) \in Nat
    BY DEF First
  <1>2. i \in I /\ \A k \in I : i <= k
    BY <1>1 DEF First
  <1>3. Min(I) = i
    <2>1. \A x \in I : (\A y \in I : x <= y) => x = i
      BY <1>1, <1>2
    <2> HIDE DEF I
    <2> QED BY <1>2, <2>1 DEF Min
  <1>4. SelectInSeq(s, LAMBDA b : b[1] = p) = i
    BY <1>2, <1>3 DEF SelectInSeq
  <1>5. i # 0
    BY <1>1
  <1> QED BY <1>4, <1>5 DEF FirstBinding

(* There is one.                                                           *)
LEMMA FirstExists ==
    ASSUME NEW S, NEW s \in Seq(S), NEW p, Declares(s, p)
    PROVE  \E i : First(s, p, i)
  <1> DEFINE I == {k \in 1 .. Len(s) : s[k][1] = p}
  <1>1. I # {} /\ I \in SUBSET Nat
    BY DEF Declares
  <1>2. PICK i \in I : \A k \in I : i <= k
    <2> HIDE DEF I
    <2> QED BY <1>1, Least
  <1>3. \A j \in 1 .. i - 1 : j \notin I
    BY <1>2
  <1>4. First(s, p, i)
    BY <1>2, <1>3 DEF First
  <1> QED BY <1>4

(* The first of two sequences of declarations that has the prefix decides. *)
LEMMA FirstLeft ==
    ASSUME NEW S, NEW s \in Seq(S), NEW t \in Seq(S), NEW p, NEW i, First(s, p, i)
    PROVE  FirstBinding(s \o t, p) = s[i][2]
  <1>0. s \o t \in Seq(S)
    OBVIOUS
  <1>1. PICK u \in Seq(S) : u = s \o t
    BY <1>0
  <1>2. /\ Len(s) \in Nat /\ Len(t) \in Nat /\ DOMAIN s = 1 .. Len(s)
        /\ DOMAIN u = 1 .. Len(s) + Len(t)
        /\ \A k \in 1 .. Len(s) : u[k] = s[k]
    BY <1>1
  <1>3. i \in 1 .. Len(s) /\ s[i][1] = p /\ \A j \in 1 .. i - 1 : s[j][1] # p
    BY <1>2 DEF First
  <1>4. i \in DOMAIN u /\ u[i] = s[i] /\ \A j \in 1 .. i - 1 : u[j] = s[j]
    BY <1>2, <1>3
  <1>5. First(u, p, i)
    BY <1>3, <1>4 DEF First
  <1>6. FirstBinding(u, p) = u[i][2]
    BY <1>1, <1>5, FirstIs
  <1> QED BY <1>1, <1>4, <1>6

(* The second one does for a prefix that the first has not.               *)
LEMMA FirstRight ==
    ASSUME NEW S, NEW s \in Seq(S), NEW t \in Seq(S), NEW p, NEW i, ~Declares(s, p), First(t, p, i)
    PROVE  FirstBinding(s \o t, p) = t[i][2]
  <1>0. s \o t \in Seq(S)
    OBVIOUS
  <1>1. PICK u \in Seq(S) : u = s \o t
    BY <1>0
  <1>2. /\ Len(s) \in Nat /\ Len(t) \in Nat /\ DOMAIN s = 1 .. Len(s) /\ DOMAIN t = 1 .. Len(t)
        /\ DOMAIN u = 1 .. Len(s) + Len(t)
        /\ \A k \in 1 .. Len(s) + Len(t) : u[k] = IF k <= Len(s) THEN s[k] ELSE t[k - Len(s)]
    BY <1>1
  <1>3. i \in 1 .. Len(t) /\ t[i][1] = p /\ \A j \in 1 .. i - 1 : t[j][1] # p
    BY <1>2 DEF First
  <1>4. \A j \in 1 .. Len(s) : s[j][1] # p
    BY <1>2 DEF Declares
  <1>5. PICK n : n = Len(s) + i
    OBVIOUS
  <1>6. n \in DOMAIN u /\ u[n] = t[i]
    BY <1>2, <1>3, <1>5
  <1>7. ASSUME NEW j \in 1 .. n - 1 PROVE u[j][1] # p
    <2>1. CASE j <= Len(s)
      <3>1. u[j] = s[j] /\ j \in 1 .. Len(s)
        BY <1>2, <1>3, <1>5, <2>1
      <3> QED BY <1>4, <3>1
    <2>2. CASE j > Len(s)
      <3>1. u[j] = t[j - Len(s)] /\ j - Len(s) \in 1 .. i - 1
        BY <1>2, <1>3, <1>5, <2>2
      <3> QED BY <1>3, <3>1
    <2> QED BY <1>2, <1>3, <1>5, <2>1, <2>2
  <1>8. First(u, p, n)
    BY <1>3, <1>6, <1>7 DEF First
  <1>9. FirstBinding(u, p) = u[n][2]
    BY <1>1, <1>8, FirstIs
  <1> QED BY <1>1, <1>6, <1>9

(* Undeclared is defined by recursion on the inherited declarations.       *)
KeptUpTo(tag, bindings, f, n) ==
    f = [i \in 0 .. n |->
            IF i = 0 THEN <<>>
            ELSE IF Declares(tag.declares, bindings[i][1]) THEN f[i - 1]
            ELSE Append(f[i - 1], bindings[i])]

(* A function with these equations exists.                                 *)
LEMMA KeptExists ==
    ASSUME NEW tag, NEW bindings, NEW n \in Nat
    PROVE  \E f : KeptUpTo(tag, bindings, f, n)
  <1> DEFINE New(i, before) ==
                IF Declares(tag.declares, bindings[i][1]) THEN before
                ELSE Append(before, bindings[i])
             Step(f, m) == f = [i \in 0 .. m |-> IF i = 0 THEN <<>> ELSE New(i, f[i - 1])]
             T == {k \in 0 .. n : \E f : Step(f, k)}
  <1>1. 0 \in T
    <2>1. PICK g : g = [i \in 0 .. 0 |-> <<>>]
      OBVIOUS
    <2>2. Step(g, 0)
      BY <2>1
    <2>3. \E f : Step(f, 0)
      <3> HIDE DEF Step
      <3> QED BY <2>2
    <2>4. 0 \in 0 .. n
      OBVIOUS
    <2> QED BY <2>3, <2>4
  <1>2. ASSUME NEW k \in 0 .. n - 1, k \in T PROVE k + 1 \in T
    <2>1. PICK f : Step(f, k)
      BY <1>2
    <2> HIDE DEF New
    <2> DEFINE g == [i \in 0 .. k + 1 |-> IF i = k + 1 THEN New(k + 1, f[k]) ELSE f[i]]
    <2>2. \A i \in 0 .. k : g[i] = f[i]
      OBVIOUS
    <2>3. \A i \in 0 .. k : f[i] = IF i = 0 THEN <<>> ELSE New(i, f[i - 1])
      BY <2>1
    <2>4. ASSUME NEW i \in 0 .. k + 1
          PROVE  g[i] = IF i = 0 THEN <<>> ELSE New(i, g[i - 1])
      <3>1. CASE i = k + 1
        <4>1. k \in 0 .. k /\ i # 0 /\ i - 1 = k
          BY <3>1
        <4>2. g[i] = New(k + 1, f[k])
          BY <3>1
        <4> HIDE DEF g
        <4>3. g[i - 1] = f[k]
          BY <2>2, <4>1
        <4> QED BY <3>1, <4>1, <4>2, <4>3
      <3>2. CASE i # k + 1
        <4>1. i \in 0 .. k /\ (i # 0 => i - 1 \in 0 .. k)
          BY <3>2
        <4> HIDE DEF g
        <4> QED BY <2>2, <2>3, <4>1
      <3> QED BY <3>1, <3>2
    <2>5. Step(g, k + 1)
      <3>1. DOMAIN g = 0 .. k + 1 /\ g = [i \in 0 .. k + 1 |-> g[i]]
        OBVIOUS
      <3> HIDE DEF g
      <3> QED BY <2>4, <3>1
    <2>6. k + 1 \in 0 .. n /\ \E h : Step(h, k + 1)
      <3> HIDE DEF g, Step
      <3> QED BY <2>5
    <2> QED BY <2>6
  <1> HIDE DEF T
  <1>3. n \in T
    BY <1>1, <1>2, UpTo
  <1> QED BY <1>3 DEF T, KeptUpTo

(* What is first for a prefix stays so, unless the tag declares it.        *)
KeepsFirst(tag, bindings, kept) ==
    \A p, i : ~Declares(tag.declares, p) /\ First(bindings, p, i) =>
        \E j : First(kept, p, j) /\ kept[j] = bindings[i]

(* Of the inherited declarations, Undeclared has none of a prefix that the *)
(* tag declares, and of any other prefix the first one first.              *)
LEMMA UndeclaredAre ==
    ASSUME NEW S, inherited \in Seq(S), NEW tag
    PROVE  /\ Undeclared(tag) \in Seq(S)
           /\ \A p : Declares(tag.declares, p) => ~Declares(Undeclared(tag), p)
           /\ KeepsFirst(tag, inherited, Undeclared(tag))
  <1>0. PICK s : s = inherited
    OBVIOUS
  <1>0a. PICK n \in Nat : n = Len(s) /\ DOMAIN s = 1 .. n /\ \A i \in 1 .. n : s[i] \in S
    BY <1>0
  <1> DEFINE f == CHOOSE f : KeptUpTo(tag, s, f, n)
  <1>1. Undeclared(tag) = f[n]
    BY <1>0, <1>0a DEF Undeclared, KeptUpTo
  <1>2. KeptUpTo(tag, s, f, n)
    BY KeptExists
  <1> HIDE DEF f
  <1>3. \A i \in 0 .. n :
          f[i] = IF i = 0 THEN <<>>
                 ELSE IF Declares(tag.declares, s[i][1]) THEN f[i - 1]
                 ELSE Append(f[i - 1], s[i])
    BY <1>2 DEF KeptUpTo
  <1> DEFINE Right(k) ==
                /\ f[k] \in Seq(S)
                /\ \A j \in DOMAIN f[k] : ~Declares(tag.declares, f[k][j][1])
                /\ \A j \in DOMAIN f[k] : \E i \in 1 .. k : f[k][j] = s[i]
                /\ \A i \in 1 .. k : ~Declares(tag.declares, s[i][1]) /\ First(s, s[i][1], i) =>
                      \E j : First(f[k], s[i][1], j) /\ f[k][j] = s[i]
             T == {k \in 0 .. n : Right(k)}
  <1>4. 0 \in T
    <2>0. 0 \in 0 .. n
      OBVIOUS
    <2>1. f[0] = <<>>
      <3> HIDE DEF T, Right
      <3> QED BY <1>3, <2>0
    <2>2. DOMAIN f[0] = {} /\ f[0] \in Seq(S)
      BY <2>1
    <2> QED BY <2>0, <2>2
  <1>5. ASSUME NEW k \in 0 .. n - 1, k \in T PROVE k + 1 \in T
    <2>1. PICK m \in 1 .. n : m = k + 1 /\ m - 1 = k /\ m # 0
      OBVIOUS
    <2>2. /\ f[m] = IF Declares(tag.declares, s[m][1]) THEN f[k] ELSE Append(f[k], s[m])
          /\ s[m] \in S
      <3> HIDE DEF T, Right
      <3> QED BY <1>3, <1>0a, <2>1
    <2>3. Right(k)
      BY <1>5
    <2>4. PICK b : b = s[m]
      OBVIOUS
    <2>5. 1 .. m = 1 .. k \cup {m}
      BY <2>1
    <2>6. CASE Declares(tag.declares, b[1])
      <3>1. f[m] = f[k]
        BY <2>2, <2>4, <2>6
      <3>2. \A i \in 1 .. m : ~Declares(tag.declares, s[i][1]) => i \in 1 .. k
        BY <2>4, <2>5, <2>6
      <3>3. Right(m)
        BY <2>3, <2>5, <3>1, <3>2
      <3> QED BY <2>1, <3>3
    <2>7. CASE ~Declares(tag.declares, b[1])
      <3>1. PICK g \in Seq(S) : g = f[k]
        BY <2>3
      <3>2. PICK h \in Seq(S) : h = f[m]
        <4>1. Append(g, b) \in Seq(S) /\ f[m] = Append(g, b)
          BY <2>2, <2>4, <2>7, <3>1
        <4> QED BY <4>1
      <3>3. PICK l \in Nat : l = Len(g)
        OBVIOUS
      <3>4. /\ DOMAIN g = 1 .. l /\ DOMAIN h = 1 .. l + 1
            /\ \A j \in 1 .. l : h[j] = g[j]
            /\ h[l + 1] = b
        BY <2>2, <2>4, <2>7, <3>1, <3>2, <3>3
      <3>5. /\ \A j \in DOMAIN g : ~Declares(tag.declares, g[j][1])
            /\ \A j \in DOMAIN g : \E i \in 1 .. k : g[j] = s[i]
            /\ \A i \in 1 .. k : ~Declares(tag.declares, s[i][1]) /\ First(s, s[i][1], i) =>
                  \E j : First(g, s[i][1], j) /\ g[j] = s[i]
        BY <2>3, <3>1
      <3> HIDE DEF Right, T
      <3>6. \A j \in DOMAIN h : j \in DOMAIN g \/ j = l + 1
        BY <3>4
      <3>7. \A j \in DOMAIN g : h[j] = g[j]
        BY <3>4
      <3>8. \A j \in DOMAIN h : ~Declares(tag.declares, h[j][1])
        BY <2>7, <3>4, <3>5, <3>6, <3>7
      <3>9. \A j \in DOMAIN h : \E i \in 1 .. m : h[j] = s[i]
        BY <2>4, <2>5, <3>4, <3>5, <3>6, <3>7
      <3>10. ASSUME NEW p, NEW j, First(g, p, j) PROVE First(h, p, j) /\ h[j] = g[j]
        <4>1. j \in 1 .. l /\ g[j][1] = p /\ \A i \in 1 .. j - 1 : g[i][1] # p
          BY <3>4, <3>10 DEF First
        <4>2. j \in DOMAIN h /\ h[j] = g[j] /\ \A i \in 1 .. j - 1 : h[i] = g[i]
          BY <3>4, <4>1
        <4> QED BY <4>1, <4>2 DEF First
      <3>11. ASSUME First(s, b[1], m) PROVE First(h, b[1], l + 1) /\ h[l + 1] = b
        <4>1. \A i \in 1 .. k : s[i][1] # b[1]
          BY <2>1, <3>11 DEF First
        <4>2. \A j \in 1 .. l : h[j][1] # b[1]
          BY <3>4, <3>5, <3>7, <4>1
        <4>3. l + 1 \in DOMAIN h /\ h[l + 1] = b /\ 1 .. (l + 1) - 1 = 1 .. l
          BY <3>4
        <4> QED BY <4>2, <4>3 DEF First
      <3>12. ASSUME NEW i \in 1 .. m, ~Declares(tag.declares, s[i][1]), First(s, s[i][1], i)
             PROVE  \E j : First(h, s[i][1], j) /\ h[j] = s[i]
        <4>1. CASE i \in 1 .. k
          <5>1. PICK j : First(g, s[i][1], j) /\ g[j] = s[i]
            BY <3>5, <3>12, <4>1
          <5> QED BY <3>10, <5>1
        <4>2. CASE i = m
          BY <2>4, <3>11, <3>12, <4>2
        <4> QED BY <2>5, <4>1, <4>2
      <3>13. Right(m)
        BY <3>2, <3>8, <3>9, <3>12 DEF Right
      <3> QED BY <2>1, <3>13 DEF T
    <2> QED BY <2>6, <2>7
  <1> HIDE DEF T
  <1>6. \A k \in 0 .. n : k \in T
    <2> HIDE DEF Right
    <2> QED BY <1>4, <1>5, UpTo
  <1>7. Right(n)
    <2>1. n \in T
      BY <1>6
    <2> HIDE DEF Right
    <2> QED BY <2>1 DEF T
  <1>8. PICK u : u = f[n]
    OBVIOUS
  <1>9. /\ u \in Seq(S)
        /\ \A j \in DOMAIN u : ~Declares(tag.declares, u[j][1])
        /\ \A i \in 1 .. n : ~Declares(tag.declares, s[i][1]) /\ First(s, s[i][1], i) =>
              \E j : First(u, s[i][1], j) /\ u[j] = s[i]
    BY <1>7, <1>8
  <1> HIDE DEF Right
  <1>10. \A p : Declares(tag.declares, p) => ~Declares(u, p)
    BY <1>9 DEF Declares
  <1>11. ASSUME NEW p, NEW i, ~Declares(tag.declares, p), First(s, p, i)
         PROVE  \E j : First(u, p, j) /\ u[j] = s[i]
    <2>1. i \in 1 .. n /\ s[i][1] = p
      BY <1>0a, <1>11 DEF First
    <2> QED BY <1>9, <1>11, <2>1
  <1>12. KeepsFirst(tag, s, u)
    BY <1>11 DEF KeepsFirst
  <1> QED BY <1>0, <1>1, <1>8, <1>9, <1>10, <1>12

(* What a root declares agrees with what is in scope there.                *)
LEMMA RootDeclares ==
    ASSUME NEW S, inherited \in Seq(S), NEW tag, tag.declares \in Seq(S), NEW item, NEW child,
           child.scope = tag.declares \o inherited
    PROVE  Declared(Root(tag, item), child)
  <1>1. PICK u \in Seq(S) :
          /\ u = Undeclared(tag)
          /\ \A p : Declares(tag.declares, p) => ~Declares(u, p)
          /\ KeepsFirst(tag, inherited, u)
    BY UndeclaredAre
  <1>2. PICK d \in Seq(S) : d = tag.declares
    OBVIOUS
  <1>3. PICK s \in Seq(S) : s = inherited
    OBVIOUS
  <1>4. Root(tag, item).declares = u \o d /\ child.scope = d \o s
    BY <1>1, <1>2, <1>3 DEF Root
  <1>6. ASSUME NEW p, Declares(d \o s, p) PROVE FirstBinding(u \o d, p) = FirstBinding(d \o s, p)
    <2>1. CASE Declares(d, p)
      <3>1. PICK i : First(d, p, i)
        BY <2>1, FirstExists
      <3>2. ~Declares(u, p)
        BY <1>1, <1>2, <2>1
      <3>3. FirstBinding(d \o s, p) = d[i][2]
        BY <1>2, <1>3, <3>1, FirstLeft
      <3>4. FirstBinding(u \o d, p) = d[i][2]
        BY <1>1, <1>2, <3>1, <3>2, FirstRight
      <3> QED BY <3>3, <3>4
    <2>2. CASE ~Declares(d, p)
      <3>1. Declares(s, p)
        <4>1. PICK k \in DOMAIN (d \o s) : (d \o s)[k][1] = p
          BY <1>6 DEF Declares
        <4>2. CASE k <= Len(d)
          <5>1. k \in DOMAIN d /\ (d \o s)[k] = d[k]
            BY <4>1, <4>2
          <5> QED BY <2>2, <4>1, <5>1 DEF Declares
        <4>3. CASE ~(k <= Len(d))
          <5>1. k - Len(d) \in DOMAIN s /\ (d \o s)[k] = s[k - Len(d)]
            BY <4>1, <4>3
          <5> QED BY <4>1, <5>1 DEF Declares
        <4> QED BY <4>2, <4>3
      <3>2. PICK i : First(s, p, i)
        BY <3>1, FirstExists
      <3>3. PICK j : First(u, p, j) /\ u[j] = s[i]
        BY <1>1, <1>2, <1>3, <2>2, <3>2 DEF KeepsFirst
      <3>4. FirstBinding(u \o d, p) = s[i][2]
        BY <1>1, <1>2, <3>3, FirstLeft
      <3>5. FirstBinding(d \o s, p) = s[i][2]
        BY <1>2, <1>3, <2>2, <3>2, FirstRight
      <3> QED BY <3>4, <3>5
    <2> QED BY <2>1, <2>2
  <1>7. \A i \in DOMAIN child.scope : Declares(d \o s, child.scope[i][1])
    BY <1>4 DEF Declares
  <1> QED BY <1>4, <1>6, <1>7 DEF Declared

-----------------------------------------------------------------------------
(* The stack of open elements, for ScopeKept.                              *)

Bindings == UNION {ToSet(tag.declares) : tag \in Roots \cup Tags}

(* Every open element has a sequence of declarations.                      *)
Declaring == \A i \in DOMAIN open : open[i].declares \in Seq(Bindings)

(* What a tag declares is one.                                             *)
LEMMA TagDeclares ==
    ASSUME NEW tag \in Roots \cup Tags
    PROVE  tag.declares \in Seq(Bindings) /\ Element(tag).declares \in Seq(Bindings)
  <1>1. PICK s : s = tag.declares
    OBVIOUS
  <1>2. s \in Seq(ToSet(s)) /\ ToSet(s) \subseteq Bindings
    BY <1>1, ParserAssumption DEF Bindings
  <1>3. s \in Seq(Bindings)
    BY <1>2
  <1> QED BY <1>1, <1>3 DEF Element

(* In scope below two elements are the declarations of the inner one, then *)
(* those of the outer one.                                                 *)
LEMMA ScopeOfTwo ==
    ASSUME NEW E, open \in Seq(E), Len(open) = 2
    PROVE  Scope(open) = open[2].declares \o open[1].declares
  <1>0. PICK x : x = open[2].declares \o open[1].declares
    OBVIOUS
  <1> DEFINE r == [i \in 1 .. 2 |-> IF i = 1 THEN open[2].declares ELSE open[1].declares]
             Flat(f) == f = [i \in 1 .. 2 |-> IF i = 1 THEN r[i] ELSE f[i - 1] \o r[i]]
             g == [i \in 1 .. 2 |-> IF i = 1 THEN open[2].declares ELSE x]
             h == CHOOSE f : Flat(f)
  <1>1. DOMAIN open = 1 .. 2
    OBVIOUS
  <1>2. Reverse([i \in DOMAIN open |-> open[i].declares]) = r
    <2>1. PICK q : q = [i \in DOMAIN open |-> open[i].declares]
      OBVIOUS
    <2>2. Len(q) = 2
      <3>1. q \in [1 .. 2 -> {open[1].declares, open[2].declares}]
        BY <1>1, <2>1
      <3> QED BY <3>1
    <2>3. q[1] = open[1].declares /\ q[2] = open[2].declares
      BY <1>1, <2>1
    <2>4. Reverse(q) = [i \in 1 .. 2 |-> q[2 - i + 1]]
      BY <2>2 DEF Reverse
    <2>5. \A i \in 1 .. 2 : q[2 - i + 1] = IF i = 1 THEN q[2] ELSE q[1]
      OBVIOUS
    <2>6. \A i \in 1 .. 2 : q[2 - i + 1] = IF i = 1 THEN open[2].declares ELSE open[1].declares
      BY <2>3, <2>5
    <2> QED BY <2>1, <2>4, <2>6
  <1>3. r[1] = open[2].declares /\ r[2] = open[1].declares /\ Len(r) = 2
    <2>1. r \in [1 .. 2 -> {open[1].declares, open[2].declares}]
      OBVIOUS
    <2>2. Len(r) = 2
      <3> HIDE DEF r
      <3> QED BY <2>1
    <2> QED BY <2>2
  <1> HIDE DEF r
  <1>4. Flat(g)
    <2>1. g[1] = r[1] /\ g[2] = x
      BY <1>3
    <2>2. \A i \in 1 .. 2 : g[i] = IF i = 1 THEN r[i] ELSE g[i - 1] \o r[i]
      <3>1. PICK n : n = 2 /\ n - 1 = 1 /\ n # 1 /\ 1 .. 2 = {1, n}
        OBVIOUS
      <3>2. g[1] = r[1] /\ g[n] = g[1] \o r[n]
        BY <1>0, <1>3, <2>1, <3>1
      <3> HIDE DEF g
      <3> QED BY <3>1, <3>2
    <2>3. g = [i \in 1 .. 2 |-> g[i]]
      OBVIOUS
    <2> HIDE DEF g
    <2> QED BY <2>2, <2>3
  <1>5. Flat(h)
    <2> HIDE DEF Flat, g
    <2> QED BY <1>4
  <1>6. FlattenSeq(r) = h[2]
    BY <1>3 DEF FlattenSeq
  <1> HIDE DEF h
  <1>7. h[1] = r[1] /\ h[2] = h[1] \o r[2]
    <2>1. \A i \in 1 .. 2 : h[i] = IF i = 1 THEN r[i] ELSE h[i - 1] \o r[i]
      BY <1>5
    <2>2. PICK n \in 1 .. 2 : n = 2 /\ n - 1 = 1 /\ n # 1
      OBVIOUS
    <2>3. h[n] = h[1] \o r[n]
      <3> HIDE DEF Flat, g
      <3> QED BY <2>1, <2>2
    <2>4. h[1] = r[1]
      BY <2>1
    <2> QED BY <2>2, <2>3, <2>4
  <1>8. Scope(open) = FlattenSeq(r)
    BY <1>2 DEF Scope
  <1> QED BY <1>3, <1>6, <1>7, <1>8

(* Levels do not exceed the number of open elements.                       *)
LevelBounded == Stack => Level <= Len(open) /\ Level \in Nat /\ Len(open) \in Nat

(* They never do.                                                          *)
LEMMA LevelBound == LevelBounded
  <1>1. CASE Outside
    <2>1. Level = 0
      BY <1>1, Levels DEF OutsideIsOut
    <2>2. Len(open) \in Nat
      BY <1>1 DEF Outside, IsStack
    <2> QED BY <2>1, <2>2 DEF LevelBounded
  <1>2. ASSUME NEW k, EnvelopeAt(k) PROVE Level <= Len(open) /\ Level \in Nat /\ Len(open) \in Nat
    <2>1. k \in 1 .. Len(open) /\ Len(open) \in Nat /\ Level = Len(open) - k + 1
      BY <1>2, Levels DEF InsideIsIn
    <2> QED BY <2>1
  <1> QED BY <1>1, <1>2 DEF Stack, LevelBounded

(* Also after a step.                                                      *)
LEMMA LevelBoundPrimed == LevelBounded'
  BY LevelBound, PTL

(* Where the document starts with the Envelope, the level is how many      *)
(* elements are open.                                                      *)
LEMMA LevelIs ==
    ASSUME Stack, open # <<>> => open[1].local = "Envelope"
    PROVE  Level = Len(open)
  <1>1. PICK E : open \in Seq(E)
    BY DEF Stack, Outside, EnvelopeAt, IsStack
  <1>2. CASE open = <<>>
    <2>1. Len(open) = 0 /\ DOMAIN open = {}
      BY <1>2
    <2>2. Outside
      BY <1>1, <2>1 DEF Outside, IsStack
    <2> QED BY <2>1, <2>2, Levels DEF OutsideIsOut
  <1>3. CASE open # <<>>
    <2>1. 1 \in DOMAIN open /\ 1 .. 1 - 1 = {} /\ Len(open) \in Nat
      BY <1>1, <1>3
    <2>2. EnvelopeAt(1)
      BY <1>1, <1>3, <2>1 DEF EnvelopeAt, IsStack
    <2>3. Level = Len(open) - 1 + 1
      BY <2>2, Levels DEF InsideIsIn
    <2> QED BY <2>1, <2>3
  <1> QED BY <1>2, <1>3

-----------------------------------------------------------------------------
(* How the stack moves: the outer elements stay, and the outermost one is  *)
(* an Envelope or the document is wrapped.                                 *)
StackMoves ==
    /\ Declaring' /\ odd \subseteq odd'
    /\ events' \in Nat /\ (events' = 0 => open' = <<>>)
    /\ open # <<>> /\ open' # <<>> => open'[1] = open[1]
    /\ open = <<>> /\ open' # <<>> => "wrapped" \in odd' \/ open'[1].local = "Envelope"
    /\ Len(open) > 1 /\ Len(open') > 1 => open'[2] = open[2]

(* An element opens.                                                       *)
LEMMA OpeningStack ==
    ASSUME Document, Nested, Declaring, NEW tag \in Roots \cup Tags, Opening(tag)
    PROVE  /\ StackMoves
           /\ open = <<>> => open'[1] = Element(tag)
           /\ Len(open) = 1 => Len(open') = 2 /\ open'[2] = Element(tag)
           /\ open' # <<>>
  <1>1. /\ open' = Append(open, Element(tag)) /\ events' = events + 1 /\ events \in Nat
        /\ events > 0 => open # <<>>
        /\ odd' = odd \cup (IF Len(InEnvelope) = 1 /\ IsPart(Element(tag)) /\ children[tag.local] # Absent
                            THEN {"repeated"} ELSE {})
                      \cup (IF events = 0 /\ tag.local # "Envelope" THEN {"wrapped"} ELSE {})
    BY DEF Opening, Node, Nested
  <1>2. PICK E : open \in Seq(E)
    BY DEF Document, Stack, Outside, EnvelopeAt, IsStack
  <1> DEFINE F == E \cup {Element(tag)}
  <1>3. open \in Seq(F) /\ Element(tag) \in F
    BY <1>2
  <1> HIDE DEF F
  <1>4. PICK n \in Nat : n = Len(open)
    BY <1>2
  <1>5. /\ DOMAIN open = 1 .. n /\ DOMAIN open' = 1 .. n + 1 /\ Len(open') = n + 1
        /\ \A i \in 1 .. n : open'[i] = open[i]
        /\ open'[n + 1] = Element(tag) /\ (n = 0 <=> open = <<>>) /\ open' # <<>>
    BY <1>1, <1>3, <1>4
  <1>6. Declaring'
    BY <1>5, TagDeclares DEF Declaring
  <1>7. open = <<>> => events = 0
    BY <1>1
  <1>8. Element(tag).local = tag.local
    BY DEF Element
  <1>9. open = <<>> => open'[1] = Element(tag)
    BY <1>5
  <1>10. open = <<>> => "wrapped" \in odd' \/ open'[1].local = "Envelope"
    BY <1>1, <1>7, <1>8, <1>9
  <1>11. Len(open) = 1 => Len(open') = 2 /\ open'[2] = Element(tag)
    BY <1>4, <1>5
  <1>12. events' \in Nat /\ events' # 0 /\ odd \subseteq odd'
    BY <1>1
  <1>13. open # <<>> => open'[1] = open[1]
    BY <1>5
  <1>14. Len(open) > 1 => open'[2] = open[2]
    BY <1>4, <1>5
  <1> QED BY <1>5, <1>6, <1>9, <1>10, <1>11, <1>12, <1>13, <1>14 DEF StackMoves

(* An element closes.                                                      *)
LEMMA ClosingStack ==
    ASSUME Document, Nested, Declaring, Closing
    PROVE  StackMoves
  <1>1. open' = Front(open) /\ open # <<>> /\ odd' = odd /\ events' = events /\ events \in Nat
        /\ (events = 0 => open = <<>>)
    BY DEF Closing, Nested
  <1>2. PICK E : open \in Seq(E)
    BY DEF Document, Stack, Outside, EnvelopeAt, IsStack
  <1>3. PICK n \in Nat : n = Len(open) /\ n > 0
    BY <1>1, <1>2
  <1>4. /\ DOMAIN open = 1 .. n /\ DOMAIN open' = 1 .. n - 1 /\ Len(open') = n - 1
        /\ \A i \in 1 .. n - 1 : open'[i] = open[i]
        /\ open' # <<>> => n - 1 > 0
    BY <1>1, <1>2, <1>3 DEF Front
  <1>5. Declaring'
    BY <1>4 DEF Declaring
  <1>6. open' # <<>> => open'[1] = open[1]
    BY <1>4
  <1>7. Len(open') > 1 => open'[2] = open[2]
    BY <1>4
  <1> QED BY <1>1, <1>5, <1>6, <1>7 DEF StackMoves

(* An event that neither opens nor closes an element.                      *)
LEMMA StillStack ==
    ASSUME Nested, Declaring, open' = open,
           (events' = events + 1 /\ odd \subseteq odd') \/ (events' = events /\ odd' = odd)
    PROVE  StackMoves
  <1>1. events \in Nat /\ (events = 0 => open = <<>>)
    BY DEF Nested
  <1>2. Declaring'
    BY DEF Declaring
  <1>3. events' \in Nat /\ (events' = 0 => open' = <<>>) /\ odd \subseteq odd'
    BY <1>1
  <1> QED BY <1>2, <1>3 DEF StackMoves

(* What the code has of the declarations stays right, if it stays.         *)
LEMMA NestedKept ==
    ASSUME Nested, StackMoves, Document, Document', Position',
           UNCHANGED <<envelopeNs, inherited>>,
           phase' # "envelope" => phase # "envelope",
           phase' \in {"header", "body", "child"} => phase \in {"header", "body", "child"}
    PROVE  Nested'
  <1>1. CASE "wrapped" \in odd'
    BY <1>1 DEF Nested, StackMoves
  <1>2. CASE "wrapped" \notin odd'
    <2>1. "wrapped" \notin odd
      BY <1>2 DEF StackMoves
    <2>2. open' # <<>> => open'[1].local = "Envelope"
      BY <1>2, <2>1 DEF Nested, StackMoves
    <2>3. Level' <= Len(open') /\ Level' \in Nat /\ Len(open') \in Nat
      BY LevelBoundPrimed DEF Document, LevelBounded
    <2>4. ASSUME phase' # "envelope"
          PROVE  open' # <<>> /\ open'[1].declares = envelopeNs'
      <3>1. Level' > 0
        BY <2>4 DEF Position
      <3>2. open' # <<>>
        BY <2>3, <3>1
      <3> QED BY <2>1, <2>4, <3>2 DEF Nested, StackMoves
    <2>5. ASSUME phase' \in {"header", "body", "child"}
          PROVE  Len(open') > 1 /\ inherited' = open'[2].declares \o envelopeNs'
      <3>1. Level' > 1
        BY <2>5 DEF Position
      <3>2. Len(open') > 1
        BY <2>3, <3>1
      <3> QED BY <2>1, <2>5, <3>2 DEF Nested, StackMoves
    <2> QED BY <1>2, <2>2, <2>4, <2>5 DEF Nested, StackMoves
  <1> QED BY <1>1, <1>2

-----------------------------------------------------------------------------
(* The declarations in scope at the children, event by event.              *)

(* The children of a part have the scopes they had.                        *)
SameScopes(p) ==
    LET c == ChildrenOf(p)
        d == ChildrenOf(p)'
    IN  Len(d) = Len(c) /\ (d = <<>> <=> c = <<>>) /\ \A i \in 1 .. Len(c) : d[i].scope = c[i].scope

(* The first child has, if there is one.                                   *)
SameFirst(p) ==
    LET c == ChildrenOf(p)
        d == ChildrenOf(p)'
    IN  (d = <<>> <=> c = <<>>) /\ (c # <<>> => d[1].scope = c[1].scope)

Scoping == Nested /\ Declaring /\ (Plain => HeadersScoped /\ BodyScoped)

(* What is plain was so before.                                            *)
LEMMA PlainBefore == odd \subseteq odd' /\ Plain' => Plain
  BY DEF Plain

(* Declared is about declarations and scopes only.                         *)
LEMMA DeclaredKept ==
    ASSUME NEW f, NEW c, NEW g, NEW d, Declared(f, c), g.declares = f.declares, d.scope = c.scope
    PROVE  Declared(g, d)
  BY DEF Declared

(* A list that stays, or whose last child grows.                           *)
LEMMA ScopesStay ==
    ASSUME AbsentIsNone, ChildrenShape, NEW p \in Parts, NEW item,
           SameChildren(p) \/ LastGrows(p, item) \/ ChildrenOf(p)' = ChildrenOf(p)
    PROVE  SameScopes(p)
  <1>1. PICK c : c = ChildrenOf(p)
    OBVIOUS
  <1>2. PICK d : d = ChildrenOf(p)'
    OBVIOUS
  <1>3. Len(c) \in Nat /\ (c = <<>> <=> Len(c) = 0)
    BY <1>1, ChildrenSequence
  <1>4. CASE d = c
    BY <1>1, <1>2, <1>4 DEF SameScopes
  <1>5. CASE LastGrows(p, item)
    <2>1. /\ d # <<>> /\ Len(c) > 0 /\ Len(d) = Len(c)
          /\ \A i \in 1 .. Len(c) - 1 : d[i] = c[i]
          /\ d[Len(c)].scope = c[Len(c)].scope
      BY <1>1, <1>2, <1>5, AfterwardsIs DEF LastGrows
    <2>2. \A i \in 1 .. Len(c) : i \in 1 .. Len(c) - 1 \/ i = Len(c)
      BY <1>3
    <2>3. \A i \in 1 .. Len(c) : d[i].scope = c[i].scope
      BY <2>1, <2>2
    <2> QED BY <1>1, <1>2, <1>3, <2>1, <2>3 DEF SameScopes
  <1> QED BY <1>1, <1>2, <1>4, <1>5, Untouched

(* A tag inside a child, or outside the parts.                             *)
LEMMA NodeScopes ==
    ASSUME AbsentIsNone, Document, NEW tag, NEW item, item[2] = tag, Node(tag, item),
           "repeated" \notin odd', ~(Level = 2 /\ Part # Absent), NEW p \in Parts
    PROVE  SameScopes(p)
  <1>0. Level \in Nat /\ ChildrenShape /\ Part \in Parts \cup {Absent} /\ (Level <= 1 => Part = Absent)
    BY LevelNatural, PartNamed DEF Document
  <1>1. CASE Level = 1 /\ IsPart(Element(tag)) /\ p = tag.local
    <2>1. NoChildrenYet(p) /\ (children[p] # Absent => "repeated" \in odd')
      BY <1>1, NodeGrows
    <2>2. ChildrenOf(p) = <<>> /\ ChildrenOf(p)' = <<>>
      BY <2>1, Untouched DEF ChildrenOf
    <2> QED BY <1>0, <2>2, ScopesStay
  <1>2. CASE Level = 1 /\ IsPart(Element(tag)) /\ p # tag.local
    <2>1. SameChildren(p)
      BY <1>2, NodeGrows
    <2> QED BY <1>0, <2>1, ScopesStay
  <1>3. CASE Level > 2 /\ Part # Absent
    <2>1. SameChildren(p) \/ LastGrows(p, item)
      BY <1>0, <1>3, NodeGrows
    <2> QED BY <1>0, <2>1, ScopesStay
  <1>4. CASE (Level = 1 => ~IsPart(Element(tag))) /\ Part = Absent
    <2>1. SameChildren(p)
      BY <1>4, NodeGrows
    <2> QED BY <1>0, <2>1, ScopesStay
  <1>5. \/ Level = 1 /\ IsPart(Element(tag))
        \/ Level > 2 /\ Part # Absent
        \/ (Level = 1 => ~IsPart(Element(tag))) /\ Part = Absent
    BY <1>0
  <1> QED BY <1>1, <1>2, <1>3, <1>4, <1>5

(* Text, and the end of an element.                                        *)
LEMMA ContentScopes ==
    ASSUME AbsentIsNone, Document, NEW item, children' = Content(item), NEW p \in Parts
    PROVE  SameScopes(p)
  <1>0. Level \in Nat /\ ChildrenShape
    BY LevelNatural DEF Document
  <1>1. CASE Level > 2 /\ Part # Absent
    <2>1. SameChildren(p) \/ LastGrows(p, item)
      BY <1>1, ContentGrows
    <2> QED BY <1>0, <2>1, ScopesStay
  <1>2. CASE Level <= 2 \/ Part = Absent
    <2>1. SameChildren(p)
      BY <1>2, ContentGrows
    <2> QED BY <1>0, <2>1, ScopesStay
  <1> QED BY <1>0, <1>1, <1>2

(* The first one stays in both cases.                                      *)
LEMMA FirstScopeStays ==
    ASSUME AbsentIsNone, ChildrenShape, NEW p \in Parts, NEW item,
           SameScopes(p) \/ (ChildrenOf(p) # <<>> /\ NewChild(p, item))
    PROVE  SameFirst(p)
  <1>1. PICK c : c = ChildrenOf(p)
    OBVIOUS
  <1>2. PICK d : d = ChildrenOf(p)'
    OBVIOUS
  <1>3. Len(c) \in Nat /\ (c = <<>> <=> Len(c) = 0)
    BY <1>1, ChildrenSequence
  <1>4. c # <<>> => 1 \in 1 .. Len(c)
    BY <1>3
  <1>5. CASE SameScopes(p)
    <2>1. (d = <<>> <=> c = <<>>) /\ \A i \in 1 .. Len(c) : d[i].scope = c[i].scope
      BY <1>1, <1>2, <1>5 DEF SameScopes
    <2> QED BY <1>1, <1>2, <1>4, <2>1 DEF SameFirst
  <1>6. CASE ChildrenOf(p) # <<>> /\ NewChild(p, item)
    <2>1. c # <<>> /\ d # <<>> /\ \A i \in 1 .. Len(c) : d[i] = c[i]
      BY <1>1, <1>2, <1>6, AfterwardsIs DEF NewChild
    <2> QED BY <1>1, <1>2, <1>4, <2>1 DEF SameFirst
  <1> QED BY <1>5, <1>6

(* The headers that are kept.                                              *)
LEMMA HeadersListed ==
    ASSUME Reading
    PROVE  Len(headers) \in Nat /\ DOMAIN headers = 1 .. Len(headers)
  BY DEF Reading, Fragments

(* A step that keeps no header, and begins none.                           *)
LEMMA HeadersScopedKept ==
    ASSUME Reading, HeadersScoped, SameScopes("Header"), headers' = headers,
           phase = "header" /\ depth > 0 <=> phase' = "header" /\ depth' > 0,
           phase = "header" /\ depth > 0 => buffer'.declares = buffer.declares
    PROVE  HeadersScoped'
  <1>1. PICK c : c = ChildrenOf("Header")
    OBVIOUS
  <1>2. PICK d : d = ChildrenOf("Header")'
    OBVIOUS
  <1>3. PICK n \in Nat : n = Len(headers) /\ DOMAIN headers = 1 .. n
    BY HeadersListed
  <1>4. /\ \A i \in 1 .. n : Declared(headers[i], c[i])
        /\ IF phase = "header" /\ depth > 0 THEN Len(c) = n + 1 /\ Declared(buffer, c[Len(c)])
           ELSE Len(c) = n
    BY <1>1, <1>3 DEF HeadersScoped
  <1>5. Len(d) = Len(c) /\ \A i \in 1 .. Len(c) : d[i].scope = c[i].scope
    BY <1>1, <1>2 DEF SameScopes
  <1>6. \A i \in 1 .. n : Declared(headers[i], d[i])
    <2> SUFFICES ASSUME NEW i \in 1 .. n PROVE Declared(headers[i], d[i])
      OBVIOUS
    <2>1. i \in 1 .. Len(c)
      BY <1>4
    <2> QED BY <1>4, <1>5, <2>1, DeclaredKept
  <1>7. ASSUME phase = "header", depth > 0 PROVE Len(d) = n + 1 /\ Declared(buffer', d[Len(d)])
    <2>1. Len(c) \in 1 .. Len(c) /\ Len(d) = n + 1
      BY <1>4, <1>5, <1>7
    <2>2. d[Len(c)].scope = c[Len(c)].scope
      BY <1>5, <2>1
    <2> QED BY <1>4, <1>5, <1>7, <2>1, <2>2, DeclaredKept
  <1>8. ~(phase = "header" /\ depth > 0) => Len(d) = n
    BY <1>4, <1>5
  <1> QED BY <1>2, <1>3, <1>6, <1>7, <1>8 DEF HeadersScoped

(* A step that keeps no body, and begins none.                             *)
LEMMA BodyScopedKept ==
    ASSUME BodyScoped, SameFirst("Body"), phase = "child" => SameScopes("Body"), body' = body,
           phase = "child" <=> phase' = "child",
           phase = "child" => buffer'.declares = buffer.declares,
           phase' = "body" => ChildrenOf("Body")' = <<>>,
           phase' = "skip" /\ Part' = "Body" => phase = "skip" /\ Part = "Body"
    PROVE  BodyScoped'
  <1>1. PICK c : c = ChildrenOf("Body")
    OBVIOUS
  <1>2. PICK d : d = ChildrenOf("Body")'
    OBVIOUS
  <1>3. /\ phase = "child" => body = Absent /\ Len(c) = 1 /\ Declared(buffer, c[1])
        /\ phase # "child" => (body = Absent <=> c = <<>>)
        /\ body # Absent => Declared(body, c[1])
        /\ phase = "skip" /\ Part = "Body" => c # <<>>
    BY <1>1 DEF BodyScoped
  <1>4. (d = <<>> <=> c = <<>>) /\ (c # <<>> => d[1].scope = c[1].scope)
    BY <1>1, <1>2 DEF SameFirst
  <1>5. phase = "child" => Len(d) = Len(c) /\ (Len(c) = 1 => d[1].scope = c[1].scope)
    BY <1>1, <1>2 DEF SameScopes
  <1>6. ASSUME phase = "child" PROVE Len(d) = 1 /\ Declared(buffer', d[1])
    <2>1. Declared(buffer, c[1]) /\ Len(c) = 1 /\ d[1].scope = c[1].scope
      BY <1>3, <1>5, <1>6
    <2> QED BY <1>5, <1>6, <2>1, DeclaredKept
  <1>7. ASSUME body # Absent PROVE Declared(body, d[1])
    <2>1. phase # "child" /\ c # <<>> /\ Declared(body, c[1])
      BY <1>3, <1>7
    <2> QED BY <1>4, <2>1, DeclaredKept
  <1> QED BY <1>2, <1>3, <1>4, <1>6, <1>7 DEF BodyScoped

(* A step that keeps, and begins, nothing.                                 *)
LEMMA StillScoped ==
    ASSUME AbsentIsNone, Reading, Reading', Scoping, StackMoves,
           UNCHANGED <<envelopeNs, inherited, headers, body>>,
           phase' # "envelope" => phase # "envelope",
           phase' \in {"header", "body", "child"} => phase \in {"header", "body", "child"},
           phase = "header" /\ depth > 0 <=> phase' = "header" /\ depth' > 0,
           phase = "child" <=> phase' = "child",
           phase' = "body" => phase = "body",
           Copying => buffer'.declares = buffer.declares,
           phase' = "skip" /\ Part' = "Body" => phase = "skip" /\ Part = "Body",
           Plain' => SameScopes("Header") /\ SameFirst("Body")
                     /\ (phase = "child" => SameScopes("Body"))
    PROVE  Scoping'
  <1>1. Nested' /\ Declaring'
    BY NestedKept DEF Scoping, Reading, StackMoves
  <1>2. ASSUME Plain' PROVE HeadersScoped' /\ BodyScoped'
    <2>1. HeadersScoped /\ BodyScoped
      BY <1>2, PlainBefore DEF Scoping, StackMoves
    <2>2. HeadersScoped'
      BY <1>2, <2>1, HeadersScopedKept DEF Copying
    <2>3. phase = "child" => depth > 0
      BY DEF Reading, Position
    <2>4. phase' = "body" => ChildrenOf("Body")' = <<>>
      BY <1>2, <2>1 DEF BodyScoped, SameFirst
    <2>5. BodyScoped'
      BY <1>2, <2>1, <2>3, <2>4, BodyScopedKept DEF Copying
    <2> QED BY <2>2, <2>5
  <1> QED BY <1>1, <1>2 DEF Scoping

-----------------------------------------------------------------------------
(* Steps that neither begin nor keep a fragment.                           *)

(* The scopes of the children are those they had.                          *)
ScopesSame == SameScopes("Header") /\ SameFirst("Body") /\ SameScopes("Body")

(* A tag that does not begin a child of a part.                            *)
LEMMA NodeQuiet ==
    ASSUME AbsentIsNone, Document, NEW tag, NEW item, item[2] = tag, Node(tag, item),
           ~(Level = 2 /\ Part # Absent), Plain'
    PROVE  ScopesSame
  <1>1. "repeated" \notin odd'
    BY DEF Plain
  <1>2. SameScopes("Header") /\ SameScopes("Body")
    BY <1>1, NodeScopes DEF Parts
  <1>3. SameFirst("Body")
    BY <1>2, FirstScopeStays DEF Document, Parts
  <1> QED BY <1>2, <1>3 DEF ScopesSame

(* Text, and the end of an element.                                        *)
LEMMA ContentQuiet ==
    ASSUME AbsentIsNone, Document, NEW item, children' = Content(item)
    PROVE  ScopesSame
  <1>1. SameScopes("Header") /\ SameScopes("Body")
    BY ContentScopes DEF Parts
  <1>2. SameFirst("Body")
    BY <1>1, FirstScopeStays DEF Document, Parts
  <1> QED BY <1>1, <1>2 DEF ScopesSame

(* The document before the Envelope.                                       *)
LEMMA BeforeEnvelopeScoped ==
    ASSUME AbsentIsNone, Reading, Reading', Scoping, NEW tag \in Roots \cup Tags,
           BeforeEnvelope(tag)
    PROVE  Scoping'
  <1> DEFINE item == <<"start", tag>>
  <1>1. /\ phase = "envelope" /\ Opening(tag) /\ Node(tag, item) /\ Document
        /\ UNCHANGED <<phase, depth, envelopeNs, inherited, buffer, headers, body>>
    BY DEF BeforeEnvelope, Opening, code, result, Reading
  <1>2. StackMoves
    BY <1>1, OpeningStack DEF Scoping
  <1>3. Level = 0
    BY <1>1 DEF Reading, Position
  <1>4. Plain' => ScopesSame
    BY <1>1, <1>3, NodeQuiet
  <1> QED BY <1>1, <1>2, <1>4, StillScoped DEF ScopesSame

(* A child of the Envelope that is neither Header nor Body.                *)
LEMMA OtherChildScoped ==
    ASSUME AbsentIsNone, Reading, Reading', Scoping, NEW tag \in Roots \cup Tags, OtherChild(tag)
    PROVE  Scoping'
  <1> DEFINE item == <<"start", tag>>
  <1>1. /\ phase = "children" /\ ~IsPart(Element(tag)) /\ Opening(tag) /\ Node(tag, item)
        /\ Document /\ phase' = "skip"
        /\ UNCHANGED <<envelopeNs, inherited, buffer, headers, body>>
    BY DEF OtherChild, Opening, Reading
  <1>2. StackMoves
    BY <1>1, OpeningStack DEF Scoping
  <1>3. Level = 1
    BY <1>1 DEF Reading, Position
  <1>4. Plain' => ScopesSame
    BY <1>1, <1>3, NodeQuiet
  <1>5. Part' = Absent /\ Absent # "Body"
    BY <1>1, <1>3, OpeningMoves, ParserAssumption DEF Parts
  <1> QED BY <1>1, <1>2, <1>4, <1>5, StillScoped DEF Copying, ScopesSame

(* The events of a fragment, but for its first and its last.               *)
LEMMA CopyStartScoped ==
    ASSUME AbsentIsNone, Reading, Reading', Scoping, NEW tag \in Roots \cup Tags, CopyStart(tag)
    PROVE  Scoping'
  <1> DEFINE item == <<"start", tag>>
  <1>1. /\ Copying /\ Opening(tag) /\ Node(tag, item) /\ Document
        /\ buffer' = Copied(item) /\ depth' = depth + 1
        /\ UNCHANGED <<phase, envelopeNs, inherited, headers, body>>
    BY DEF CopyStart, Opening, result, Reading
  <1>2. StackMoves
    BY <1>1, OpeningStack DEF Scoping
  <1>3. depth \in Nat /\ depth > 0 /\ Level > 2 /\ phase # "skip"
    BY <1>1, CopyingIs
  <1>4. Plain' => ScopesSame
    BY <1>1, <1>3, NodeQuiet
  <1>5. buffer'.declares = buffer.declares
    BY <1>1, CopyingIs, CopiedItems
  <1>6. depth' > 0
    BY <1>1, <1>3
  <1> QED BY <1>1, <1>2, <1>3, <1>4, <1>5, <1>6, StillScoped DEF ScopesSame

(* An element without content within a fragment.                           *)
LEMMA CopyEmptyScoped ==
    ASSUME AbsentIsNone, Reading, Reading', Scoping, NEW tag \in Roots \cup Tags, CopyEmpty(tag)
    PROVE  Scoping'
  <1> DEFINE item == <<"empty", tag>>
  <1>1. /\ Copying /\ Node(tag, item) /\ Document /\ buffer' = Copied(item)
        /\ UNCHANGED <<open, phase, depth, envelopeNs, inherited, headers, body>>
    BY DEF CopyEmpty, EmptyNode, result, Reading
  <1>2. events' = events + 1 /\ odd \subseteq odd'
    BY <1>1, NodeGrows DEF Node
  <1>3. StackMoves
    BY <1>1, <1>2, StillStack DEF Scoping
  <1>4. Level > 2 /\ Level # 2 /\ phase # "skip"
    BY <1>1, CopyingIs
  <1>5. Plain' => ScopesSame
    BY <1>1, <1>4, NodeQuiet
  <1>6. buffer'.declares = buffer.declares
    BY <1>1, CopyingIs, CopiedItems
  <1> QED BY <1>1, <1>3, <1>4, <1>5, <1>6, StillScoped DEF ScopesSame

(* Text within a fragment.                                                 *)
LEMMA CopyTextScoped ==
    ASSUME AbsentIsNone, Reading, Reading', Scoping, CopyText
    PROVE  Scoping'
  <1> DEFINE item == <<"text">>
  <1>1. /\ Copying /\ children' = Content(item) /\ Document /\ buffer' = Copied(item)
        /\ events' = events + 1
        /\ UNCHANGED <<open, odd, phase, depth, envelopeNs, inherited, headers, body>>
    BY DEF CopyText, Data, result, Reading
  <1>2. StackMoves
    BY <1>1, StillStack DEF Scoping
  <1>3. phase # "skip"
    BY <1>1, CopyingIs
  <1>4. ScopesSame
    BY <1>1, ContentQuiet
  <1>5. buffer'.declares = buffer.declares
    BY <1>1, CopyingIs, CopiedItems
  <1> QED BY <1>1, <1>2, <1>3, <1>4, <1>5, StillScoped DEF ScopesSame

(* Below an element that is skipped, the first child of the Body stays.    *)
LEMMA SkippedScopes ==
    ASSUME AbsentIsNone, Reading, Scoping, phase = "skip", NEW tag, NEW item, item[2] = tag,
           Node(tag, item), odd \subseteq odd', Plain'
    PROVE  SameScopes("Header") /\ SameFirst("Body")
  <1>0. Document /\ ChildrenShape /\ "Header" \in Parts /\ "Body" \in Parts
    BY DEF Reading, Document, Parts
  <1>1. CASE Level = 2 /\ Part # Absent
    <2>1. Part = "Body"
      BY <1>1, SkippingIs
    <2>2. SameChildren("Header") /\ NewChild("Body", item)
      BY <1>1, <2>1, NodeSkipped
    <2>3. ChildrenOf("Body") # <<>>
      BY <2>1, PlainBefore DEF Scoping, BodyScoped
    <2> QED BY <1>0, <2>2, <2>3, ScopesStay, FirstScopeStays
  <1>2. CASE ~(Level = 2 /\ Part # Absent)
    BY <1>0, <1>2, NodeQuiet DEF ScopesSame
  <1> QED BY <1>1, <1>2

(* A start tag below an element that is skipped: the first child of the    *)
(* Body stays.                                                             *)
LEMMA SkipStartScoped ==
    ASSUME AbsentIsNone, Reading, Reading', Scoping, NEW tag \in Roots \cup Tags, SkipStart(tag)
    PROVE  Scoping'
  <1> DEFINE item == <<"start", tag>>
  <1>1. /\ phase = "skip" /\ Opening(tag) /\ Node(tag, item) /\ Document
        /\ UNCHANGED <<phase, envelopeNs, inherited, buffer, headers, body>>
    BY DEF SkipStart, Opening, result, Reading
  <1>2. StackMoves
    BY <1>1, OpeningStack DEF Scoping
  <1>3. Part' = Part
    BY <1>1, SkippingIs, OpeningMoves
  <1>4. Plain' => SameScopes("Header") /\ SameFirst("Body")
    BY <1>1, <1>2, SkippedScopes DEF StackMoves
  <1> QED BY <1>1, <1>2, <1>3, <1>4, StillScoped DEF Copying

(* An empty element outside the fragments.                                 *)
LEMMA PassOverEmptyScoped ==
    ASSUME AbsentIsNone, Reading, Reading', Scoping, NEW tag \in Roots \cup Tags,
           PassOverEmpty(tag)
    PROVE  Scoping'
  <1> DEFINE item == <<"empty", tag>>
  <1>1. /\ phase \in {"envelope", "children", "skip"} /\ EmptyNode(tag) /\ Node(tag, item)
        /\ Document
        /\ UNCHANGED <<open, phase, depth, envelopeNs, inherited, buffer, headers, body>>
    BY DEF PassOverEmpty, EmptyNode, code, result, Reading
  <1>2. events' = events + 1 /\ odd \subseteq odd'
    BY <1>1, NodeGrows DEF Node
  <1>3. StackMoves
    BY <1>1, <1>2, StillStack DEF Scoping
  <1>4. Part' = Part
    BY <1>1, EmptyMoves
  <1>5. Plain' => SameScopes("Header") /\ SameFirst("Body")
    <2>1. CASE phase = "skip"
      BY <1>1, <1>2, <2>1, SkippedScopes
    <2>2. CASE phase # "skip"
      <3>1. Level # 2
        BY <1>1, <2>2 DEF Reading, Position
      <3> QED BY <1>1, <3>1, NodeQuiet DEF ScopesSame
    <2> QED BY <2>1, <2>2
  <1> QED BY <1>1, <1>3, <1>4, <1>5, StillScoped DEF Copying

(* Text outside the fragments, and CDATA anywhere.                         *)
LEMMA DataScoped ==
    ASSUME AbsentIsNone, Reading, Reading', Scoping, PassOverText \/ CData
    PROVE  Scoping'
  <1> DEFINE item == <<"text">>
  <1>1. /\ Data /\ children' = Content(item) /\ Document /\ events' = events + 1
        /\ odd \subseteq odd'
        /\ UNCHANGED <<open, phase, depth, envelopeNs, inherited, buffer, headers, body>>
    BY DEF PassOverText, CData, Data, code, result, Reading
  <1>2. StackMoves
    BY <1>1, StillStack DEF Scoping
  <1>3. Part' = Part
    BY <1>1, DataMoves
  <1>4. ScopesSame
    BY <1>1, ContentQuiet
  <1> QED BY <1>1, <1>2, <1>3, <1>4, StillScoped DEF ScopesSame

(* The end of an element that is skipped, or of one below it.              *)
LEMMA SkipEndScoped ==
    ASSUME AbsentIsNone, Reading, Reading', Scoping, SkipEnd
    PROVE  Scoping'
  <1> DEFINE item == <<"end">>
  <1>1. /\ phase = "skip" /\ phase' \in {"children", "skip"}
        /\ Closing /\ children' = Content(item) /\ Document
        /\ UNCHANGED <<envelopeNs, inherited, buffer, headers, body>>
    BY DEF SkipEnd, Closing, result, Reading
  <1>2. StackMoves
    BY <1>1, ClosingStack DEF Scoping
  <1>3. Part' = "Body" => Part = "Body"
    BY <1>1, SkippingIs, ClosingMoves
  <1>4. ScopesSame
    BY <1>1, ContentQuiet
  <1> QED BY <1>1, <1>2, <1>3, <1>4, StillScoped DEF Copying, ScopesSame

(* The end of an element before the Envelope, and of the Header.           *)
LEMMA EndScoped ==
    ASSUME AbsentIsNone, Reading, Reading', Scoping, EndBeforeEnvelope \/ EndOfHeader
    PROVE  Scoping'
  <1> DEFINE item == <<"end">>
  <1>1. /\ \/ phase = "envelope" /\ phase' = "envelope"
           \/ phase = "header" /\ depth = 0 /\ phase' = "children"
        /\ Closing /\ children' = Content(item) /\ Document
        /\ UNCHANGED <<depth, envelopeNs, inherited, buffer, headers, body>>
    BY DEF EndBeforeEnvelope, EndOfHeader, Closing, code, result, Reading
  <1>2. StackMoves
    BY <1>1, ClosingStack DEF Scoping
  <1>3. ScopesSame
    BY <1>1, ContentQuiet
  <1> QED BY <1>1, <1>2, <1>3, StillScoped DEF Copying, ScopesSame

-----------------------------------------------------------------------------
(* The Envelope, its parts and the fragments.                              *)

(* The code takes the Envelope's declarations.                             *)
LEMMA EnvelopeScoped ==
    ASSUME AbsentIsNone, Reading, Reading', Scoping, NEW tag \in Roots \cup Tags, Envelope(tag)
    PROVE  Scoping'
  <1> DEFINE item == <<"start", tag>>
  <1>1. /\ phase = "envelope" /\ Opening(tag) /\ Node(tag, item) /\ Document
        /\ phase' = "children" /\ envelopeNs' = tag.declares
        /\ UNCHANGED <<headers, body>>
    BY DEF Envelope, Opening, Reading
  <1>2. /\ StackMoves /\ open' # <<>>
        /\ open = <<>> => open'[1] = Element(tag)
    BY <1>1, OpeningStack DEF Scoping
  <1>3. Level = 0 /\ Stack
    BY <1>1 DEF Reading, Position, Document
  <1>4. Nested'
    <2>1. ASSUME "wrapped" \notin odd'
          PROVE  open'[1].local = "Envelope" /\ open'[1].declares = envelopeNs'
      <3>1. "wrapped" \notin odd /\ (open # <<>> => open[1].local = "Envelope")
        BY <1>2, <2>1 DEF StackMoves, Scoping, Nested
      <3>2. Len(open) = 0
        BY <1>3, <3>1, LevelIs
      <3>3. open = <<>>
        BY <1>3, <3>2 DEF Stack, Outside, EnvelopeAt, IsStack
      <3>4. open'[1] = Element(tag) /\ open'[1].local = "Envelope"
        BY <1>2, <2>1, <3>3 DEF StackMoves
      <3> QED BY <1>1, <3>4 DEF Element
    <2> QED BY <1>1, <1>2, <2>1 DEF Nested, StackMoves
  <1>5. ASSUME Plain' PROVE HeadersScoped' /\ BodyScoped'
    <2>1. HeadersScoped /\ BodyScoped
      BY <1>2, <1>5, PlainBefore DEF Scoping, StackMoves
    <2>2. ScopesSame
      BY <1>1, <1>3, <1>5, NodeQuiet
    <2> QED BY <1>1, <2>1, <2>2, HeadersScopedKept, BodyScopedKept DEF ScopesSame
  <1> QED BY <1>2, <1>4, <1>5 DEF Scoping, StackMoves

(* A part opens: its declarations come before the Envelope's.              *)
LEMMA PartOpens ==
    ASSUME Document, Nested, Declaring, NEW tag \in Roots \cup Tags, Opening(tag), Level = 1,
           phase = "children", phase' # "envelope", Inherit(tag), envelopeNs' = envelopeNs
    PROVE  Nested'
  <1>1. /\ StackMoves /\ open' # <<>>
        /\ Len(open) = 1 => Len(open') = 2 /\ open'[2] = Element(tag)
    BY OpeningStack
  <1>2. ASSUME "wrapped" \notin odd'
        PROVE  /\ open'[1].local = "Envelope" /\ open'[1].declares = envelopeNs'
               /\ Len(open') > 1 /\ inherited' = open'[2].declares \o envelopeNs'
    <2>1. open # <<>> /\ open[1].local = "Envelope" /\ open[1].declares = envelopeNs
      BY <1>1, <1>2 DEF Nested, StackMoves
    <2>2. Len(open) = 1
      BY <2>1, LevelIs DEF Document
    <2>3. Len(open') = 2 /\ open'[2].declares = tag.declares /\ open'[1] = open[1]
      BY <1>1, <2>1, <2>2 DEF StackMoves, Element
    <2>4. Len(open') > 1
      BY <2>3
    <2>5. inherited' = open'[2].declares \o envelopeNs'
      BY <2>3 DEF Inherit
    <2> QED BY <2>1, <2>3, <2>4, <2>5
  <1> QED BY <1>1, <1>2 DEF Nested, StackMoves

(* The Header opens.                                                       *)
LEMMA HeaderScoped ==
    ASSUME AbsentIsNone, Reading, Reading', Scoping, NEW tag \in Roots \cup Tags, Header(tag)
    PROVE  Scoping'
  <1> DEFINE item == <<"start", tag>>
  <1>1. /\ phase = "children" /\ IsPart(Element(tag)) /\ tag.local = "Header"
        /\ Opening(tag) /\ Node(tag, item) /\ Document /\ Inherit(tag)
        /\ phase' = "header" /\ depth' = 0 /\ headers' = <<>>
        /\ envelopeNs' = envelopeNs /\ body' = body
    BY DEF Header, Opening, Reading
  <1>2. StackMoves
    BY <1>1, OpeningStack DEF Scoping
  <1>3. Level = 1
    BY <1>1 DEF Reading, Position
  <1>4. Nested'
    BY <1>1, <1>3, PartOpens DEF Scoping
  <1>5. ASSUME Plain' PROVE HeadersScoped' /\ BodyScoped'
    <2>1. BodyScoped
      BY <1>2, <1>5, PlainBefore DEF Scoping, StackMoves
    <2>2. NoChildrenYet("Header")
      BY <1>1, <1>3, NodeGrows
    <2>3. HeadersScoped'
      BY <1>1, <2>2, Untouched DEF HeadersScoped
    <2>4. ScopesSame
      BY <1>1, <1>3, <1>5, NodeQuiet
    <2> QED BY <1>1, <2>1, <2>3, <2>4, BodyScopedKept DEF ScopesSame
  <1> QED BY <1>2, <1>4, <1>5 DEF Scoping, StackMoves

(* The Body opens.                                                         *)
LEMMA BodyScopes ==
    ASSUME AbsentIsNone, Reading, Reading', Scoping, NEW tag \in Roots \cup Tags, Body(tag)
    PROVE  Scoping'
  <1> DEFINE item == <<"start", tag>>
  <1>1. /\ phase = "children" /\ IsPart(Element(tag)) /\ tag.local = "Body"
        /\ Opening(tag) /\ Node(tag, item) /\ Document /\ Inherit(tag)
        /\ phase' = "body"
        /\ UNCHANGED <<envelopeNs, buffer, headers, body>>
    BY DEF Body, Opening, Reading
  <1>2. StackMoves
    BY <1>1, OpeningStack DEF Scoping
  <1>3. Level = 1
    BY <1>1 DEF Reading, Position
  <1>4. Nested'
    BY <1>1, <1>3, PartOpens DEF Scoping
  <1>5. ASSUME Plain' PROVE HeadersScoped' /\ BodyScoped'
    <2>1. HeadersScoped /\ BodyScoped
      BY <1>2, <1>5, PlainBefore DEF Scoping, StackMoves
    <2>2. ScopesSame
      BY <1>1, <1>3, <1>5, NodeQuiet
    <2>3. NoChildrenYet("Body") /\ children["Body"] = Absent
      BY <1>1, <1>3, <1>5, NodeGrows DEF Plain
    <2>4. ChildrenOf("Body") = <<>> /\ ChildrenOf("Body")' = <<>>
      BY <2>3, Untouched DEF ChildrenOf
    <2>5. body = Absent
      BY <1>1, <2>1, <2>4 DEF BodyScoped
    <2>6. BodyScoped'
      BY <1>1, <2>4, <2>5 DEF BodyScoped
    <2> QED BY <1>1, <2>1, <2>2, <2>6, HeadersScopedKept DEF ScopesSame
  <1> QED BY <1>2, <1>4, <1>5 DEF Scoping, StackMoves

(* Where a fragment begins.                                                *)
LEMMA AtRootIs ==
    ASSUME Reading, AtRoot
    PROVE  /\ Level = 2 /\ Part \in Parts /\ Part # Absent
           /\ phase = "header" => Part = "Header" /\ depth = 0
           /\ phase = "body" => Part = "Body"
           /\ phase \in {"header", "body"}
  BY ParserAssumption DEF Reading, Position, AtRoot, Parts

(* The root of a fragment declares what is in scope there.                 *)
LEMMA RootScoped ==
    ASSUME AbsentIsNone, Reading, Scoping, Plain, AtRoot, NEW tag \in Roots \cup Tags,
           NEW item, item[2] = tag, NEW p \in Parts, NewChild(p, item)
    PROVE  Declared(Root(tag, item), Afterwards(p)[Len(ChildrenOf(p)) + 1])
  <1>1. PICK child : child = Afterwards(p)[Len(ChildrenOf(p)) + 1]
    OBVIOUS
  <1>2. child.scope = tag.declares \o Scope(open)
    BY <1>1, AfterwardsIs DEF NewChild
  <1>3. /\ open # <<>> /\ open[1].local = "Envelope" /\ open[1].declares = envelopeNs
        /\ inherited = open[2].declares \o envelopeNs
    BY AtRootIs DEF Scoping, Nested, Plain
  <1>4. Len(open) = 2
    BY <1>3, AtRootIs, LevelIs DEF Reading, Document
  <1>5. PICK E : open \in Seq(E)
    BY DEF Reading, Document, Stack, Outside, EnvelopeAt, IsStack
  <1>6. Scope(open) = inherited
    BY <1>3, <1>4, <1>5, ScopeOfTwo
  <1>7. inherited \in Seq(Bindings)
    <2>1. 1 \in DOMAIN open /\ 2 \in DOMAIN open
      BY <1>4, <1>5
    <2>2. open[2].declares \in Seq(Bindings) /\ envelopeNs \in Seq(Bindings)
      BY <1>3, <2>1 DEF Scoping, Declaring
    <2> QED BY <1>3, <2>2
  <1>8. tag.declares \in Seq(Bindings)
    BY TagDeclares
  <1>9. child.scope = tag.declares \o inherited
    BY <1>2, <1>6
  <1> QED BY <1>1, <1>7, <1>8, <1>9, RootDeclares

(* A fragment begins: its root declares what is in scope there.            *)
LEMMA BeginFragmentScoped ==
    ASSUME AbsentIsNone, Reading, Reading', Scoping, NEW tag \in Roots \cup Tags,
           BeginFragment(tag)
    PROVE  Scoping'
  <1> DEFINE item == <<"start", tag>>
             fragment == Root(tag, item)
  <1>1. /\ AtRoot /\ Opening(tag) /\ Node(tag, item) /\ Document
        /\ buffer' = fragment /\ depth' = 1
        /\ phase' = IF phase = "body" THEN "child" ELSE phase
        /\ UNCHANGED <<envelopeNs, inherited, headers, body>>
    BY DEF BeginFragment, Opening, result, Reading
  <1>2. StackMoves
    BY <1>1, OpeningStack DEF Scoping
  <1>3. /\ Level = 2 /\ Part \in Parts /\ Part # Absent
        /\ phase = "header" => Part = "Header" /\ depth = 0
        /\ phase = "body" => Part = "Body"
        /\ phase \in {"header", "body"}
    BY <1>1, AtRootIs
  <1>4. NewChild(Part, item) /\ \A q \in Parts \ {Part} : SameChildren(q)
    BY <1>1, <1>3, NodeGrows
  <1>5. Nested'
    BY <1>1, <1>2, <1>3, NestedKept DEF Scoping, Reading
  <1>6. ASSUME Plain' PROVE HeadersScoped' /\ BodyScoped'
    <2>1. Plain /\ HeadersScoped /\ BodyScoped /\ ChildrenShape
      BY <1>1, <1>2, <1>6, PlainBefore DEF Scoping, StackMoves, Document
    <2>2. Declared(fragment, Afterwards(Part)[Len(ChildrenOf(Part)) + 1])
      BY <1>1, <1>3, <1>4, <2>1, RootScoped
    <2> HIDE DEF item, fragment
    <2>3. CASE phase = "header"
      <3>1. Part = "Header" /\ NewChild("Header", item) /\ SameChildren("Body")
        BY <1>3, <1>4, <2>3 DEF Parts
      <3>2. PICK c : c = ChildrenOf("Header")
        OBVIOUS
      <3>3. PICK d : d = ChildrenOf("Header")'
        OBVIOUS
      <3>4. PICK n \in Nat : n = Len(headers) /\ DOMAIN headers = 1 .. n
        BY HeadersListed
      <3>5. Len(c) = n /\ \A i \in 1 .. n : Declared(headers[i], c[i])
        BY <1>3, <2>1, <2>3, <3>2, <3>4 DEF HeadersScoped
      <3>6. Len(d) = Len(c) + 1 /\ \A i \in 1 .. Len(c) : d[i] = c[i]
        BY <3>1, <3>2, <3>3, AfterwardsIs DEF NewChild
      <3>7. Declared(fragment, d[Len(c) + 1])
        BY <2>2, <3>1, <3>2, <3>3, AfterwardsIs
      <3>8. /\ Len(d) = n + 1 /\ Declared(fragment, d[Len(d)])
            /\ \A i \in 1 .. n : Declared(headers[i], d[i])
        BY <3>5, <3>6, <3>7
      <3>9. HeadersScoped'
        BY <1>1, <2>3, <3>3, <3>4, <3>8 DEF HeadersScoped
      <3>10. SameFirst("Body")
        BY <2>1, <3>1, ScopesStay, FirstScopeStays DEF Parts
      <3>11. BodyScoped'
        BY <1>1, <2>1, <2>3, <3>10, BodyScopedKept
      <3> QED BY <3>9, <3>11
    <2>4. CASE phase = "body"
      <3>1. Part = "Body" /\ NewChild("Body", item) /\ SameChildren("Header")
        BY <1>3, <1>4, <2>4 DEF Parts
      <3>2. SameScopes("Header")
        BY <2>1, <3>1, ScopesStay DEF Parts
      <3>3. HeadersScoped'
        BY <1>1, <2>1, <2>4, <3>2, HeadersScopedKept
      <3>4. ChildrenOf("Body") = <<>> /\ body = Absent
        BY <2>1, <2>4 DEF BodyScoped
      <3>5. PICK d : d = ChildrenOf("Body")'
        OBVIOUS
      <3>6. Len(ChildrenOf("Body")) = 0
        BY <3>4
      <3>7. Len(d) = 0 + 1 /\ Declared(fragment, d[0 + 1])
        BY <2>2, <3>1, <3>5, <3>6, AfterwardsIs DEF NewChild
      <3>8. Len(d) = 1 /\ Declared(fragment, d[1])
        BY <3>7
      <3>9. BodyScoped'
        BY <1>1, <2>4, <3>4, <3>5, <3>8 DEF BodyScoped
      <3> QED BY <3>3, <3>9
    <2> QED BY <1>3, <2>3, <2>4
  <1> QED BY <1>2, <1>5, <1>6 DEF Scoping, StackMoves

(* Keeping a fragment that declares the scope of the last child.           *)
LEMMA KeepScoped ==
    ASSUME AbsentIsNone, Reading, Scoping, Plain, NEW fragment, Keep(fragment),
           "items" \in DOMAIN fragment, phase \in {"header", "body", "child"},
           \A q \in Parts \ {Part} : SameChildren(q),
           phase = "header" =>
              /\ Len(ChildrenOf("Header")') = Len(headers) + 1
              /\ \A i \in 1 .. Len(headers) : Declared(headers[i], ChildrenOf("Header")'[i])
              /\ Declared(fragment, ChildrenOf("Header")'[Len(headers) + 1]),
           phase # "header" =>
              /\ ChildrenOf("Body")' # <<>>
              /\ Declared(fragment, ChildrenOf("Body")'[1])
    PROVE  HeadersScoped' /\ BodyScoped'
  <1>1. /\ headers' = IF phase = "header" THEN Append(headers, fragment) ELSE headers
        /\ body' = IF phase = "header" THEN body ELSE fragment
        /\ phase' = IF phase = "header" THEN "header" ELSE "skip"
        /\ depth' = IF phase = "header" THEN 0 ELSE 1
    BY DEF Keep
  <1>2. HeadersScoped /\ BodyScoped /\ ChildrenShape
    BY DEF Scoping, Reading, Document
  <1>3. CASE phase = "header"
    <2>1. SameChildren("Body")
      BY <1>3 DEF Reading, Position, Parts
    <2>2. SameFirst("Body")
      BY <1>2, <2>1, ScopesStay, FirstScopeStays DEF Parts
    <2>3. BodyScoped'
      BY <1>1, <1>2, <1>3, <2>2, BodyScopedKept
    <2>4. PICK F : headers \in Seq(F)
      BY DEF Reading, Fragments
    <2>5. PICK n \in Nat : n = Len(headers)
      BY <2>4
    <2>6. PICK d : d = ChildrenOf("Header")'
      OBVIOUS
    <2>7. /\ headers \in Seq(F \cup {fragment})
          /\ DOMAIN headers' = 1 .. n + 1 /\ Len(headers') = n + 1
          /\ \A i \in 1 .. n : headers'[i] = headers[i]
          /\ headers'[n + 1] = fragment
      BY <1>1, <1>3, <2>4, <2>5
    <2>8. /\ Len(d) = n + 1 /\ \A i \in 1 .. n : Declared(headers[i], d[i])
          /\ Declared(fragment, d[n + 1])
      BY <1>3, <2>5, <2>6
    <2>9. \A i \in 1 .. n + 1 : Declared(headers'[i], d[i])
      <3>1. \A i \in 1 .. n : Declared(headers'[i], d[i])
        BY <2>7, <2>8
      <3>2. \A i \in 1 .. n + 1 : i \in 1 .. n \/ i = n + 1
        OBVIOUS
      <3> QED BY <2>7, <2>8, <3>1, <3>2
    <2>10. HeadersScoped'
      BY <1>1, <1>3, <2>6, <2>7, <2>8, <2>9 DEF HeadersScoped
    <2> QED BY <2>3, <2>10
  <1>4. CASE phase # "header"
    <2>1. SameChildren("Header")
      BY <1>4 DEF Reading, Position, Parts
    <2>2. SameScopes("Header")
      BY <1>2, <2>1, ScopesStay DEF Parts
    <2>3. HeadersScoped'
      BY <1>1, <1>2, <1>4, <2>2, HeadersScopedKept
    <2>4. fragment # Absent
      BY DEF AbsentIsNone
    <2>5. BodyScoped'
      BY <1>1, <1>4, <2>4 DEF BodyScoped
    <2> QED BY <2>3, <2>5
  <1> QED BY <1>3, <1>4

(* A fragment without content.                                             *)
LEMMA EmptyFragmentScoped ==
    ASSUME AbsentIsNone, Reading, Reading', Scoping, NEW tag \in Roots \cup Tags,
           EmptyFragment(tag)
    PROVE  Scoping'
  <1> DEFINE item == <<"empty", tag>>
             fragment == Root(tag, item)
  <1>1. /\ AtRoot /\ Node(tag, item) /\ Document /\ Keep(fragment)
        /\ UNCHANGED <<open, envelopeNs, inherited>>
    BY DEF EmptyFragment, EmptyNode, Reading
  <1>2. events' = events + 1 /\ odd \subseteq odd'
    BY <1>1, NodeGrows DEF Node
  <1>3. StackMoves
    BY <1>1, <1>2, StillStack DEF Scoping
  <1>4. /\ Level = 2 /\ Part \in Parts /\ Part # Absent
        /\ phase = "header" => Part = "Header" /\ depth = 0
        /\ phase = "body" => Part = "Body"
        /\ phase \in {"header", "body"}
    BY <1>1, AtRootIs
  <1>5. NewChild(Part, item) /\ \A q \in Parts \ {Part} : SameChildren(q)
    BY <1>1, <1>4, NodeGrows
  <1>6. Nested'
    BY <1>1, <1>3, <1>4, NestedKept DEF Scoping, Reading, Keep
  <1>7. ASSUME Plain' PROVE HeadersScoped' /\ BodyScoped'
    <2>1. Plain /\ HeadersScoped /\ BodyScoped
      BY <1>2, <1>7, PlainBefore DEF Scoping
    <2>2. Declared(fragment, Afterwards(Part)[Len(ChildrenOf(Part)) + 1])
      BY <1>1, <1>4, <1>5, <2>1, RootScoped
    <2>3. "items" \in DOMAIN fragment
      BY RootItems
    <2> HIDE DEF item, fragment
    <2>4. ASSUME phase = "header"
          PROVE  /\ Len(ChildrenOf("Header")') = Len(headers) + 1
                 /\ \A i \in 1 .. Len(headers) : Declared(headers[i], ChildrenOf("Header")'[i])
                 /\ Declared(fragment, ChildrenOf("Header")'[Len(headers) + 1])
      <3>1. PICK c : c = ChildrenOf("Header")
        OBVIOUS
      <3>2. PICK d : d = ChildrenOf("Header")'
        OBVIOUS
      <3>3. Len(c) = Len(headers) /\ \A i \in 1 .. Len(headers) : Declared(headers[i], c[i])
        BY <1>4, <2>1, <2>4, <3>1, HeadersListed DEF HeadersScoped
      <3>4. /\ Len(d) = Len(c) + 1 /\ \A i \in 1 .. Len(c) : d[i] = c[i]
            /\ Declared(fragment, d[Len(c) + 1])
        BY <1>4, <1>5, <2>2, <2>4, <3>1, <3>2, AfterwardsIs DEF NewChild
      <3> QED BY <3>1, <3>2, <3>3, <3>4
    <2>5. ASSUME phase # "header"
          PROVE  ChildrenOf("Body")' # <<>> /\ Declared(fragment, ChildrenOf("Body")'[1])
      <3>1. PICK d : d = ChildrenOf("Body")'
        OBVIOUS
      <3>2. Part = "Body" /\ ChildrenOf("Body") = <<>>
        BY <1>4, <2>1, <2>5 DEF BodyScoped
      <3>3. Len(ChildrenOf("Body")) = 0
        BY <3>2
      <3>4. d # <<>> /\ Declared(fragment, d[0 + 1])
        BY <1>5, <2>2, <3>1, <3>2, <3>3, AfterwardsIs DEF NewChild
      <3> QED BY <3>1, <3>4
    <2> QED BY <1>1, <1>4, <1>5, <2>1, <2>3, <2>4, <2>5, KeepScoped
  <1> QED BY <1>3, <1>6, <1>7 DEF Scoping, StackMoves

(* An end tag within a fragment, or its own.                               *)
LEMMA CopyEndScoped ==
    ASSUME AbsentIsNone, Reading, Reading', Scoping, CopyEnd
    PROVE  Scoping'
  <1> DEFINE item == <<"end">>
             fragment == Copied(item)
  <1>1. /\ Copying /\ Closing /\ children' = Content(item) /\ odd' = odd /\ Document
        /\ UNCHANGED <<envelopeNs, inherited>>
    BY DEF CopyEnd, Closing, Reading
  <1>2. StackMoves
    BY <1>1, ClosingStack DEF Scoping
  <1>3. ScopesSame
    BY <1>1, ContentQuiet
  <1>4. /\ "items" \in DOMAIN fragment /\ fragment.declares = buffer.declares
        /\ phase \in {"header", "child"} /\ depth \in Nat /\ depth > 0
        /\ Level > 2 /\ Part # Absent
    BY <1>1, CopyingIs, CopiedItems
  <1>5. CASE depth > 1
    <2>1. /\ phase' = phase /\ headers' = headers /\ body' = body
          /\ buffer' = fragment /\ depth' = depth - 1
      BY <1>5 DEF CopyEnd
    <2>2. depth' > 0
      BY <1>4, <1>5, <2>1
    <2> QED BY <1>1, <1>2, <1>3, <1>4, <2>1, <2>2, StillScoped DEF ScopesSame
  <1>6. CASE ~(depth > 1)
    <2>1. Keep(fragment)
      BY <1>6 DEF CopyEnd
    <2>2. Nested'
      BY <1>1, <1>2, <1>4, <2>1, NestedKept DEF Scoping, Reading, Keep
    <2>3. \A q \in Parts \ {Part} : SameChildren(q)
      BY <1>1, <1>4, ContentGrows
    <2> HIDE DEF item, fragment
    <2>4. ASSUME Plain' PROVE HeadersScoped' /\ BodyScoped'
      <3>1. Plain /\ HeadersScoped /\ BodyScoped
        BY <1>1, <2>4, PlainBefore DEF Scoping
      <3>2. ASSUME phase = "header"
            PROVE  /\ Len(ChildrenOf("Header")') = Len(headers) + 1
                   /\ \A i \in 1 .. Len(headers) :
                         Declared(headers[i], ChildrenOf("Header")'[i])
                   /\ Declared(fragment, ChildrenOf("Header")'[Len(headers) + 1])
        <4>1. PICK c : c = ChildrenOf("Header")
          OBVIOUS
        <4>2. PICK d : d = ChildrenOf("Header")'
          OBVIOUS
        <4>3. PICK n \in Nat : n = Len(headers) /\ DOMAIN headers = 1 .. n
          BY HeadersListed
        <4>4. /\ Len(c) = n + 1 /\ Declared(buffer, c[n + 1])
              /\ \A i \in 1 .. n : Declared(headers[i], c[i])
          BY <1>4, <3>1, <3>2, <4>1, <4>3 DEF HeadersScoped
        <4>5. Len(d) = n + 1 /\ \A i \in 1 .. n + 1 : d[i].scope = c[i].scope
          BY <1>3, <4>1, <4>2, <4>4 DEF ScopesSame, SameScopes
        <4>6. \A i \in 1 .. n : d[i].scope = c[i].scope
          BY <4>5
        <4>7. \A i \in 1 .. n : Declared(headers[i], d[i])
          BY <4>4, <4>6, DeclaredKept
        <4>8. d[n + 1].scope = c[n + 1].scope
          BY <4>5
        <4>9. Declared(fragment, d[n + 1])
          BY <1>4, <4>4, <4>8, DeclaredKept
        <4> QED BY <4>2, <4>3, <4>5, <4>7, <4>9
      <3>3. ASSUME phase # "header"
            PROVE  ChildrenOf("Body")' # <<>> /\ Declared(fragment, ChildrenOf("Body")'[1])
        <4>1. PICK c : c = ChildrenOf("Body")
          OBVIOUS
        <4>2. PICK d : d = ChildrenOf("Body")'
          OBVIOUS
        <4>3. Len(c) = 1 /\ Declared(buffer, c[1])
          BY <1>4, <3>1, <3>3, <4>1 DEF BodyScoped
        <4>4. c # <<>>
          BY <4>3
        <4>5. d # <<>> /\ d[1].scope = c[1].scope
          BY <1>3, <4>1, <4>2, <4>4 DEF ScopesSame, SameFirst
        <4>6. Declared(fragment, d[1])
          BY <1>4, <4>3, <4>5, DeclaredKept
        <4> QED BY <4>2, <4>5, <4>6
      <3> QED BY <1>4, <2>1, <2>3, <3>1, <3>2, <3>3, KeepScoped
    <2> QED BY <1>2, <2>2, <2>4 DEF Scoping, StackMoves
  <1> QED BY <1>5, <1>6

-----------------------------------------------------------------------------
(* What is returned.                                                       *)

(* The children of the Envelope end, or the input among them.              *)
LEMMA FinishScoped ==
    ASSUME AbsentIsNone, Reading, Scoping, phase = "children", Finish,
           children' = children, odd' = odd
    PROVE  ScopeKept'
  <1>1. /\ outcome' = IF body = Absent THEN "no body" ELSE "ok"
        /\ headers' = headers /\ body' = body
    BY DEF Finish, Return
  <1>2. ChildrenOf("Body")' = ChildrenOf("Body") /\ ChildrenOf("Header")' = ChildrenOf("Header")
    BY DEF ChildrenOf
  <1>3. Plain' => HeadersScoped /\ BodyScoped
    BY DEF Plain, Scoping
  <1> QED BY <1>1, <1>2, <1>3 DEF ScopeKept, HeadersScoped, BodyScoped

(* What is returned otherwise is a fault.                                  *)
LEMMA EndsScoped ==
    ASSUME AbsentIsNone, Reading, Scoping, EndOfBody \/ EndOfEnvelope \/ Eof \/ Malformed
    PROVE  ScopeKept' /\ outcome' # "reading"
  <1> DEFINE item == <<"end">>
  <1>1. CASE EndOfEnvelope
    <2>1. /\ phase = "children" /\ Finish /\ Document
          /\ children' = Content(item) /\ odd' = odd
      BY <1>1 DEF EndOfEnvelope, Closing, Reading
    <2>2. Level = 1
      BY <2>1 DEF Reading, Position
    <2>3. children' = children
      BY <2>1, <2>2, ContentGrows
    <2>4. outcome' # "reading"
      BY <2>1 DEF Finish, Return
    <2> QED BY <2>1, <2>3, <2>4, FinishScoped
  <1>2. CASE phase = "children" /\ Finish /\ children' = children /\ odd' = odd
    <2>1. outcome' # "reading"
      BY <1>2 DEF Finish, Return
    <2> QED BY <1>2, <2>1, FinishScoped
  <1>3. CASE outcome' \in {"no envelope", "no body", "truncated", "malformed"}
    BY <1>3 DEF ScopeKept
  <1> QED BY <1>1, <1>2, <1>3 DEF EndOfBody, Eof, Malformed, Return

-----------------------------------------------------------------------------
ScopeInv == ScopeKept /\ (outcome = "reading" => Scoping)

(* The invariant holds before anything was read.                           *)
LEMMA ScopeInit == Init => ScopeInv
  <1> SUFFICES ASSUME Init PROVE ScopeInv
    OBVIOUS
  <1>1. Nested /\ Declaring
    BY DEF Init, Nested, Declaring
  <1>2. ChildrenOf("Header") = <<>> /\ ChildrenOf("Body") = <<>>
    BY DEF Init, ChildrenOf, Parts
  <1>3. HeadersScoped /\ BodyScoped
    BY <1>2 DEF Init, HeadersScoped, BodyScoped
  <1> QED BY <1>1, <1>3 DEF Init, ScopeInv, Scoping, ScopeKept

(* Every event keeps it, where the code keeps up with the document.        *)
LEMMA ScopeStep == AbsentIsNone /\ IInv /\ IInv' /\ ScopeInv /\ [Next]_vars => ScopeInv'
  <1> SUFFICES ASSUME AbsentIsNone, IInv, IInv', ScopeInv, [Next]_vars PROVE ScopeInv'
    OBVIOUS
  <1>0. Scoping' /\ outcome' = "reading" => ScopeInv'
    BY DEF ScopeInv, ScopeKept
  <1>1. ASSUME NEW tag \in Roots \cup Tags,
               \/ BeforeEnvelope(tag) \/ Envelope(tag)
               \/ Header(tag) \/ Body(tag) \/ OtherChild(tag)
        PROVE  ScopeInv'
    <2>1. outcome = "reading" /\ outcome' = "reading"
      BY <1>1 DEF BeforeEnvelope, Envelope, Header, Body, OtherChild, Opening, Node,
                  code, result
    <2>2. Reading /\ Reading' /\ Scoping
      BY <2>1 DEF IInv, ScopeInv
    <2>3. Scoping'
      BY <1>1, <2>2, BeforeEnvelopeScoped, EnvelopeScoped, HeaderScoped, BodyScopes,
         OtherChildScoped
    <2> QED BY <1>0, <2>1, <2>3
  <1>2. ASSUME NEW tag \in Roots \cup Tags,
               \/ BeginFragment(tag) \/ EmptyFragment(tag)
               \/ CopyStart(tag) \/ CopyEmpty(tag)
        PROVE  ScopeInv'
    <2>1. outcome = "reading" /\ outcome' = "reading"
      BY <1>2 DEF BeginFragment, EmptyFragment, CopyStart, CopyEmpty, Opening, EmptyNode, Node,
                  result
    <2>2. Reading /\ Reading' /\ Scoping
      BY <2>1 DEF IInv, ScopeInv
    <2>3. Scoping'
      BY <1>2, <2>2, BeginFragmentScoped, EmptyFragmentScoped, CopyStartScoped, CopyEmptyScoped
    <2> QED BY <1>0, <2>1, <2>3
  <1>3. ASSUME NEW tag \in Roots \cup Tags, SkipStart(tag) \/ PassOverEmpty(tag)
        PROVE  ScopeInv'
    <2>1. outcome = "reading" /\ outcome' = "reading"
      BY <1>3 DEF SkipStart, PassOverEmpty, Opening, EmptyNode, Node, code, result
    <2>2. Reading /\ Reading' /\ Scoping
      BY <2>1 DEF IInv, ScopeInv
    <2>3. Scoping'
      BY <1>3, <2>2, SkipStartScoped, PassOverEmptyScoped
    <2> QED BY <1>0, <2>1, <2>3
  <1>4. ASSUME \/ CopyEnd \/ SkipEnd \/ EndBeforeEnvelope \/ EndOfHeader
               \/ CopyText \/ PassOverText \/ CData
        PROVE  ScopeInv'
    <2>1. outcome = "reading" /\ outcome' = "reading"
      BY <1>4 DEF CopyEnd, SkipEnd, EndBeforeEnvelope, EndOfHeader, Closing,
                  CopyText, PassOverText, CData, Data, code, result
    <2>2. Reading /\ Reading' /\ Scoping
      BY <2>1 DEF IInv, ScopeInv
    <2>3. Scoping'
      BY <1>4, <2>2, CopyEndScoped, SkipEndScoped, EndScoped, CopyTextScoped, DataScoped
    <2> QED BY <1>0, <2>1, <2>3
  <1>5. ASSUME NEW tag, RefuseEnvelope(tag)
        PROVE  ScopeInv'
    BY <1>5 DEF RefuseEnvelope, Return, ScopeInv, ScopeKept
  <1>6. ASSUME EndOfBody \/ EndOfEnvelope \/ Eof \/ Malformed
        PROVE  ScopeInv'
    <2>1. outcome = "reading"
      BY <1>6 DEF EndOfBody, EndOfEnvelope, Eof, Malformed, Closing
    <2>2. Reading /\ Scoping
      BY <2>1 DEF IInv, ScopeInv
    <2> QED BY <1>6, <2>2, EndsScoped DEF ScopeInv
  <1>7. CASE UNCHANGED vars
    <2>1. /\ UNCHANGED <<open, events, odd, children, outcome>>
          /\ UNCHANGED <<phase, depth, envelopeNs, inherited, buffer, headers, body>>
      BY <1>7 DEF vars, code, result
    <2>2. ScopeKept'
      BY <2>1 DEF ScopeInv, ScopeKept, Plain, ChildrenOf
    <2>3. ASSUME outcome = "reading" PROVE Scoping'
      <3>1. Reading /\ Reading' /\ Scoping /\ Document /\ ChildrenShape
        BY <2>1, <2>3 DEF IInv, ScopeInv, Reading, Document
      <3>2. StackMoves
        BY <2>1, <3>1, StillStack DEF Scoping
      <3>3. Part' = Part
        BY <2>1, <3>1, OpenKept
      <3>4. SameScopes("Header") /\ SameScopes("Body")
        BY <2>1, <3>1, ScopesStay DEF SameChildren, Parts
      <3>5. SameFirst("Body")
        BY <3>1, <3>4, FirstScopeStays DEF Parts
      <3> QED BY <2>1, <3>1, <3>2, <3>3, <3>4, <3>5, StillScoped
    <2> QED BY <2>1, <2>2, <2>3 DEF ScopeInv
  <1> QED BY <1>1, <1>2, <1>3, <1>4, <1>5, <1>6, <1>7 DEF Next

(* None being neither a fragment nor a list of children, a prefix that is  *)
(* in scope at the root of a fragment parse_envelope returns is declared   *)
(* on it, with the innermost declaration first: for documents of any depth *)
(* and length, whose Envelope is the root, over all start tags and         *)
(* whatever they declare.                                                  *)
THEOREM ScopesDeclared == AbsentIsNone => (Spec => []ScopeKept)
  <1> SUFFICES ASSUME AbsentIsNone PROVE Spec => []ScopeKept
    OBVIOUS
  <1>1. Init => IInv /\ ScopeInv
    BY InitSound, ScopeInit
  <1>2. IInv /\ ScopeInv /\ [Next]_vars => (IInv /\ ScopeInv)'
    BY StepSound, ScopeStep
  <1>3. ScopeInv => ScopeKept
    BY DEF ScopeInv
  <1> QED BY <1>1, <1>2, <1>3, PTL DEF Spec
=============================================================================
