-------------------------- MODULE TokenParserProofs --------------------------
(***************************************************************************)
(* Proofs that parse_username_token reads character data only where a      *)
(* field of a token is open, and that it reads a header of the usual form  *)
(* as XML has it: for all start tags, in headers of any depth and length.  *)
(***************************************************************************)
EXTENDS TokenParser, TLAPS, WellFoundedInduction

(* The open elements are a sequence of something.                          *)
Stack == \E E : open \in Seq(E)

IInv == Stack /\ ExpectingInside

(* An element that opens goes on top of the others.                        *)
LEMMA Pushed ==
    ASSUME Stack, NEW e, open' = Append(open, e)
    PROVE  /\ Stack' /\ Len(open) \in Nat
           /\ DOMAIN open = 1 .. Len(open) /\ DOMAIN open' = 1 .. Len(open) + 1
           /\ \A i \in DOMAIN open : open'[i] = open[i]
           /\ open'[Len(open) + 1] = e
  <1>1. PICK E : open \in Seq(E)
    BY DEF Stack
  <1>2. open \in Seq(E \cup {e})
    BY <1>1
  <1>3. open' \in Seq(E \cup {e})
    BY <1>2
  <1> QED BY <1>1, <1>2, <1>3 DEF Stack

(* An element that closes was on top.                                      *)
LEMMA Popped ==
    ASSUME Stack, open # <<>>, open' = Front(open)
    PROVE  /\ Stack' /\ Len(open) \in Nat \ {0} /\ Last(open) = open[Len(open)]
           /\ Len(open') = Len(open) - 1
           /\ DOMAIN open = 1 .. Len(open) /\ DOMAIN open' = 1 .. Len(open) - 1
           /\ \A i \in DOMAIN open' : open'[i] = open[i]
  <1>1. PICK E : open \in Seq(E)
    BY DEF Stack
  <1>2. Len(open) \in Nat \ {0} /\ DOMAIN open = 1 .. Len(open)
    BY <1>1
  <1>3. /\ open' \in Seq(E) /\ Len(open') = Len(open) - 1
        /\ \A i \in 1 .. Len(open) - 1 : open'[i] = open[i]
    BY <1>1, <1>2 DEF Front
  <1>4. DOMAIN open' = 1 .. Len(open) - 1
    BY <1>3
  <1> QED BY <1>2, <1>3, <1>4 DEF Stack, Last

(* Nothing is open and nothing is expected at first.                       *)
LEMMA InitSound == Init => IInv
  <1> SUFFICES ASSUME Init PROVE IInv
    OBVIOUS
  <1>1. open \in Seq({})
    BY DEF Init
  <1> QED BY <1>1 DEF Init, IInv, Stack, ExpectingInside

(* A step that neither opens nor closes an element, nor raises a flag.     *)
LEMMA QuietSound ==
    ASSUME IInv, open' = open, inToken' = inToken, expecting' \subseteq expecting
    PROVE  IInv'
  BY DEF IInv, Stack, ExpectingInside

(* A start tag raises the flag of its own name only.                       *)
LEMMA StartTagSound == ASSUME NEW tag PROVE IInv /\ StartTag(tag) => IInv'
  <1> SUFFICES ASSUME IInv, StartTag(tag) PROVE IInv'
    OBVIOUS
  <1> DEFINE e == Element(tag)
             top == Len(open) + 1
  <1>1. open' = Append(open, e) /\ e.local = tag.local
    BY DEF StartTag, Element
  <1> HIDE DEF e
  <1>2. /\ Stack' /\ Len(open) \in Nat
        /\ DOMAIN open = 1 .. Len(open) /\ DOMAIN open' = 1 .. top
        /\ \A i \in DOMAIN open : open'[i] = open[i]
        /\ open'[top] = e
    BY <1>1, Pushed DEF IInv
  <1>3. ExpectingInside
    BY DEF IInv
  <1>4. inToken' => inToken \/ tag.local = "UsernameToken"
    BY DEF StartTag
  <1>5. \A f \in expecting' : f \in expecting \/ (f = tag.local /\ inToken)
    BY DEF StartTag
  <1>6. inToken' => \E i \in DOMAIN open' : open'[i].local = "UsernameToken"
    BY <1>1, <1>2, <1>3, <1>4 DEF ExpectingInside
  <1>7. ASSUME NEW f \in expecting'
        PROVE  \E i, j \in DOMAIN open' :
                  i < j /\ open'[i].local = "UsernameToken" /\ open'[j].local = f
    <2>1. CASE f \in expecting
      <3>1. PICK i, j \in DOMAIN open :
               i < j /\ open[i].local = "UsernameToken" /\ open[j].local = f
        BY <1>3, <2>1 DEF ExpectingInside
      <3> QED BY <1>2, <3>1
    <2>2. CASE f = tag.local /\ inToken
      <3>1. PICK i \in DOMAIN open : open[i].local = "UsernameToken"
        BY <1>3, <2>2 DEF ExpectingInside
      <3>2. i \in DOMAIN open' /\ top \in DOMAIN open' /\ i < top
        BY <1>2, <3>1
      <3> QED BY <1>1, <1>2, <2>2, <3>1, <3>2
    <2> QED BY <1>5, <2>1, <2>2
  <1> QED BY <1>2, <1>6, <1>7 DEF IInv, ExpectingInside

(* An end tag lowers the flag of its own name: another one that is up has  *)
(* its element further out.                                                *)
LEMMA EndTagSound == IInv /\ EndTag => IInv'
  <1> SUFFICES ASSUME IInv, EndTag PROVE IInv'
    OBVIOUS
  <1>1. /\ Stack' /\ Len(open) \in Nat \ {0} /\ Last(open) = open[Len(open)]
        /\ DOMAIN open = 1 .. Len(open) /\ DOMAIN open' = 1 .. Len(open) - 1
        /\ \A i \in DOMAIN open' : open'[i] = open[i]
    BY Popped DEF IInv, EndTag
  <1>2. ExpectingInside
    BY DEF IInv
  <1>3. inToken' => inToken /\ Last(open).local # "UsernameToken"
    BY DEF EndTag
  <1>4. \A f \in expecting' : f \in expecting /\ f # Last(open).local
    BY DEF EndTag
  <1>5. inToken' => \E i \in DOMAIN open' : open'[i].local = "UsernameToken"
    <2>1. SUFFICES ASSUME inToken' PROVE \E i \in DOMAIN open' : open'[i].local = "UsernameToken"
      OBVIOUS
    <2>2. PICK i \in DOMAIN open : open[i].local = "UsernameToken"
      BY <1>2, <1>3, <2>1 DEF ExpectingInside
    <2>3. i # Len(open)
      BY <1>1, <1>3, <2>1, <2>2
    <2> QED BY <1>1, <2>2, <2>3
  <1>6. ASSUME NEW f \in expecting'
        PROVE  \E i, j \in DOMAIN open' :
                  i < j /\ open'[i].local = "UsernameToken" /\ open'[j].local = f
    <2>1. PICK i, j \in DOMAIN open :
             i < j /\ open[i].local = "UsernameToken" /\ open[j].local = f
      BY <1>2, <1>4 DEF ExpectingInside
    <2>2. j # Len(open)
      BY <1>1, <1>4, <2>1
    <2>3. i \in DOMAIN open' /\ j \in DOMAIN open'
      BY <1>1, <2>1, <2>2
    <2> QED BY <1>1, <2>1, <2>3
  <1> QED BY <1>1, <1>5, <1>6 DEF IInv, ExpectingInside

(* Every step keeps the invariant.                                         *)
LEMMA StepSound == IInv /\ [Next]_vars => IInv'
  <1> SUFFICES ASSUME IInv, [Next]_vars PROVE IInv'
    OBVIOUS
  <1>1. ASSUME NEW tag, StartTag(tag) PROVE IInv'
    BY <1>1, StartTagSound
  <1>2. ASSUME NEW tag, EmptyTag(tag) PROVE IInv'
    BY <1>2, QuietSound DEF EmptyTag
  <1>3. ASSUME NEW c, Text(c) PROVE IInv'
    <2>1. open' = open /\ inToken' = inToken /\ expecting' \subseteq expecting
      BY <1>3 DEF Text
    <2> QED BY <2>1, QuietSound
  <1>4. ASSUME NEW c, PassedOver(c) PROVE IInv'
    BY <1>4, QuietSound DEF PassedOver, parser
  <1>5. CASE EndTag
    BY <1>5, EndTagSound
  <1>6. CASE Eof \/ Malformed
    BY <1>6, QuietSound DEF Eof, Malformed, Return
  <1>7. CASE UNCHANGED vars
    BY <1>7, QuietSound DEF vars, parser
  <1> QED BY <1>1, <1>2, <1>3, <1>4, <1>5, <1>6, <1>7 DEF Next

(* Text outside a token, between its fields or in an element the token     *)
(* does not define is never taken for one of its fields.                   *)
THEOREM ReadsInsideOnly == Spec => []ExpectingInside
  <1>1. IInv => ExpectingInside
    BY DEF IInv
  <1> QED BY InitSound, StepSound, <1>1, PTL DEF Spec

-----------------------------------------------------------------------------
(* Of a header of the usual form the fields are what XML has.              *)

(* A set of numbers has a least one.                                       *)
LEMMA Least ==
    ASSUME NEW T \in SUBSET Nat, T # {}
    PROVE  \E x \in T : \A y \in T : x <= y
  <1>1. PICK x \in T : \A y \in T : ~(<<y, x>> \in OpToRel(<, Nat))
    BY WFMin, NatLessThanWellFounded
  <1>2. ASSUME NEW y \in T, y < x PROVE FALSE
    BY <1>1, <1>2 DEF OpToRel
  <1> QED BY <1>2

(* A set of indices has a last one.                                        *)
LEMMA Greatest ==
    ASSUME NEW n \in Nat, NEW I \in SUBSET (1 .. n), I # {}
    PROVE  Max(I) \in I
  <1> DEFINE T == {n - i : i \in I}
  <1>1. T \in SUBSET Nat /\ T # {}
    <2>1. \A i \in I : n - i \in Nat
      OBVIOUS
    <2> QED BY <2>1
  <1> HIDE DEF T
  <1>2. PICK t \in T : \A y \in T : t <= y
    BY <1>1, Least
  <1>3. PICK i \in I : t = n - i
    BY DEF T
  <1>4. \A j \in I : i >= j
    <2>1. ASSUME NEW j \in I PROVE i >= j
      <3>1. n - j \in T
        BY DEF T
      <3> QED BY <1>2, <1>3, <3>1
    <2> QED BY <2>1
  <1> QED BY <1>4 DEF Max

(* The namespace of an element, if it has one, is one that is in scope.    *)
LEMMA ScopedIs ==
    ASSUME NEW E, NEW s \in Seq(E), NEW prefix, ScopedNs(s, prefix) # Absent
    PROVE  \E i \in DOMAIN s : /\ prefix \in DOMAIN s[i].declares
                               /\ ScopedNs(s, prefix) = s[i].declares[prefix]
  <1> DEFINE I == {i \in 1 .. Len(s) : prefix \in DOMAIN s[i].declares}
             k == IF I # {} THEN Max(I) ELSE 0
  <1>1. ScopedNs(s, prefix) = IF k = 0 THEN Absent ELSE s[k].declares[prefix]
    BY DEF ScopedNs, SelectLastInSeq
  <1>2. I # {} /\ k = Max(I)
    BY <1>1
  <1>3. I \in SUBSET (1 .. Len(s)) /\ Len(s) \in Nat
    OBVIOUS
  <1>4. Max(I) \in I
    BY <1>2, <1>3, Greatest
  <1> HIDE DEF k
  <1>5. k \in 1 .. Len(s) /\ prefix \in DOMAIN s[k].declares
    BY <1>2, <1>4
  <1> QED BY <1>1, <1>5

(* What is usual about a start tag.                                        *)
LEMMA UsualMeans ==
    ASSUME NEW tag, ~ Unusual(tag)
    PROVE  /\ \A p \in DOMAIN tag.declares \cap DOMAIN nsMap : nsMap[p] = tag.declares[p]
           /\ Element(tag).local = tag.local /\ Element(tag).declares = tag.declares
           /\ Element(tag).ns # Absent
           /\ ~ AtField(open)
           /\ tag.local = "UsernameToken" => Len(open) = 1
           /\ tag.local \in Fields /\ Element(tag).ns = FieldNs(tag.local) =>
                 AtField(Append(open, Element(tag))) /\ content[tag.local] = Absent
  <1>1. Element(tag).local = tag.local /\ Element(tag).declares = tag.declares
    BY DEF Element
  <1>2. /\ \A p \in DOMAIN tag.declares \cap DOMAIN nsMap : nsMap[p] = tag.declares[p]
        /\ Element(tag).ns # Absent
        /\ ~ AtField(open)
        /\ Element(tag).local = "UsernameToken" => Len(open) = 1
        /\ Element(tag).local \in Fields /\ Element(tag).ns = FieldNs(Element(tag).local) =>
              /\ AtField(Append(open, Element(tag)))
              /\ content[Element(tag).local] = Absent
    BY DEF Unusual
  <1> QED BY <1>1, <1>2

(* In a header of the usual form a prefix means to the reader what it      *)
(* means to XML, and so it does after the tag.                             *)
LEMMA Resolved ==
    ASSUME Stack, PrefixesAgree, NEW tag, ~ Unusual(tag), nsMap' = Bind(nsMap, tag.declares)
    PROVE  /\ ResolveNs(nsMap', tag.prefix) = Element(tag).ns
           /\ \A i \in DOMAIN open : \A p \in DOMAIN open[i].declares :
                 p \in DOMAIN nsMap' /\ nsMap'[p] = open[i].declares[p]
           /\ \A p \in DOMAIN tag.declares :
                 p \in DOMAIN nsMap' /\ nsMap'[p] = tag.declares[p]
  <1>1. /\ DOMAIN nsMap' = DOMAIN nsMap \cup DOMAIN tag.declares
        /\ \A p \in DOMAIN tag.declares : nsMap'[p] = tag.declares[p]
        /\ \A p \in DOMAIN nsMap : nsMap'[p] = nsMap[p]
    BY UsualMeans DEF Bind
  <1>2. \A i \in DOMAIN open : \A p \in DOMAIN open[i].declares :
           p \in DOMAIN nsMap' /\ nsMap'[p] = open[i].declares[p]
    BY <1>1 DEF PrefixesAgree
  <1>3. PICK E : open \in Seq(E)
    BY DEF Stack
  <1>4. PICK s, d : s = Append(open, d) /\ d = [declares |-> tag.declares]
    OBVIOUS
  <1>5. Element(tag).ns = ScopedNs(s, tag.prefix) /\ Element(tag).ns # Absent
    BY <1>4, UsualMeans DEF Element
  <1>6. PICK i \in DOMAIN s : /\ tag.prefix \in DOMAIN s[i].declares
                              /\ Element(tag).ns = s[i].declares[tag.prefix]
    <2>1. PICK F : F = E \cup {d}
      OBVIOUS
    <2>2. s \in Seq(F)
      BY <1>3, <1>4, <2>1
    <2> QED BY <1>5, <2>2, ScopedIs
  <1>7. tag.prefix \in DOMAIN nsMap' /\ nsMap'[tag.prefix] = Element(tag).ns
    <2>1. CASE i = Len(open) + 1
      <3>1. s[i].declares = tag.declares
        BY <1>3, <1>4, <2>1
      <3> QED BY <1>1, <1>6, <3>1
    <2>2. CASE i # Len(open) + 1
      <3>1. i \in DOMAIN open /\ s[i] = open[i]
        BY <1>3, <1>4, <1>6, <2>2
      <3> QED BY <1>2, <1>6, <3>1
    <2> QED BY <2>1, <2>2
  <1> QED BY <1>1, <1>2, <1>7 DEF ResolveNs

(* Text is offered to a field that expects some, if any does.              *)
LEMMA Offered ==
    ASSUME NEW i, i = SelectInSeq(FieldOrder, LAMBDA f : f \in expecting)
    PROVE  /\ expecting = {} => i = 0
           /\ \A f \in Fields : expecting = {f} => i # 0 /\ FieldOrder[i] = f
  <1> DEFINE I == {k \in 1 .. Len(FieldOrder) : FieldOrder[k] \in expecting}
  <1>1. i = IF I # {} THEN Min(I) ELSE 0
    BY DEF SelectInSeq
  <1>2. Len(FieldOrder) = 4 /\ Fields = {FieldOrder[k] : k \in 1 .. 4}
    BY DEF FieldOrder, Fields, ToSet
  <1>3. expecting = {} => I = {}
    OBVIOUS
  <1>4. ASSUME NEW f \in Fields, expecting = {f} PROVE i # 0 /\ FieldOrder[i] = f
    <2>1. PICK k \in 1 .. 4 : FieldOrder[k] = f
      BY <1>2
    <2>2. k \in I
      BY <1>2, <1>4, <2>1
    <2>3. I \in SUBSET Nat
      BY <1>2
    <2>4. \A j \in I : j # 0 /\ FieldOrder[j] = f
      BY <1>2, <1>4
    <2> HIDE DEF I
    <2>5. Min(I) \in I
      <3>1. \E x \in I : \A y \in I : x <= y
        BY <2>2, <2>3, Least
      <3> QED BY <3>1 DEF Min
    <2> QED BY <1>1, <2>2, <2>4, <2>5
  <1> QED BY <1>1, <1>3, <1>4

(* None is not a piece of character data.                                  *)
AbsentIsNone == \A S : Absent \notin Seq(S)

(* What is kept of each field while the header is read.                    *)
Shape == DOMAIN content = Fields /\ DOMAIN fields = Fields

Reading == Stack /\ Shape /\ PrefixesAgree /\ TokenPlaced /\ FieldsInnermost /\ Expected

(* A field without character data has no value; one piece of it is one.    *)
LEMMA Values ==
    ASSUME AbsentIsNone, NEW f
    PROVE  /\ content[f] = <<>> => Value(f) = Absent
           /\ content[f] = Absent => Value(f) = Absent
           /\ \A c : content[f] = <<c>> => Value(f) # Absent /\ Value(f)[1] = c
  <1>1. ASSUME NEW c, content[f] = <<c>> PROVE Value(f) # Absent /\ Value(f)[1] = c
    <2>1. <<c>> \in Seq({c}) /\ <<c>> # <<>> /\ <<c>>[1] = c
      OBVIOUS
    <2>2. <<c>> # Absent
      BY <2>1 DEF AbsentIsNone
    <2> QED BY <1>1, <2>1, <2>2 DEF Value
  <1> QED BY <1>1 DEF Value

(* The fields and their values stay as they are.                           *)
LEMMA ValuesKept ==
    ASSUME ReadAsXml, fields' = fields, odd' = {} => odd = {},
           odd' = {} => \A f \in Fields : Value(f)' = Value(f)
    PROVE  ReadAsXml'
  BY DEF ReadAsXml

(* A start tag of a header of the usual form: the reader takes it for what *)
(* it is.                                                                  *)
LEMMA StartTagReads ==
    ASSUME AbsentIsNone, Reading, ReadAsXml, NEW tag, StartTag(tag), odd' = {}
    PROVE  Reading' /\ ReadAsXml'
  <1> DEFINE e == Element(tag)
             ns == ResolveNs(nsMap', tag.prefix)
             token == tag.local = "UsernameToken" /\ ns = Wsse
             field == tag.local \in Fields /\ ns = FieldNs(tag.local) /\ inToken
  <1>1. ~ Unusual(tag) /\ odd = {}
    BY DEF StartTag, Begin
  <1>2. /\ nsMap' = Bind(nsMap, tag.declares) /\ open' = Append(open, e)
        /\ inToken' = (inToken \/ token)
        /\ expecting' = IF field THEN expecting \cup {tag.local} ELSE expecting
        /\ content' = IF AtField(open') THEN [content EXCEPT ![tag.local] = <<>>] ELSE content
        /\ fields' = fields
    BY DEF StartTag, Begin
  <1>3. /\ e.local = tag.local /\ e.declares = tag.declares
        /\ ~ AtField(open)
        /\ tag.local = "UsernameToken" => Len(open) = 1
        /\ tag.local \in Fields /\ e.ns = FieldNs(tag.local) =>
              AtField(Append(open, e)) /\ content[tag.local] = Absent
    BY <1>1, UsualMeans
  <1>4. /\ ns = e.ns
        /\ \A i \in DOMAIN open : \A p \in DOMAIN open[i].declares :
              p \in DOMAIN nsMap' /\ nsMap'[p] = open[i].declares[p]
        /\ \A p \in DOMAIN tag.declares :
              p \in DOMAIN nsMap' /\ nsMap'[p] = tag.declares[p]
    BY <1>1, <1>2, Resolved DEF Reading
  <1> HIDE DEF e, ns
  <1>5. /\ Stack' /\ Len(open) \in Nat
        /\ DOMAIN open = 1 .. Len(open) /\ DOMAIN open' = 1 .. Len(open) + 1
        /\ \A i \in DOMAIN open : open'[i] = open[i]
        /\ open'[Len(open) + 1] = e
    BY <1>2, Pushed DEF Reading
  <1>6. Len(open') = Len(open) + 1 /\ Last(open') = e
    <2>1. PICK E : open' \in Seq(E)
      BY <1>5 DEF Stack
    <2>2. Len(open') = Len(open) + 1
      BY <1>5, <2>1
    <2> QED BY <1>5, <2>2 DEF Last
  <1>7. PrefixesAgree'
    <2>1. ASSUME NEW i \in DOMAIN open', NEW p \in DOMAIN open'[i].declares
          PROVE  p \in DOMAIN nsMap' /\ nsMap'[p] = open'[i].declares[p]
      <3>1. CASE i = Len(open) + 1
        BY <1>3, <1>4, <1>5, <2>1, <3>1
      <3>2. CASE i # Len(open) + 1
        <4>1. i \in DOMAIN open /\ open'[i] = open[i]
          BY <1>5, <3>2
        <4> QED BY <1>4, <2>1, <4>1
      <3> QED BY <3>1, <3>2
    <2> QED BY <2>1 DEF PrefixesAgree
  <1>8. TokenPlaced
    BY DEF Reading
  <1>9. TokenPlaced'
    <2>1. ASSUME NEW i \in DOMAIN open', open'[i].local = "UsernameToken" PROVE i = 2
      <3>1. CASE i = Len(open) + 1
        BY <1>3, <1>5, <2>1, <3>1
      <3>2. CASE i # Len(open) + 1
        <4>1. i \in DOMAIN open /\ open'[i] = open[i]
          BY <1>5, <3>2
        <4> QED BY <1>8, <2>1, <4>1 DEF TokenPlaced
      <3> QED BY <3>1, <3>2
    <2>2. token <=> IsToken(e)
      BY <1>3, <1>4 DEF IsToken
    <2>3. IsToken(e) => Len(open) = 1
      BY <1>3 DEF IsToken
    <2>4. CASE Len(open) = 1
      <3>1. ~ inToken
        BY <1>8, <2>4 DEF TokenPlaced
      <3>2. open'[2] = e /\ Len(open') >= 2
        BY <1>5, <1>6, <2>4
      <3>3. inToken' <=> token
        BY <1>2, <3>1
      <3> QED BY <2>1, <2>2, <3>2, <3>3 DEF TokenPlaced, IsToken
    <2>5. CASE Len(open) # 1
      <3>1. inToken' <=> inToken
        BY <1>2, <2>2, <2>3, <2>5
      <3>2. Len(open) >= 2 <=> Len(open') >= 2
        BY <1>5, <1>6, <2>5
      <3>3. Len(open) >= 2 => open'[2] = open[2]
        BY <1>5
      <3> QED BY <1>8, <2>1, <3>1, <3>2, <3>3 DEF TokenPlaced, IsToken
    <2> QED BY <2>4, <2>5
  <1>10. FieldsInnermost'
    <2>1. SUFFICES ASSUME Len(open') > 3
                   PROVE  ~ ( /\ IsToken(open[2]) /\ open[3].local \in Fields
                              /\ open[3].ns = FieldNs(open[3].local))
      <3>1. Len(open') > 3 => open'[2] = open[2] /\ open'[3] = open[3]
        BY <1>5, <1>6
      <3> QED BY <3>1 DEF FieldsInnermost, IsToken, FieldNs
    <2>2. Len(open) = 3 \/ Len(open) > 3
      BY <1>5, <1>6, <2>1
    <2> QED BY <1>3, <2>2 DEF Reading, FieldsInnermost, AtField
  <1>11. expecting = {}
    BY <1>3 DEF Reading, Expected
  <1>12. field <=> AtField(open')
    <2>1. field => AtField(open')
      BY <1>2, <1>3, <1>4
    <2>2. ASSUME AtField(open') PROVE field
      <3>0. Len(open') = 3
        BY <2>2 DEF AtField
      <3>1. Len(open) = 2 /\ open'[2] = open[2] /\ open'[3] = e
        <4>1. Len(open) = 2
          <5>1. PICK n : n = Len(open)
            OBVIOUS
          <5>2. n \in Nat /\ n + 1 = 3
            BY <1>5, <1>6, <3>0, <5>1
          <5>3. n = 2
            BY <5>2
          <5> QED BY <5>1, <5>3
        <4> QED BY <1>5, <4>1
      <3>2. inToken
        BY <1>8, <2>2, <3>1 DEF AtField, TokenPlaced
      <3> QED BY <1>3, <1>4, <2>2, <3>1, <3>2 DEF AtField
    <2> QED BY <2>1, <2>2
  <1>13. CASE AtField(open')
    <2>1. /\ tag.local \in Fields /\ content[tag.local] = Absent
          /\ content' = [content EXCEPT ![tag.local] = <<>>]
      BY <1>2, <1>3, <1>4, <1>12, <1>13
    <2>2. /\ DOMAIN content' = Fields /\ content'[tag.local] = <<>>
          /\ \A f \in Fields \ {tag.local} : content'[f] = content[f]
      BY <2>1 DEF Reading, Shape
    <2>3. \A f \in Fields : Value(f)' = Value(f)
      BY <2>1, <2>2, Values DEF Value
    <2>4. Shape'
      BY <1>2, <2>2 DEF Reading, Shape
    <2>5. Expected'
      BY <1>2, <1>3, <1>6, <1>11, <1>12, <1>13, <2>2 DEF Expected
    <2> QED BY <1>1, <1>2, <1>5, <1>7, <1>9, <1>10, <2>3, <2>4, <2>5, ValuesKept DEF Reading
  <1>14. CASE ~ AtField(open')
    <2>1. content' = content /\ expecting' = {}
      BY <1>2, <1>11, <1>12, <1>14
    <2>2. Shape' /\ Expected' /\ \A f \in Fields : Value(f)' = Value(f)
      BY <1>2, <1>14, <2>1 DEF Reading, Shape, Expected, Value
    <2> QED BY <1>1, <1>2, <1>5, <1>7, <1>9, <1>10, <2>2, ValuesKept DEF Reading
  <1> QED BY <1>13, <1>14

(* An empty element: a field that has no character data.                   *)
LEMMA EmptyTagReads ==
    ASSUME AbsentIsNone, Reading, ReadAsXml, NEW tag, EmptyTag(tag), odd' = {}
    PROVE  Reading' /\ ReadAsXml'
  <1> DEFINE e == Element(tag)
  <1>1. ~ Unusual(tag) /\ odd = {}
    BY DEF EmptyTag, Begin
  <1>2. /\ nsMap' = Bind(nsMap, tag.declares)
        /\ content' = IF AtField(Append(open, e)) THEN [content EXCEPT ![tag.local] = <<>>] ELSE content
        /\ open' = open /\ inToken' = inToken /\ expecting' = expecting /\ fields' = fields
    BY DEF EmptyTag, Begin
  <1>3. /\ e.local = tag.local /\ ~ AtField(open)
        /\ tag.local \in Fields /\ e.ns = FieldNs(tag.local) => content[tag.local] = Absent
    BY <1>1, UsualMeans
  <1> HIDE DEF e
  <1>4. PrefixesAgree'
    BY <1>1, <1>2, Resolved DEF Reading, PrefixesAgree
  <1>5. Stack' /\ TokenPlaced' /\ FieldsInnermost' /\ Expected'
    BY <1>2, <1>3 DEF Reading, Stack, TokenPlaced, FieldsInnermost, Expected
  <1>6. CASE AtField(Append(open, e))
    <2>1. tag.local \in Fields /\ content[tag.local] = Absent
      <3>1. PICK E : open \in Seq(E)
        BY DEF Reading, Stack
      <3>2. PICK s : s = Append(open, e)
        OBVIOUS
      <3>3. Len(s) = Len(open) + 1 /\ s[Len(open) + 1] = e /\ Len(open) \in Nat
        BY <3>1, <3>2
      <3>4. AtField(s)
        BY <1>6, <3>2
      <3>5. Len(s) = 3 /\ s[3].local \in Fields /\ s[3].ns = FieldNs(s[3].local)
        BY <3>4 DEF AtField
      <3>6. s[3] = e
        BY <3>3, <3>5
      <3> QED BY <1>3, <3>5, <3>6
    <2>2. /\ DOMAIN content' = Fields /\ content'[tag.local] = <<>>
          /\ \A f \in Fields \ {tag.local} : content'[f] = content[f]
      BY <1>2, <1>6, <2>1 DEF Reading, Shape
    <2>3. \A f \in Fields : Value(f)' = Value(f)
      BY <2>1, <2>2, Values DEF Value
    <2>4. Shape'
      BY <1>2, <2>2 DEF Reading, Shape
    <2> QED BY <1>1, <1>2, <1>4, <1>5, <2>3, <2>4, ValuesKept DEF Reading
  <1>7. CASE ~ AtField(Append(open, e))
    <2>1. content' = content
      BY <1>2, <1>7
    <2>2. Shape' /\ \A f \in Fields : Value(f)' = Value(f)
      BY <1>2, <2>1 DEF Reading, Shape, Value
    <2> QED BY <1>1, <1>2, <1>4, <1>5, <2>2, ValuesKept DEF Reading
  <1> QED BY <1>6, <1>7

(* The stack and the prefixes stay as they are.                            *)
LEMMA PlaceKept ==
    ASSUME Reading, open' = open, nsMap' = nsMap, inToken' = inToken
    PROVE  Stack' /\ PrefixesAgree' /\ TokenPlaced' /\ FieldsInnermost'
  BY DEF Reading, Stack, PrefixesAgree, TokenPlaced, FieldsInnermost

(* Text: the one piece of a field, or passed over.                         *)
LEMMA TextReads ==
    ASSUME AbsentIsNone, Reading, ReadAsXml, NEW c, Text(c), odd' = {}
    PROVE  Reading' /\ ReadAsXml'
  <1> DEFINE g == Last(open).local
  <1>1. PICK i : i = SelectInSeq(FieldOrder, LAMBDA f : f \in expecting)
    OBVIOUS
  <1>2. /\ open' = open /\ nsMap' = nsMap /\ inToken' = inToken
        /\ content' = IF AtField(open) THEN [content EXCEPT ![g] = Append(@, c)] ELSE content
        /\ fields' = IF i = 0 THEN fields ELSE [fields EXCEPT ![FieldOrder[i]] = c]
        /\ expecting' = IF i = 0 THEN expecting ELSE expecting \ {FieldOrder[i]}
    BY <1>1 DEF Text, Data
  <1>3. odd = {} /\ (AtField(open) => content[g] = <<>>)
    BY DEF Text
  <1>4. /\ expecting = {} => i = 0
        /\ \A f \in Fields : expecting = {f} => i # 0 /\ FieldOrder[i] = f
    BY <1>1, Offered
  <1>5. Stack' /\ PrefixesAgree' /\ TokenPlaced' /\ FieldsInnermost'
    BY <1>2, PlaceKept
  <1>6. CASE AtField(open)
    <2>1. g \in Fields
      <3>1. Len(open) = 3 /\ open[3].local \in Fields
        BY <1>6 DEF AtField
      <3> QED BY <3>1 DEF Last
    <2> HIDE DEF g
    <2>2. expecting = {g}
      BY <1>3, <1>6 DEF Reading, Expected, g
    <2>3. fields' = [fields EXCEPT ![g] = c] /\ expecting' = {}
      BY <1>2, <1>4, <2>1, <2>2
    <2>4. content' = [content EXCEPT ![g] = <<c>>]
      <3>1. content[g] = <<>> /\ Append(<<>>, c) = <<c>>
        BY <1>3, <1>6
      <3> QED BY <1>2, <1>6, <3>1
    <2>5. /\ DOMAIN content' = Fields /\ content'[g] = <<c>>
          /\ DOMAIN fields' = Fields /\ fields'[g] = c
          /\ \A f \in Fields \ {g} : content'[f] = content[f] /\ fields'[f] = fields[f]
      BY <2>1, <2>3, <2>4 DEF Reading, Shape
    <2>6. <<c>> # <<>> /\ <<c>>[1] = c /\ <<c>> # Absent
      <3>1. <<c>> \in Seq({c}) /\ <<c>> # <<>> /\ <<c>>[1] = c
        OBVIOUS
      <3> QED BY <3>1 DEF AbsentIsNone
    <2>7. Shape' /\ Expected'
      <3>1. Last(open') = Last(open)
        BY <1>2
      <3> QED BY <1>2, <2>3, <2>5, <2>6, <3>1 DEF Shape, Expected, g
    <2>8. ASSUME NEW f \in Fields
          PROVE  fields'[f] = IF Value(f)' = Absent THEN Absent ELSE Value(f)'[1]
      <3>1. CASE f = g
        <4>1. Value(f)' = <<c>>
          BY <2>5, <2>6, <3>1 DEF Value
        <4> QED BY <2>5, <2>6, <3>1, <4>1
      <3>2. CASE f # g
        <4>1. Value(f)' = Value(f) /\ fields'[f] = fields[f]
          BY <2>5, <2>8, <3>2 DEF Value
        <4> QED BY <1>3, <4>1 DEF ReadAsXml
      <3> QED BY <3>1, <3>2
    <2> QED BY <1>5, <2>7, <2>8 DEF Reading, ReadAsXml
  <1>7. CASE ~ AtField(open)
    <2>1. expecting = {} /\ i = 0
      BY <1>4, <1>7 DEF Reading, Expected
    <2>2. content' = content /\ fields' = fields /\ expecting' = {}
      BY <1>2, <1>7, <2>1
    <2>3. Shape' /\ Expected' /\ \A f \in Fields : Value(f)' = Value(f)
      BY <1>2, <1>7, <2>2 DEF Reading, Shape, Expected, Value
    <2> QED BY <1>3, <1>5, <2>2, <2>3, ValuesKept DEF Reading
  <1> QED BY <1>6, <1>7

(* Data of another kind: outside the fields.                               *)
LEMMA PassedOverReads ==
    ASSUME Reading, ReadAsXml, NEW c, PassedOver(c), odd' = {}
    PROVE  Reading' /\ ReadAsXml'
  <1>1. odd = {} /\ ~ AtField(open)
    BY DEF PassedOver
  <1>2. content' = content /\ UNCHANGED <<open, nsMap, inToken, expecting, fields>>
    BY <1>1 DEF PassedOver, Data, parser
  <1>3. Shape' /\ Expected' /\ \A f \in Fields : Value(f)' = Value(f)
    BY <1>2 DEF Reading, Shape, Expected, Value
  <1> QED BY <1>1, <1>2, <1>3, PlaceKept, ValuesKept DEF Reading

(* An end tag leaves the field, or the token, it closes.                   *)
LEMMA EndTagReads ==
    ASSUME Reading, ReadAsXml, EndTag, odd' = {}
    PROVE  Reading' /\ ReadAsXml'
  <1>1. /\ open # <<>> /\ open' = Front(open)
        /\ inToken' = (inToken /\ Last(open).local # "UsernameToken")
        /\ expecting' = expecting \ {Last(open).local}
        /\ UNCHANGED <<nsMap, fields, content, odd>>
    BY DEF EndTag
  <1>2. /\ Stack' /\ Len(open) \in Nat \ {0} /\ Last(open) = open[Len(open)]
        /\ DOMAIN open = 1 .. Len(open) /\ DOMAIN open' = 1 .. Len(open) - 1
        /\ \A i \in DOMAIN open' : open'[i] = open[i]
    BY <1>1, Popped DEF Reading
  <1>3. Len(open') = Len(open) - 1
    BY <1>1, Popped DEF Reading
  <1>4. PrefixesAgree'
    <2>1. ASSUME NEW i \in DOMAIN open' PROVE i \in DOMAIN open /\ open'[i] = open[i]
      BY <1>2
    <2> QED BY <1>1, <2>1 DEF Reading, PrefixesAgree
  <1>5. TokenPlaced'
    <2>1. TokenPlaced
      BY DEF Reading
    <2>2. \A i \in DOMAIN open' : open'[i].local = "UsernameToken" => i = 2
      BY <1>2, <2>1 DEF TokenPlaced
    <2>3. CASE Len(open) = 1
      <3>1. ~ inToken
        BY <2>1, <2>3 DEF TokenPlaced
      <3>2. ~ inToken'
        BY <1>1, <3>1
      <3>3. Len(open') = 0
        BY <1>3, <2>3
      <3> QED BY <2>2, <3>2, <3>3 DEF TokenPlaced
    <2>4. CASE Len(open) = 2
      <3>1. inToken => open[2].local = "UsernameToken"
        BY <2>1 DEF TokenPlaced, IsToken
      <3>2. Last(open) = open[2] /\ Len(open') = 1
        BY <1>2, <1>3, <2>4
      <3>3. ~ inToken'
        BY <1>1, <3>1, <3>2
      <3> QED BY <2>2, <3>2, <3>3 DEF TokenPlaced
    <2>5. CASE Len(open) > 2
      <3>1. Last(open).local # "UsernameToken"
        BY <1>2, <2>1, <2>5 DEF TokenPlaced
      <3>2. inToken' <=> inToken
        BY <1>1, <3>1
      <3>3. Len(open') >= 2 /\ Len(open) >= 2 /\ open'[2] = open[2]
        BY <1>2, <1>3, <2>5
      <3> QED BY <2>1, <2>2, <3>2, <3>3 DEF TokenPlaced, IsToken
    <2> QED BY <1>2, <2>3, <2>4, <2>5
  <1>6. Len(open') >= 3 => Len(open) > 3 /\ open'[2] = open[2] /\ open'[3] = open[3]
    BY <1>2, <1>3
  <1>7. FieldsInnermost'
    <2>1. Len(open') > 3 => Len(open') >= 3
      BY <1>2, <1>3
    <2> QED BY <1>6, <2>1 DEF Reading, FieldsInnermost, IsToken, FieldNs
  <1>8. Expected'
    <2>1. expecting' = {}
      BY <1>1 DEF Reading, Expected
    <2>2. ~ AtField(open')
      <3>1. SUFFICES ASSUME AtField(open') PROVE FALSE
        OBVIOUS
      <3>2. /\ Len(open') = 3 /\ IsToken(open'[2])
            /\ open'[3].local \in Fields /\ open'[3].ns = FieldNs(open'[3].local)
        BY <3>1 DEF AtField
      <3>3. Len(open) > 3 /\ open'[2] = open[2] /\ open'[3] = open[3]
        BY <1>6, <3>2
      <3> QED BY <3>2, <3>3 DEF Reading, FieldsInnermost
    <2> QED BY <2>1, <2>2 DEF Expected
  <1>9. Shape' /\ \A f \in Fields : Value(f)' = Value(f)
    BY <1>1 DEF Reading, Shape, Value
  <1> QED BY <1>1, <1>2, <1>4, <1>5, <1>7, <1>8, <1>9, ValuesKept DEF Reading

ReadInv == ReadAsXml /\ (outcome = "reading" /\ odd = {} => Reading)

(* The invariant holds before anything was read.                           *)
LEMMA InitReads == Init => ReadInv
  <1> SUFFICES ASSUME Init PROVE ReadInv
    OBVIOUS
  <1>1. open \in Seq({}) /\ Len(open) = 0 /\ DOMAIN open = {}
    BY DEF Init
  <1>2. Stack /\ Shape /\ PrefixesAgree /\ TokenPlaced /\ FieldsInnermost
    BY <1>1 DEF Init, Stack, Shape, PrefixesAgree, TokenPlaced, FieldsInnermost
  <1>3. Expected
    BY <1>1 DEF Init, Expected, AtField
  <1>4. ReadAsXml
    BY DEF Init, ReadAsXml, Value
  <1> QED BY <1>2, <1>3, <1>4 DEF ReadInv, Reading

(* Every event keeps it.                                                   *)
LEMMA StepReads == AbsentIsNone /\ ReadInv /\ [Next]_vars => ReadInv'
  <1> SUFFICES ASSUME AbsentIsNone, ReadInv, [Next]_vars PROVE ReadInv'
    OBVIOUS
  <1>1. odd' # {} => ReadInv'
    BY DEF ReadInv, ReadAsXml
  <1>2. Reading' /\ ReadAsXml' => ReadInv'
    BY DEF ReadInv
  <1>3. ASSUME NEW tag, StartTag(tag) \/ EmptyTag(tag) PROVE ReadInv'
    <2>1. outcome = "reading" /\ (odd' = {} => odd = {})
      BY <1>3 DEF StartTag, EmptyTag, Begin
    <2> QED BY <1>1, <1>2, <1>3, <2>1, StartTagReads, EmptyTagReads DEF ReadInv
  <1>4. ASSUME NEW c, Text(c) \/ PassedOver(c) PROVE ReadInv'
    <2>1. outcome = "reading" /\ (odd' = {} => odd = {})
      BY <1>4 DEF Text, PassedOver, Data
    <2> QED BY <1>1, <1>2, <1>4, <2>1, TextReads, PassedOverReads DEF ReadInv
  <1>5. CASE EndTag
    <2>1. outcome = "reading" /\ odd' = odd
      BY <1>5 DEF EndTag
    <2> QED BY <1>1, <1>2, <1>5, <2>1, EndTagReads DEF ReadInv
  <1>6. ASSUME fields' = fields, content' = content, odd' = odd PROVE ReadAsXml'
    BY <1>6 DEF ReadInv, ReadAsXml, Value
  <1>7. CASE Eof \/ Malformed
    <2>1. /\ UNCHANGED <<fields, content, odd>>
          /\ outcome' # "reading"
      BY <1>7 DEF Eof, Malformed, Return
    <2> QED BY <1>6, <2>1 DEF ReadInv
  <1>8. CASE UNCHANGED vars
    <2>1. UNCHANGED <<nsMap, inToken, expecting, fields, outcome, open, content, odd>>
      BY <1>8 DEF vars, parser
    <2>2. Reading => Reading'
      <3>1. Reading => Shape' /\ Expected'
        BY <2>1 DEF Reading, Shape, Expected
      <3> QED BY <2>1, <3>1, PlaceKept DEF Reading
    <2> QED BY <1>6, <2>1, <2>2 DEF ReadInv
  <1> QED BY <1>3, <1>4, <1>5, <1>7, <1>8 DEF Next

(* None being no piece of data, a header of the usual form whose fields    *)
(* are each one piece of text is read as XML has it: with any number of    *)
(* elements, at any depth, over all start tags.                            *)
THEOREM FieldsReadAsXml == AbsentIsNone => (Spec => []ReadAsXml)
  <1> SUFFICES ASSUME AbsentIsNone PROVE Spec => []ReadAsXml
    OBVIOUS
  <1>1. ReadInv => ReadAsXml
    BY DEF ReadInv
  <1>2. ReadInv /\ [Next]_vars => ReadInv'
    BY StepReads
  <1> QED BY InitReads, <1>1, <1>2, PTL DEF Spec
=============================================================================
