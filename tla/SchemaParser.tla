---------------------------- MODULE SchemaParser ----------------------------
(***************************************************************************)
(* xsd/parser.rs: what parse_schema reads off the tree of an xs:schema.    *)
(*                                                                         *)
(* A node is [ns, tag, attrs, kids]: ns is "xs", "wsdl", "soap11",         *)
(* "soap12", "text" or "other", attrs a function from the names of the     *)
(* attributes that are present.  An attribute that holds a QName holds     *)
(* <<prefix, local>>, prefix "" when there is none; minOccurs holds a      *)
(* number.  Namespace declarations are those of the document's root, the   *)
(* attribute scope: prefix -> URI.  A resolved QName is <<URI, local>>,    *)
(* URI "" for no namespace.                                                *)
(*                                                                         *)
(* Of a declaration the model keeps what resolution and validation read:   *)
(* facets, maxOccurs, defaults and the types of attributes are left out.   *)
(***************************************************************************)
EXTENDS Naturals, Sequences, SequencesExt, TLC, SchemaTypes

Attr(node, a) == IF a \in DOMAIN node.attrs THEN node.attrs[a] ELSE Absent
HasAttr(node, a) == a \in DOMAIN node.attrs
KidsIn(node, ns) == SelectSeq(node.kids, LAMBDA k : k.ns = ns)

(* resolve_qname: a prefix that is not declared stands for itself.         *)
ResolveQName(q, scope) ==
    IF q[1] \in DOMAIN scope THEN <<scope[q[1]], q[2]>> ELSE q

QNameAttr(node, a, scope) ==
    IF HasAttr(node, a) THEN ResolveQName(Attr(node, a), scope) ELSE Absent

(* parse_min_occurs.                                                       *)
MinOccurs(node) == IF HasAttr(node, "minOccurs") THEN Attr(node, "minOccurs") ELSE 1

-----------------------------------------------------------------------------
(* Attributes.                                                             *)

VisitAttribute(node, scope) ==
    [name |-> Attr(node, "name"), ref |-> QNameAttr(node, "ref", scope),
     use |-> IF Attr(node, "use") \in {"required", "prohibited"} THEN Attr(node, "use")
             ELSE "optional"]

(* A reference to an attribute group is kept as an attribute with that ref.*)
VisitAttributes(kids, scope) ==
    LET visit(k) ==
          CASE k.tag = "attribute" -> <<VisitAttribute(k, scope)>>
            [] k.tag = "attributeGroup" /\ HasAttr(k, "ref") ->
                   <<[name |-> Absent, ref |-> QNameAttr(k, "ref", scope), use |-> "optional"]>>
            [] OTHER -> <<>>
    IN  FlattenSeq([i \in DOMAIN kids |-> visit(kids[i])])

VisitAttributeGroupDef(node, scope) ==
    LET own(tag) == SelectSeq(KidsIn(node, "xs"), LAMBDA k : k.tag = tag)
        refs == SelectSeq(own("attributeGroup"), LAMBDA k : HasAttr(k, "ref"))
    IN  [attributes |-> [i \in DOMAIN own("attribute") |-> VisitAttribute(own("attribute")[i], scope)],
         groups |-> [i \in DOMAIN refs |-> QNameAttr(refs[i], "ref", scope)]]

-----------------------------------------------------------------------------
(* Content models.                                                         *)

(* The synthetic element an xs:any becomes.                                *)
AnyName == "__any__"
AnyElement(node) ==
    [name |-> AnyName, typeRef |-> Absent, inline |-> Absent,
     min |-> MinOccurs(node), ref |-> Absent]

RECURSIVE VisitParticleChildren(_, _), VisitElement(_, _), VisitComplexType(_, _)

(* The elements of a compositor: those of the compositors inside it are    *)
(* taken into the same list, and xs:group is not among the cases.          *)
VisitParticleChildren(node, scope) ==
    LET kids == KidsIn(node, "xs")
        visit(k) ==
          CASE k.tag = "element" -> <<VisitElement(k, scope)>>
            [] k.tag = "any" -> <<AnyElement(k)>>
            [] k.tag \in Compositors -> VisitParticleChildren(k, scope)
            [] OTHER -> <<>>
    IN  FlattenSeq([i \in DOMAIN kids |-> visit(kids[i])])

VisitCompositor(node, scope) == Content(node.tag, VisitParticleChildren(node, scope))

(* The last compositor among the children, the empty content without one.  *)
LastCompositor(node, scope) ==
    LET found == SelectSeq(KidsIn(node, "xs"), LAMBDA k : k.tag \in Compositors)
    IN  IF found = <<>> THEN EmptyContent ELSE VisitCompositor(Last(found), scope)

FirstCompositor(node, scope) ==
    LET found == SelectSeq(KidsIn(node, "xs"), LAMBDA k : k.tag \in Compositors)
    IN  IF found = <<>> THEN EmptyContent ELSE VisitCompositor(Head(found), scope)

VisitExtension(node, scope) ==
    Derived("extension",
            IF HasAttr(node, "base") THEN QNameAttr(node, "base", scope) ELSE <<"", "">>,
            LastCompositor(node, scope))

(* The first extension, or restriction that names a base.                  *)
VisitComplexContent(node, scope) ==
    LET derives(k) == k.tag = "extension" \/ (k.tag = "restriction" /\ HasAttr(k, "base"))
        found == SelectSeq(KidsIn(node, "xs"), derives)
    IN  IF found = <<>> THEN EmptyContent
        ELSE IF Head(found).tag = "extension" THEN VisitExtension(Head(found), scope)
        ELSE Derived("restriction", QNameAttr(Head(found), "base", scope),
                     FirstCompositor(Head(found), scope))

VisitSimpleContent(node, scope) ==
    IF \E k \in Range(KidsIn(node, "xs")) : k.tag = "extension" /\ HasAttr(k, "base")
    THEN Content("simpleContent", <<>>) ELSE EmptyContent

SimpleType == [kind |-> "simple", content |-> EmptyContent, attributes |-> <<>>]

(* Of several content models the last one counts.                          *)
VisitComplexType(node, scope) ==
    LET kids == KidsIn(node, "xs")
        found == SelectSeq(kids, LAMBDA k : k.tag \in Compositors \cup {"complexContent", "simpleContent"})
    IN  [kind |-> "complex",
         attributes |-> VisitAttributes(kids, scope),
         content |-> IF found = <<>> THEN EmptyContent
                     ELSE CASE Last(found).tag = "complexContent" -> VisitComplexContent(Last(found), scope)
                            [] Last(found).tag = "simpleContent" -> VisitSimpleContent(Last(found), scope)
                            [] OTHER -> VisitCompositor(Last(found), scope)]

VisitElement(node, scope) ==
    LET types == SelectSeq(KidsIn(node, "xs"), LAMBDA k : k.tag \in {"complexType", "simpleType"})
    IN  [name |-> Attr(node, "name"), typeRef |-> QNameAttr(node, "type", scope),
         ref |-> QNameAttr(node, "ref", scope), min |-> MinOccurs(node),
         inline |-> IF types = <<>> THEN Absent
                    ELSE IF Head(types).tag = "simpleType" THEN SimpleType
                    ELSE VisitComplexType(Head(types), scope)]

VisitGroupDef(node, scope) ==
    LET found == SelectSeq(KidsIn(node, "xs"), LAMBDA k : k.tag \in Compositors)
    IN  IF found = <<>> THEN Content("sequence", <<>>) ELSE VisitCompositor(Last(found), scope)

-----------------------------------------------------------------------------
(* parse_schema.  A global declaration without a name is passed over; of   *)
(* two with one name the later counts.                                     *)

EmptySchema ==
    [types |-> EmptyMap, elements |-> EmptyMap, groups |-> EmptyMap,
     attributeGroups |-> EmptyMap, imports |-> <<>>, includes |-> <<>>]

ParseSchema(node) ==
    LET scope == node.attrs.scope
        tns == IF HasAttr(node, "targetNamespace") THEN Attr(node, "targetNamespace") ELSE ""
        qualify(k) == <<tns, Attr(k, "name")>>
        visit(schema, k) ==
          CASE k.tag = "complexType" /\ HasAttr(k, "name") ->
                   [schema EXCEPT !.types = Insert(@, qualify(k), VisitComplexType(k, scope))]
            [] k.tag = "simpleType" /\ HasAttr(k, "name") ->
                   [schema EXCEPT !.types = Insert(@, qualify(k), SimpleType)]
            [] k.tag = "element" /\ HasAttr(k, "name") ->
                   [schema EXCEPT !.elements = Insert(@, qualify(k), VisitElement(k, scope))]
            [] k.tag = "attributeGroup" /\ HasAttr(k, "name") ->
                   [schema EXCEPT !.attributeGroups =
                                      Insert(@, qualify(k), VisitAttributeGroupDef(k, scope))]
            [] k.tag = "group" /\ HasAttr(k, "name") ->
                   [schema EXCEPT !.groups = Insert(@, qualify(k), VisitGroupDef(k, scope))]
            [] k.tag = "import" ->
                   [schema EXCEPT !.imports = Append(@, Attr(k, "schemaLocation"))]
            [] k.tag = "include" /\ HasAttr(k, "schemaLocation") ->
                   [schema EXCEPT !.includes = Append(@, Attr(k, "schemaLocation"))]
            [] OTHER -> schema
    IN  FoldLeft(visit, EmptySchema, KidsIn(node, "xs"))
=============================================================================
