----------------------------- MODULE WsdlLoading -----------------------------
(***************************************************************************)
(* What loading a WSDL promises to the rest of the server: WsdlResolver,   *)
(* which loads, with the parsers that read its documents, composed with    *)
(* the structural validation of DispatchTable, which reads the registry.   *)
(* The properties compare the outcome with the documents themselves.       *)
(***************************************************************************)
EXTENDS WsdlResolver, WsdlParser, SchemaReferences

Table == INSTANCE DispatchTable WITH NoAction <- Absent


(* collect_required_element_names: the named elements that must occur, of  *)
(* a sequence or an all; none of a choice.                                 *)
RequiredNames(type) ==
    IF type.content.model \notin {"sequence", "all"} THEN {}
    ELSE {el.name : el \in {e \in Range(type.content.elements) : e.min > 0 /\ e.name # Absent}}

(* Whether a request for the global element e with these children passes   *)
(* the structural check of the server built from the loaded WSDL.          *)
Accepted(e, children) ==
    Table!ValidRequest([q \in DOMAIN types |-> RequiredNames(types[q])],
                 IF e \in DOMAIN elementTypes THEN elementTypes[e] ELSE Absent, children)

-----------------------------------------------------------------------------
(* What a schema allows, read off its tree.                                *)

(* The node that defines a global component, in the schema of its target   *)
(* namespace.                                                              *)
DefinesIn(schema, k, tag, q) ==
    k.ns = "xs" /\ k.tag = tag /\ <<Attr(schema, "targetNamespace"), Attr(k, "name")>> = q
Definitions(tag, q) ==
    UNION {{[node |-> k, scope |-> s.attrs.scope] :
               k \in {x \in Range(s.kids) : DefinesIn(s, x, tag, q)}} : s \in documents.schemas}
DeclaredElements == UNION {DOMAIN schema.elements : schema \in Schemas}

(* The sets of names a request's children may have.                        *)

Optional(node) == IF MinOccurs(node) = 0 THEN {{}} ELSE {}
Pairwise(A, B) == {a \cup b : a \in A, b \in B}

(* A child that only a wildcard admits.                                    *)
Other == "other"

RECURSIVE Allowed(_, _)
Allowed(node, scope) ==
    LET kids == SelectSeq(KidsIn(node, "xs"), LAMBDA k : k.tag # "annotation")
        each == [i \in DOMAIN kids |-> Allowed(kids[i], scope)]
        target == QNameAttr(node, "ref", scope)
        group == CHOOSE d \in Definitions("group", target) : TRUE
    IN  Optional(node) \cup
        CASE node.tag = "element" -> {{IF HasAttr(node, "ref") THEN target[2] ELSE Attr(node, "name")}}
          [] node.tag = "any" -> {{Other}}
          [] node.tag = "group" -> Allowed(group.node.kids[1], group.scope)
          [] node.tag = "choice" -> UNION Range(each)
          [] node.tag \in {"sequence", "all"} -> FoldLeft(Pairwise, {{}}, each)

(* The content models of a type, that of the base it extends first.        *)
RECURSIVE ContentModels(_, _)
ContentModels(node, scope) ==
    LET kids(n) == SelectSeq(KidsIn(n, "xs"), LAMBDA k : k.tag \in Compositors \cup {"group", "complexContent"})
        own(n) == IF kids(n) = <<>> THEN <<>> ELSE <<[node |-> kids(n)[1], scope |-> scope]>>
        derived == KidsIn(kids(node)[1], "xs")[1]
        base == CHOOSE d \in Definitions("complexType", QNameAttr(derived, "base", scope)) : TRUE
    IN  IF kids(node) = <<>> \/ kids(node)[1].tag # "complexContent" THEN own(node)
        ELSE IF derived.tag = "restriction" THEN own(derived)
        ELSE ContentModels(base.node, base.scope) \o own(derived)

AllowedByType(type) ==
    LET models == ContentModels(type.node, type.scope)
    IN  FoldLeft(Pairwise, {{}}, [i \in DOMAIN models |-> Allowed(models[i].node, models[i].scope)])

(* A particle, with those inside it.                                       *)
RECURSIVE Particles(_)
Particles(node) ==
    {node} \cup (IF node.tag \in Compositors THEN UNION {Particles(k) : k \in Range(KidsIn(node, "xs"))} ELSE {})
ParticlesOf(type) ==
    UNION {Particles(model.node) : model \in Range(ContentModels(type.node, type.scope))}

Extension(type) == \E k \in Range(KidsIn(type.node, "xs")) :
                       k.tag = "complexContent" /\ KidsIn(k, "xs")[1].tag = "extension"

(* Content that is a choice as a whole, and extends nothing.               *)
ChoiceAlone(type) ==
    ~Extension(type) /\ \E model \in Range(ContentModels(type.node, type.scope)) : model.node.tag = "choice"

(* A particle that is demanded though an instance may do without it: a     *)
(* wildcard, under the name of __any__; what stands in a choice or in an   *)
(* optional compositor; what an optional reference refers to.              *)
DemandedWrongly(particle) ==
    \/ particle.tag = "any" /\ MinOccurs(particle) # 0
    \/ particle.tag = "choice"
    \/ particle.tag \in Compositors /\ MinOccurs(particle) = 0
    \/ particle.tag = "element" /\ HasAttr(particle, "ref") /\ MinOccurs(particle) = 0

(* The type of a global element: anonymous, or named in a schema.          *)
TypeNodes(e) ==
    LET d == CHOOSE d \in Definitions("element", e) : TRUE
        inline == {k \in Range(d.node.kids) : k.ns = "xs" /\ k.tag = "complexType"}
    IN  IF inline # {} THEN {[node |-> k, scope |-> d.scope] : k \in inline}
        ELSE IF HasAttr(d.node, "type") THEN Definitions("complexType", QNameAttr(d.node, "type", d.scope))
        ELSE {}

-----------------------------------------------------------------------------
(* Properties.                                                             *)

(* An extension has the elements of its base first, whichever call of      *)
(* resolve_schema the base comes from (collect_all_schemas).  This one     *)
(* does not hold, and no run checks it: a file that was loaded for one     *)
(* inline schema is not looked into for the next.                          *)
FlattenedAcrossSchemas ==
    outcome = "ok" =>
        \A e \in Extends.edge :
            IsPrefix(types[e[2]].content.elements, types[e[1]].content.elements)


(* No request the schema allows is turned away (dispatch.rs:365).  A run   *)
(* finds it violated where a choice stands inside a sequence; it is where  *)
(* a wildcard must be filled, too.                                         *)
ValidRequestsAccepted ==
    outcome = "ok" =>
        \A e \in DeclaredElements :
            \A type \in TypeNodes(e) : \A a \in AllowedByType(type) : Accepted(e, a)
=============================================================================
