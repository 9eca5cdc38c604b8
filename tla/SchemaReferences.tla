-------------------------- MODULE SchemaReferences --------------------------
(***************************************************************************)
(* xsd/resolver.rs: the references inside a content model and a list of    *)
(* attributes, which are replaced by what they refer to.  The recursion    *)
(* has an end if no group refers to itself.                                *)
(***************************************************************************)
EXTENDS SchemaParser

RECURSIVE ResolveElementList(_, _), ExpandAttributeGroup(_, _)

(* A reference goes to the group of that name or else to the global        *)
(* element, whose declaration takes its place; one that finds neither is   *)
(* dropped.                                                                *)
ResolveElementList(elements, from) ==
    LET visit(el) ==
          IF el.name = AnyName \/ el.ref = Absent THEN <<el>>
          ELSE IF el.ref \in DOMAIN from.groups
               THEN ResolveElementList(from.groups[el.ref].elements, from)
          ELSE IF el.ref \in DOMAIN from.elements THEN <<from.elements[el.ref]>>
          ELSE <<>>
    IN  FlattenSeq([i \in DOMAIN elements |-> visit(elements[i])])

ExpandAttributeGroup(group, from) ==
    LET known == SelectSeq(group.groups, LAMBDA g : g \in DOMAIN from.attributeGroups)
    IN  group.attributes \o
        FlattenSeq([i \in DOMAIN known |-> ExpandAttributeGroup(from.attributeGroups[known[i]], from)])

ResolveAttributes(attributes, from) ==
    LET visit(a) == IF a.ref \in DOMAIN from.attributeGroups
                    THEN ExpandAttributeGroup(from.attributeGroups[a.ref], from)
                    ELSE <<a>>
    IN  FlattenSeq([i \in DOMAIN attributes |-> visit(attributes[i])])

ResolvePlain(content, from) ==
    IF content.model \in Compositors
    THEN Content(content.model, ResolveElementList(content.elements, from))
    ELSE content
=============================================================================
