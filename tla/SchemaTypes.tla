----------------------------- MODULE SchemaTypes -----------------------------
(***************************************************************************)
(* xsd/types.rs: the values that the parsers hand to the resolvers, and    *)
(* the operations on the hash maps they are kept in.  A type is a record   *)
(* [kind, content, attributes], kind "complex" or "simple".                *)
(***************************************************************************)

CONSTANTS
    Absent,        \* Option::None
    Bad            \* Err(WsdlError)

EmptyMap == [k \in {} |-> Absent]

(* HashMap::insert.                                                        *)
Insert(map, k, v) == [x \in DOMAIN map \cup {k} |-> IF x = k THEN v ELSE map[x]]

(* HashMap::entry(k).or_insert(v) for every entry of another map; and      *)
(* HashMap::extend by map of the other.                                    *)
Filled(map, more) ==
    [x \in DOMAIN map \cup DOMAIN more |-> IF x \in DOMAIN map THEN map[x] ELSE more[x]]

(* Content models: [model, elements, base, inner]; base and inner are those*)
(* of an extension or a restriction.                                       *)
Content(model, elements) ==
    [model |-> model, elements |-> elements, base |-> Absent, inner |-> Absent]
EmptyContent == Content("empty", <<>>)
Derived(model, base, inner) ==
    [model |-> model, elements |-> <<>>, base |-> base, inner |-> inner]

Compositors == {"sequence", "all", "choice"}

(* The complex types of a schema, or of a collection of schemas.           *)
Complex(schema) == {q \in DOMAIN schema.types : schema.types[q].kind = "complex"}

(* The one among them that a type extends, if it does.                     *)
BaseIn(schema, q) ==
    LET content == schema.types[q].content
    IN  IF content.model = "extension" THEN {content.base} \cap Complex(schema) ELSE {}
=============================================================================
