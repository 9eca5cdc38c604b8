----------------------------- MODULE WsdlParser -----------------------------
(***************************************************************************)
(* wsdl/parser.rs: what parse_wsdl reads off the tree of a WSDL document.  *)
(* Nodes and QNames are those of SchemaParser.  An operator returns Bad    *)
(* where the code returns an error (a required attribute is missing, a     *)
(* prefix is not declared); which error it is makes no difference.         *)
(*                                                                         *)
(* A definition is a record                                                *)
(*   imports    sequence of locations, Absent for one without              *)
(*   schemas    sequence of inline xs:schema nodes                         *)
(*   messages   name -> sequence of [name, element, type]                  *)
(*   portTypes  name -> sequence of [name, input, output, style]           *)
(*   bindings   name -> [portType, style, version, ops], ops a sequence    *)
(*              of [name, action, ns]                                      *)
(*   services   name -> sequence of [name, binding, address]               *)
(***************************************************************************)
EXTENDS SchemaParser

(* resolve_qname_str: here a prefix must be declared.                      *)
WsdlQName(q, scope) ==
    IF q[1] # "" /\ q[1] \notin DOMAIN scope THEN Bad ELSE ResolveQName(q, scope)

(* An optional attribute, Absent when it is missing.                       *)
WsdlQNameAttr(node, a, scope) ==
    IF HasAttr(node, a) THEN WsdlQName(Attr(node, a), scope) ELSE Absent

(* The question mark of a loop body: one error is the error of the loop.   *)
AllOrBad(seq) == IF Contains(seq, Bad) THEN Bad ELSE seq
MapKids(Op(_), kids) == AllOrBad([i \in DOMAIN kids |-> Op(kids[i])])

(* Children by local name, as the loops that do not look at the namespace  *)
(* select them.                                                            *)
KidsNamed(node, tag) == SelectSeq(node.kids, LAMBDA k : k.ns # "text" /\ k.tag = tag)

-----------------------------------------------------------------------------
(* Messages and port types.                                                *)

ParsePart(node, scope) ==
    LET part == [name |-> Attr(node, "name"), element |-> WsdlQNameAttr(node, "element", scope),
                 type |-> WsdlQNameAttr(node, "type", scope)]
    IN  IF ~HasAttr(node, "name") \/ part.element = Bad \/ part.type = Bad THEN Bad ELSE part

ParseMessage(node, scope) ==
    IF ~HasAttr(node, "name") THEN Bad
    ELSE MapKids(LAMBDA k : ParsePart(k, scope), KidsNamed(node, "part"))

(* input, output and fault name a message, and a fault has a name.         *)
ParseOperationMessage(node, scope) ==
    IF ~HasAttr(node, "message") \/ (node.tag = "fault" /\ ~HasAttr(node, "name")) THEN Bad
    ELSE WsdlQName(Attr(node, "message"), scope)

OperationStyle(input, output) ==
    CASE input # Absent /\ output # Absent -> "RequestResponse"
      [] input = Absent /\ output # Absent -> "Notification"
      [] output = Absent -> "OneWay"

ParseOperation(node, scope) ==
    LET of(tag) == MapKids(LAMBDA k : ParseOperationMessage(k, scope), KidsNamed(node, tag))
        last(tag) == IF of(tag) = <<>> THEN Absent ELSE Last(of(tag))
    IN  IF ~HasAttr(node, "name") \/ Bad \in {of("input"), of("output"), of("fault")} THEN Bad
        ELSE [name |-> Attr(node, "name"), input |-> last("input"), output |-> last("output"),
              style |-> OperationStyle(last("input"), last("output"))]

ParsePortType(node, scope) ==
    IF ~HasAttr(node, "name") THEN Bad
    ELSE MapKids(LAMBDA k : ParseOperation(k, scope), KidsNamed(node, "operation"))

-----------------------------------------------------------------------------
(* Bindings.                                                               *)

SoapNs(version) == IF version = "1.1" THEN "soap11" ELSE "soap12"

(* The namespace of the last soap:body; the message of a soap:header that  *)
(* names one must resolve.                                                 *)
ParseBindingMessage(node, soapNs, scope) ==
    LET soap(tag) == SelectSeq(KidsIn(node, soapNs), LAMBDA k : k.tag = tag)
        full(k) == HasAttr(k, "message") /\ HasAttr(k, "part")
        headers == MapKids(LAMBDA k : WsdlQName(Attr(k, "message"), scope),
                           SelectSeq(soap("header"), full))
    IN  IF headers = Bad THEN Bad
        ELSE IF soap("body") = <<>> THEN Absent ELSE Attr(Last(soap("body")), "namespace")

(* The SOAPAction is read from the extension of the version the binding    *)
(* has so far.                                                             *)
ParseBindingOperation(node, version, scope) ==
    LET soapOps == SelectSeq(KidsIn(node, SoapNs(version)), LAMBDA k : k.tag = "operation")
        of(tag) == MapKids(LAMBDA k : ParseBindingMessage(k, SoapNs(version), scope),
                           SelectSeq(KidsIn(node, "wsdl"), LAMBDA k : k.tag = tag))
    IN  IF ~HasAttr(node, "name") \/ Bad \in {of("input"), of("output")} THEN Bad
        ELSE [name |-> Attr(node, "name"),
              action |-> IF soapOps = <<>> THEN Absent ELSE Attr(Last(soapOps), "soapAction"),
              ns |-> IF of("input") = <<>> THEN Absent ELSE Last(of("input"))]

(* The children in order: a soap:binding sets the version and the style    *)
(* for the operations after it, SOAP 1.1 and document before any.          *)
ParseBinding(node, scope) ==
    LET visit(b, k) ==
          CASE k.tag = "binding" /\ k.ns \in {"soap11", "soap12"} ->
                   [b EXCEPT !.version = IF k.ns = "soap11" THEN "1.1" ELSE "1.2",
                             !.style = IF Attr(k, "style") = "rpc" THEN "rpc" ELSE "document"]
            [] k.tag = "operation" /\ k.ns = "wsdl" ->
                   [b EXCEPT !.ops = Append(@, ParseBindingOperation(k, b.version, scope))]
            [] OTHER -> b
        portType == WsdlQNameAttr(node, "type", scope)
        binding == FoldLeft(visit, [portType |-> portType, style |-> "document",
                                    version |-> "1.1", ops |-> <<>>], node.kids)
    IN  IF ~HasAttr(node, "name") \/ portType \in {Absent, Bad} \/ AllOrBad(binding.ops) = Bad
        THEN Bad ELSE binding

-----------------------------------------------------------------------------
(* Services.                                                               *)

(* The address is the first child of that name that has a location.        *)
ParsePort(node, scope) ==
    LET addresses == SelectSeq(KidsNamed(node, "address"), LAMBDA k : HasAttr(k, "location"))
        binding == WsdlQNameAttr(node, "binding", scope)
    IN  IF ~HasAttr(node, "name") \/ binding \in {Absent, Bad} THEN Bad
        ELSE [name |-> Attr(node, "name"), binding |-> binding,
              address |-> IF addresses = <<>> THEN "" ELSE Attr(Head(addresses), "location")]

ParseService(node, scope) ==
    IF ~HasAttr(node, "name") THEN Bad
    ELSE MapKids(LAMBDA k : ParsePort(k, scope), KidsNamed(node, "port"))

-----------------------------------------------------------------------------
(* node_to_string, read back by the resolver: the declarations in scope go *)
(* with the schema, and text and the values of attributes are written      *)
(* without escaping them, so that what stood for markup is markup.  A text *)
(* node has the tag "markup" when it contains such a character; of the     *)
(* attributes "default" stands for those that may, which are not read.     *)
(* Attributes lose their prefixes, which is taken to give no element two   *)
(* of one name.                                                            *)
NodeToString(schema, scope) == [schema EXCEPT !.attrs = ("scope" :> scope) @@ @]

RECURSIVE ReadsBack(_)
ReadsBack(node) ==
    /\ ~(node.ns = "text" /\ node.tag = "markup")
    /\ Attr(node, "default") # "markup"
    /\ \A i \in DOMAIN node.kids : ReadsBack(node.kids[i])

ParseTypes(node, scope) ==
    LET schemas == SelectSeq(KidsIn(node, "xs"), LAMBDA k : k.tag = "schema")
    IN  [i \in DOMAIN schemas |-> NodeToString(schemas[i], scope)]

-----------------------------------------------------------------------------
(* parse_wsdl.                                                             *)

EmptyDefinition ==
    [imports |-> <<>>, schemas |-> <<>>, messages |-> EmptyMap, portTypes |-> EmptyMap,
     bindings |-> EmptyMap, services |-> EmptyMap]

(* The maps of a definition, with the child that fills each.               *)
MapOf == ("message" :> "messages") @@ ("portType" :> "portTypes")
            @@ ("binding" :> "bindings") @@ ("service" :> "services")

ParseComponent(node, scope) ==
    CASE node.tag = "message" -> ParseMessage(node, scope)
      [] node.tag = "portType" -> ParsePortType(node, scope)
      [] node.tag = "binding" -> ParseBinding(node, scope)
      [] node.tag = "service" -> ParseService(node, scope)

(* Of two types elements, and of two components with one name, the later   *)
(* counts.                                                                 *)
ParseWsdl(root) ==
    LET scope == root.attrs.scope
        visit(def, k) ==
          CASE k.tag = "import" -> [def EXCEPT !.imports = Append(@, Attr(k, "location"))]
            [] k.tag = "types" -> [def EXCEPT !.schemas = ParseTypes(k, scope)]
            [] k.tag \in DOMAIN MapOf ->
                   [def EXCEPT ![MapOf[k.tag]] =
                        Insert(@, Attr(k, "name"), ParseComponent(k, scope))]
            [] OTHER -> def
        def == FoldLeft(visit, EmptyDefinition, KidsIn(root, "wsdl"))
        wrong(k) == k.tag \in DOMAIN MapOf /\ ParseComponent(k, scope) = Bad
    IN  IF root.tag # "definitions" \/ \E k \in Range(KidsIn(root, "wsdl")) : wrong(k)
        THEN Bad ELSE def
=============================================================================
