---------------------------- MODULE MCWsdlLoading ----------------------------
(* Worlds for WsdlLoading: families of documents, each aimed at one thing   *)
(* that loading has to get right.                                           *)
EXTENDS WsdlLoading

Node(ns, tag, attrs, kids) == [ns |-> ns, tag |-> tag, attrs |-> attrs, kids |-> kids]
Named(name) == "name" :> name
Xs(tag, attrs, kids) == Node("xs", tag, attrs, kids)
Wsdl(tag, attrs, kids) == Node("wsdl", tag, attrs, kids)
None == EmptyMap

Scope == ("t" :> "T") @@ ("x" :> "X") @@ ("y" :> "Y")
Definition(kids) == Wsdl("definitions", "scope" :> Scope, kids)
Schema(tns, kids) == Xs("schema", ("scope" :> Scope) @@ ("targetNamespace" :> tns), kids)
Types(schemas) == Wsdl("types", None, schemas)
Import(location) == Xs("import", "schemaLocation" :> location, <<>>)
WsdlImport(location) ==
    Wsdl("import", IF location = Absent THEN None ELSE "location" :> location, <<>>)
Malformed == Node("other", "malformed", None, <<>>)

(* A file of the base directory, and the location that names it.            *)
At(name) == <<"base", name>>
L(name) == <<name>>
MCBaseDir == <<"base">>
MCRoot == L("r")

Each(seq, Op(_)) == [i \in DOMAIN seq |-> Op(seq[i])]

-----------------------------------------------------------------------------
(* Import graphs over the root r, b and c; each file marks what it defines. *)

Message(name, mark) == Wsdl("message", Named(name), <<Wsdl("part", Named(mark), <<>>)>>)
Service(name, mark) ==
    Wsdl("service", Named(name), <<Wsdl("port", Named(mark) @@ ("binding" :> <<"t", "b">>),
                                       <<Node("soap11", "address", "location" :> mark, <<>>)>>)>>)
PortType(name, mark) ==
    Wsdl("portType", Named(name),
         <<Wsdl("operation", Named(mark), <<Wsdl("input", "message" :> <<"t", "m">>, <<>>)>>)>>)
WsdlBinding(name, mark) ==
    Wsdl("binding", Named(name) @@ ("type" :> <<"t", mark>>), <<>>)

File(imports, mark, defines) ==
    Definition(Each(imports, WsdlImport)
               \o <<Types(<<Schema("T", <<Import(L("x"))>>)>>), Message(mark, mark)>> \o defines)

ImportWorlds ==
    {(At("r") :> File(root, "r", <<PortType("p", "r")>>))
       @@ (At("b") :> File(b, "b", <<Message("m", "b"), PortType("p", "b"), WsdlBinding("w", "b")>>))
       @@ (At("c") :> File(c, "c", <<Message("m", "c"), WsdlBinding("w", "c"), Service("s", "c")>>))
       @@ (At("x") :> Schema("X", <<Import(L("x"))>>)) :
        root \in {<<L("b")>>, <<L("b"), L("c")>>, <<L("c"), L("b")>>, <<Absent, L("b")>>, <<L("r"), L("b")>>},
        b \in {<<>>, <<L("c")>>, <<L("b")>>, << <<"..", "base", "r">> >>, <<L("c"), L("r")>>},
        c \in {<<>>, << <<".", "b">> >>, <<L("gone")>>, <<L("r"), L("b")>>}}

-----------------------------------------------------------------------------
(* Extensions across an inline schema T and the files X and Y.              *)

Elt(name) == Xs("element", Named(name), <<>>)
Compositor(tag, kids) == Xs(tag, None, kids)
ComplexType(attrs, kids) == Xs("complexType", attrs, kids)
Derivation(tag, base, kids) ==
    Xs("complexContent", None, <<Xs(tag, IF base = Absent THEN None ELSE "base" :> base, kids)>>)
Extending(name, base, own) ==
    ComplexType(Named(name), <<IF base = Absent THEN own ELSE Derivation("extension", base, <<own>>)>>)
Extender(name, base) == Extending(name, base, Compositor("sequence", <<Elt(name)>>))

Document(schemas) == Definition(<<Types(schemas)>>)
T1 == <<"t", "t1">>
T2 == <<"x", "t2">>
T3 == <<"y", "t3">>
Simple == Xs("simpleType", Named("simple"), <<>>)

ExtensionWorlds ==
    {(At("r") :> Document(<<Schema("T", Each(i1, Import) \o <<Extender("t1", b1)>>)>>))
       @@ (At("x") :> Schema("X", Each(i2, Import) \o <<Simple, Extender("t2", b2)>>))
       @@ (At("y") :> Schema("Y", Each(i3, Import) \o <<Extender("t3", b3)>>)) :
        i1 \in {<<L("x")>>, <<L("x"), L("y")>>}, i2 \in {<<>>, <<L("y")>>}, i3 \in {<<>>, <<L("x")>>},
        b1 \in {Absent, T2, T3}, b2 \in {Absent, T1, T3, <<"x", "simple">>, <<"", "unknown">>},
        b3 \in {Absent, T1, T2}}

-----------------------------------------------------------------------------
(* Content models.                                                          *)

With(node, attrs) == [node EXCEPT !.attrs = attrs @@ @]
OptionalNode(node) == With(node, "minOccurs" :> 0)
Ref(tag, q) == Xs(tag, "ref" :> q, <<>>)
Wildcard == Xs("any", None, <<>>)

Parts == {Elt("a"), OptionalNode(Elt("b")), Ref("element", <<"t", "g">>), OptionalNode(Wildcard)}
Lists == {<<>>} \cup {<<p>> : p \in Parts} \cup {<<p, q>> : p, q \in Parts}
(* A choice is one between different children.                              *)
ChoiceContents == {Compositor("choice", list) : list \in {<<>>} \cup {<<p, q>> : p, q \in Parts}} \
                      {Compositor("choice", <<p, p>>) : p \in Parts}
(* Lists in which a particle is demanded that need not be there, or the     *)
(* other way round, each beside an element that is treated as it should be. *)
OddParts ==
    LET pair == <<Elt("a"), Elt("b")>>
    IN  {Wildcard, Compositor("sequence", pair), OptionalNode(Compositor("sequence", pair)),
         Compositor("choice", pair), Compositor("choice", <<Elt("a")>>), Ref("group", <<"t", "gr">>),
         OptionalNode(Ref("element", <<"t", "g">>))}
OddContents ==
    {Compositor(tag, <<Elt("k"), p>>) : tag \in {"sequence", "choice"}, p \in OddParts}
    \cup {Compositor("choice", <<p>>) : p \in Parts} \cup {Ref("group", <<"t", "gr">>)}
    \cup {OptionalNode(Compositor(tag, <<Elt("k")>>)) : tag \in {"sequence", "all", "choice"}}
Contents ==
    ChoiceContents \cup OddContents \cup {Compositor(tag, list) : tag \in {"sequence", "all"}, list \in Lists}

(* The element req has the content, in a named or an anonymous type, as it  *)
(* is or derived from a base.                                               *)
Requests(content) ==
    LET base == <<"t", "base">>
        contents == {<<content>>, <<Derivation("restriction", base, <<content>>)>>,
                     <<Derivation("extension", base, <<content>>)>>}
    IN  {<<ComplexType(Named("type"), c), With(Elt("req"), "type" :> <<"t", "type">>)>> : c \in contents}
        \cup {<<Xs("element", Named("req"), <<ComplexType(None, c)>>)>> : c \in contents}

Group == Xs("group", Named("gr"), <<Compositor("sequence", <<Elt("in")>>)>>)
RequestDocument(decls) ==
    At("r") :> Document(<<Schema("T", <<Elt("g"), Extender("base", Absent), Group>> \o decls)>>)

ContentWorlds == {RequestDocument(d) : d \in UNION {Requests(c) : c \in Contents}}

-----------------------------------------------------------------------------
(* The rest of the two parsers, and what they refuse.                       *)

Text(tag) == Node("text", tag, None, <<>>)
Annotation(text) == Xs("annotation", None, <<Xs("documentation", None, <<Text(text)>>)>>)
Defaulted(value) == With(Elt("g"), "default" :> value)
Body(attrs) == Node("soap11", "body", attrs, <<>>)
Header(message) == Node("soap11", "header", ("message" :> message) @@ ("part" :> "h"), <<>>)
OpMessage(tag, attrs) == Wsdl(tag, ("message" :> <<"t", "m">>) @@ attrs, <<>>)

(* A binding and the port type it is for, with every part there may be.     *)
FullWsdl(version, style, header) ==
    Definition(
      <<Types(<<Schema("T", <<Elt("g")>>)>>),
        Wsdl("message", Named("m"),
             <<Wsdl("part", Named("p") @@ ("element" :> <<"t", "g">>) @@ ("type" :> <<"", "u">>), <<>>)>>),
        Wsdl("portType", Named("p"),
             <<Wsdl("operation", Named("o"),
                    <<OpMessage("input", None), OpMessage("output", None),
                      OpMessage("fault", Named("f"))>>),
               Wsdl("operation", Named("n"), <<OpMessage("output", None)>>),
               Wsdl("operation", Named("one"), <<OpMessage("input", None)>>)>>),
        Wsdl("binding", Named("b") @@ ("type" :> <<"t", "p">>),
             <<Node(version, "binding", "style" :> style, <<>>),
               Wsdl("operation", Named("o"),
                    <<Node(version, "operation", "soapAction" :> "act", <<>>),
                      Wsdl("input", None, <<Header(header), Body("namespace" :> "N")>>),
                      Wsdl("output", None, <<Body(None)>>)>>)>>),
        Service("s", "p")>>)

(* A schema with groups, attribute groups, an include and simple content.   *)
RichSchema ==
    Schema("T",
      <<Xs("include", "schemaLocation" :> <<".", "i">>, <<>>), Import(L("i")), Annotation("plain"), Elt("g"),
        Xs("group", Named("gr"), <<Compositor("sequence", <<Elt("in"), Ref("element", <<"t", "g">>)>>)>>),
        Xs("attributeGroup", Named("ag"),
           <<Xs("attribute", Named("at") @@ ("use" :> "required"), <<>>),
             Ref("attributeGroup", <<"t", "ag2">>)>>),
        Xs("attributeGroup", Named("ag2"), <<Xs("attribute", Named("at2"), <<>>)>>),
        ComplexType(Named("rich"),
           <<Compositor("sequence", <<Ref("element", <<"t", "gr">>), Ref("element", <<"t", "none">>)>>),
             Ref("attributeGroup", <<"t", "ag">>), Xs("attribute", Named("own"), <<>>)>>),
        ComplexType(Named("empty"), <<>>),
        ComplexType(Named("text"), <<Xs("simpleContent", None, <<Xs("extension", "base" :> <<"", "s">>, <<>>)>>)>>),
        Xs("element", Named("simple"), <<Xs("simpleType", None, <<>>)>>)>>)

OddWorlds ==
    {At("r") :> FullWsdl(v, s, h) : v \in {"soap11", "soap12"}, s \in {"rpc", "document"},
                                h \in {<<"t", "m">>, <<"nowhere", "m">>}}
    \cup {(At("r") :> Document(<<RichSchema>>)) @@ (At("i") :> Schema("T", <<Extender("inc", Absent)>>))}
    \cup {At("r") :> Document(<<Schema("T", <<Annotation("markup")>>)>>),
          At("r") :> Document(<<Schema("T", <<Defaulted("markup")>>)>>),
          At("r") :> Document(<<Schema("T", <<Defaulted("plain")>>)>>),
          (At("r") :> Document(<<Schema("T", <<Import(L("x"))>>)>>))
            @@ (At("x") :> Schema("X", <<Annotation("markup"), Defaulted("markup")>>)),
          At("r") :> Xs("schema", "scope" :> Scope, <<>>),
          At("r") :> Definition(<<Wsdl("service", None, <<>>)>>),
          (At("r") :> Document(<<Schema("T", <<Import(L("x"))>>)>>)) @@ (At("x") :> Malformed),
          (At("r") :> Definition(<<WsdlImport(L("b"))>>)) @@ (At("b") :> Malformed),
          (At("r") :> Definition(<<WsdlImport(L("b"))>>)) @@ (At("b") :> Document(<<Schema("T", <<Annotation("markup")>>)>>))}

MCWorlds == ImportWorlds \cup ExtensionWorlds \cup ContentWorlds \cup OddWorlds

-----------------------------------------------------------------------------
(* Choices, as a whole and inside a sequence; a wildcard to be filled.      *)
NestedChoice == Compositor("sequence", <<Elt("k"), Compositor("choice", <<Elt("a"), Elt("b")>>)>>)
ChoiceWorlds == {RequestDocument(d) : d \in Requests(NestedChoice)}
                  \cup {RequestDocument(d) : d \in UNION {Requests(c) : c \in ChoiceContents}}
WildcardWorlds == {RequestDocument(d) : d \in Requests(Compositor("sequence", <<Elt("k"), Wildcard>>))}

(* Two inline schemas that use one file: of the second, t1 extends what the *)
(* file has.                                                                *)
SharedWorlds ==
    {(At("r") :> Document(<<Schema("S", Each(first, Import)),
                        Schema("T", Each(second, Import) \o <<Extender("t1", T2)>>)>>))
       @@ (At("x") :> Schema("X", Each(third, Import) \o <<Extender("t2", base)>>))
       @@ (At("y") :> Schema("Y", <<Extender("t3", Absent)>>)) :
        first \in {<<>>, <<L("x")>>, <<L("y")>>}, second \in {<<L("x")>>, <<L("x"), L("y")>>},
        third \in {<<>>, <<L("y")>>}, base \in {Absent, T3}}
=============================================================================
