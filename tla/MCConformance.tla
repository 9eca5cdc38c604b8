---------------------------- MODULE MCConformance ----------------------------
(* Worlds for Conformance.  In a world of documents one scenario meets       *)
(* every pair of responses, once; in a world of runs a few scenarios, a      *)
(* client and the store go through two runs and a kill.                      *)
EXTENDS Conformance

Service == INSTANCE Answers

Ns == "urn:weather"
M == "m" :> Ns

(* What the schemas of the oracle ask for: an envelope of the version; a     *)
(* Reply with a city that is not empty, all in one namespace; a definition.  *)
EnvelopeShape(canon, ns) ==
    /\ canon[1].ns = ns /\ canon[1].local = "Envelope"
    /\ canon[2].kind = "start" /\ canon[2].ns = ns /\ canon[2].local \in {"Header", "Body"}

ReplyShape(canon) ==
    /\ \A i \in DOMAIN canon : Tag(canon[i]) => canon[i].ns = Ns
    /\ canon[1].local = "Reply"
    /\ \A i \in DOMAIN canon : Tag(canon[i]) /\ canon[i].local = "city" =>
           canon[i + 1].kind = "chars" /\ canon[i + 1].value # <<>>

MCSchemaAccepts(schema, canon) ==
    CASE schema \in {"1.1", "1.2"} -> EnvelopeShape(canon, Service!EnvelopeNs(schema))
      [] schema = "controlled" -> ReplyShape(canon)
      [] schema = "wsdl11" -> canon[1].local = "definitions"

-----------------------------------------------------------------------------
(* Replies.                                                                  *)

Plain(local, kids) == Elem("", local, <<>>, NoAttrs, kids)
City(prefix, kids) == Elem(prefix, "city", <<>>, NoAttrs, kids)
Reply(prefix, declares, kids) == Elem(prefix, "Reply", declares, NoAttrs, kids)
CData(value) == [kind |-> "cdata", value |-> value]
Ref(c) == [kind |-> "ref", value |-> <<c>>]
Comment == [kind |-> "other", value |-> <<"comment">>]

Envelope(prefix, declares, version, parts) ==
    Elem(prefix, "Envelope", (prefix :> Service!EnvelopeNs(version)) @@ declares, NoAttrs, parts)
Body1(prefix, kids) == Elem(prefix, "Body", <<>>, NoAttrs, kids)
InEnvelope(version, kids) == Envelope("S", <<>>, version, <<Body1("S", kids)>>)

OurReply(value) == Reply("m", M, <<City("m", Service!EscapeText(value))>>)
OurDocument(value, version) == Service!SerializeEnvelope(OurReply(value), version)

Answer(status, tree) == [status |-> status, tree |-> tree, cut |-> "whole"]
Cut(status, tree) == {[status |-> status, tree |-> tree, cut |-> c] : c \in {"open", "mismatch"}}

Said == <<"R", "&", "D">>

OurReplies(version) ==
    {Answer(200, OurDocument(Said, version)), Answer(200, OurDocument(<<"&">>, version)),
     Answer(200, Service!SerializeEnvelope(Plain("Reply", <<>>), version)),
     Answer(500, Service!ToXmlBytes(Service!Receiver(<<"x">>), version))}
        \cup Cut(200, OurDocument(Said, version))

(* The same said otherwise, and something else said.                         *)
CxfReplies(version) ==
    LET in(kids) == InEnvelope(version, kids)
        city(kids) == in(<<Reply("p", "p" :> Ns, <<City("p", kids)>>)>>)
    IN  {Answer(200, t) : t \in {
            city(<<Text(<<"R">>), Ref("&"), Text(<<"D">>)>>),
            city(<<CData(Said)>>),
            city(<<Text(<<"R">>), Comment, CData(<<"&", "D">>)>>),
            city(<<Ref("&")>>),
            city(<<Text(<<"R", "D">>)>>),
            in(<<Reply("", "" :> Ns, <<City("", <<CData(Said)>>)>>)>>),
            in(<<Reply("p", "p" :> Ns, <<Elem("p", "city", "p" :> "urn:other", NoAttrs, <<CData(Said)>>)>>)>>),
            in(<<Reply("p", "p" :> Ns, <<Elem("q", "city", "q" :> "urn:other", NoAttrs, <<>>),
                                         City("q", <<CData(Said)>>)>>)>>),
            Envelope("S", M, version, <<Body1("S", <<Reply("m", <<>>, <<City("m", <<CData(Said)>>)>>)>>)>>),
            Envelope("S", <<>>, version, <<AsEmptyTag(Elem("S", "Header", <<>>, NoAttrs, <<>>)),
                                           Body1("S", <<Reply("p", "p" :> Ns, <<City("p", <<CData(Said)>>)>>)>>)>>)}}
        \cup Cut(200, city(<<CData(Said)>>))

(* Two elements with one prefix, for one namespace or for two; the second    *)
(* may leave it to the element around both.                                  *)
Shadowing ==
    LET city(declared) == Elem("p", "city", IF declared = "" THEN <<>> ELSE "p" :> declared, NoAttrs, <<Text(<<"a">>)>>)
    IN  {Service!SerializeEnvelope(Reply("m", M @@ ("p" :> "urn:other"), <<city(first), city(second)>>), "1.2") :
            first \in {Ns, "urn:other"}, second \in {Ns, "urn:other", ""}}
Shadowed == {Answer(200, t) : t \in Shadowing}

(* Replies with an attribute, and a prefix for each side.                    *)
WithUnit(prefix, value) ==
    InEnvelope("1.2", <<Reply(prefix, prefix :> Ns,
        <<Elem(prefix, "city", <<>>, <<prefix, "unit">> :> value, <<Text(<<"a">>)>>)>>)>>)
Literally == {<<"it", "'", "s">>, <<"amp;">>, <<"'">>, <<"its">>}
Referring == {<<"it", "&apos;", "s">>, <<"it", "&#39;", "s">>, <<"&amp;", "amp;">>, <<"&amp;">>, <<"&quot;">>}
Units(prefix, values) == {Answer(200, WithUnit(prefix, v)) : v \in values}

-----------------------------------------------------------------------------
(* Faults.                                                                   *)

Reason(lang, kids) ==
    Elem("S", "Text", <<>>, IF lang = "" THEN NoAttrs ELSE <<"xml", "lang">> :> <<lang>>, kids)

CxfFault12(code, reasons, more) ==
    LET S(local, kids) == Elem("S", local, <<>>, NoAttrs, kids) IN
    InEnvelope("1.2", <<S("Fault", <<S("Code", <<S("Value", <<Text(code)>>)>>), S("Reason", reasons)>> \o more)>>)

CxfFault11(code, string, more) ==
    InEnvelope("1.1", <<Elem("S", "Fault", <<>>, NoAttrs,
        <<Plain("faultcode", <<Text(code)>>), Plain("faultstring", string)>> \o more)>>)

RawDetail(kids) == <<Elem("d", "error", "d" :> "urn:d", NoAttrs, kids)>>

OurFaults(version) ==
    {Answer(status, Service!ToXmlBytes(f, version)) :
        status \in {400, 500},
        f \in {Service!Sender(<<"no", "<">>),
               Service!Receiver(<<"no">>),
               Service!New("Sender", <<"no">>, <<Said>>),
               Service!WithDetailXml(Service!Sender(<<"no", "<">>), RawDetail(<<Text(<<"a">>)>>))}}
        \cup {Answer(200, OurDocument(Said, version))}

CxfFaults12 ==
    LET code == <<"env", ":", "Sender">>
        S(local, kids) == Elem("S", local, <<>>, NoAttrs, kids)
        why == <<Reason("de", <<Text(<<"nein">>)>>)>>
    IN  {Answer(500, t) : t \in {
            CxfFault12(code, why, <<>>),
            CxfFault12(code, <<Reason("", <<Text(<<"a">>), Comment, Ref("<"), CData(<<"b">>)>>)>>, <<>>),
            CxfFault12(code, <<Reason("en", <<Ref("<")>>)>>, <<>>),
            CxfFault12(<<"S", ":", "Sender">>, why, <<>>),
            CxfFault12(<<"env", ":", "Receiver">>, why, <<>>),
            CxfFault12(code, why, <<S("Detail", RawDetail(<<CData(<<"a">>)>>))>>),
            CxfFault12(code, why, <<S("Detail", RawDetail(<<AsEmptyTag(Plain("a", <<>>))>>))>>),
            CxfFault12(code, <<Reason("en", <<Text(<<"a">>)>>), Reason("de", <<CData(<<"b">>)>>)>>, <<>>)}}

CxfFaults11 ==
    LET code == <<"SOAP-ENV", ":", "Client">>
        why == <<Text(<<"nein">>)>>
    IN  {Answer(500, t) : t \in {
            CxfFault11(code, why, <<>>),
            CxfFault11(code, <<>>, <<>>),
            CxfFault11(<<"SOAP-ENV", ":", "Server">>, why, <<>>),
            CxfFault11(code, why, <<Plain("detail", <<CData(Said)>>)>>),
            CxfFault11(code, why, <<Plain("detail", RawDetail(<<Text(<<"a">>)>>))>>)}}

-----------------------------------------------------------------------------
(* WSDLs.  A service is the ports of which it consists; the addresses        *)
(* outside it, and the documentation inside it, are to stay as they are.     *)

Attr(local) == <<"", local>>
Address(host, path) == AsEmptyTag(Elem("soap", "address", <<>>, Attr("location") :> <<host, path>>, <<>>))
OpenAddress(host, path) == [Address(host, path) EXCEPT !.closed = FALSE]
Port(name, kids) == Elem("", "port", <<>>, Attr("name") :> <<name>>, kids)
ServiceOf(name, ports) == Elem("", "service", <<>>, Attr("name") :> <<name>>, ports)
Documentation(kids) == Plain("documentation", kids)
Wsdl(kids) == Elem("", "definitions", ("" :> "urn:wsdl") @@ ("soap" :> "urn:soap"), NoAttrs, kids)
Decoy(path) == Documentation(<<Port("decoy", <<Address("old", path)>>)>>)

PortsAt(path, names) == {
    <<Port(names[1], <<Address("old", path)>>)>>,
    <<Port(names[1], <<Documentation(<<Plain("b", <<>>)>>), OpenAddress("old", path)>>),
      AsEmptyTag(Port(names[2], <<>>)),
      Port(names[3], <<Address("old", path), Documentation(<<>>)>>)>> }

(* A second port elsewhere.                                                  *)
PortsAtTwo(path, later, names) ==
    <<Port(names[1], <<Address("old", path)>>), Port(names[2], <<Address("old", later)>>)>>

SingleSites ==
    {[wsdl |-> Wsdl(<<Decoy("/decoy"), ServiceOf("WeatherService", ports)>>), mount |-> "/soap",
      lowerCase |-> <<>>, order |-> <<"WeatherService">>] :
        ports \in PortsAt("/old", <<"w1", "w2", "w3">>) \cup {PortsAtTwo("/old", "/other", <<"w1", "w2">>)}}

(* Service A has the route the scenario asks for.  Service B is written      *)
(* before or after it, and may have no port, one with no address, or the     *)
(* path of A.                                                                *)
MultiSite(kids, order) ==
    [wsdl |-> Wsdl(kids), mount |-> "/soap",
     lowerCase |-> ("ServiceA" :> "/servicea") @@ ("ServiceB" :> "/serviceb"), order |-> order]

MultiSites ==
    LET a(ports) == ServiceOf("ServiceA", ports)
        b(ports) == ServiceOf("ServiceB", ports)
        order == <<"ServiceA", "ServiceB">>
        as == <<"a1", "a2", "a3">>
        bs == <<"b1", "b2", "b3">>
        portsOfA == PortsAt("/soap/a", as) \cup {PortsAtTwo("/soap/a", later, as) : later \in {"/soap/a2", "/soap/b"}}
        portsOfB == PortsAt("/soap/b", bs) \cup {PortsAtTwo("/soap/b", later, bs) : later \in {"/soap/b2", "/soap/a"}}
                    \cup {<<>>, <<Port("b1", <<>>), Port("b2", <<Address("old", "/soap/b")>>)>>}
        shared == {<<a(pa), b(pb)>> : pa \in portsOfA, pb \in PortsAt("/soap/a", bs)}
    IN  UNION {{MultiSite(<<a(pa)>> \o between \o <<b(pb), Decoy("/decoy")>>, order),
                MultiSite(<<b(pb)>> \o between \o <<a(pa)>>, order)} :
                   pa \in portsOfA, pb \in portsOfB, between \in {<<>>, <<Decoy("/soap/a")>>}}
        \cup {MultiSite(kids, o) : kids \in shared, o \in {order, Reverse(order)}}

-----------------------------------------------------------------------------
(* Worlds.                                                                   *)

ScenarioNamed(name, kind, version, outcome) ==
    [name |-> name, kind |-> kind, version |-> version, outcome |-> outcome,
     status |-> IF outcome = "fault" THEN 500 ELSE 200, code |-> "none", detail |-> "none",
     files |-> TRUE, token |-> FALSE, path |-> "/soap"]

Options(promote, keepUp, filter, interop) ==
    [promote |-> promote, keepUp |-> keepUp, filter |-> filter, interop |-> interop]

MCRefused == Answer(500, Service!ToXmlBytes(Service!Sender(<<"replay">>), "1.2"))

OneScenario(sc) ==
    [scenarios |-> <<sc>>, clients |-> <<>>, options |-> {Options(FALSE, FALSE, Missing, FALSE)},
     replays |-> {TRUE}, bounds |-> [runs |-> 1, kills |-> 0]]

Faulty(version, code, detail) ==
    [ScenarioNamed("f", "diff", version, "fault") EXCEPT !.code = code, !.detail = detail]
OfWsdl(path) == [ScenarioNamed("x", "wsdl", "1.1", "success") EXCEPT !.path = path]

Documents ==
    ("replies 1.1" :> ScenarioNamed("r", "diff", "1.1", "success"))
    @@ ("replies 1.2" :> ScenarioNamed("r", "diff", "1.2", "success"))
    @@ ("shadowing" :> ScenarioNamed("s", "diff", "1.2", "success"))
    @@ ("attributes" :> ScenarioNamed("a", "diff", "1.2", "success"))
    @@ ("faults 1.2" :> Faulty("1.2", "Sender", "none"))
    @@ ("detail" :> Faulty("1.2", "Sender", "raw_xml_child"))
    @@ ("faults 1.1" :> Faulty("1.1", "Client", "none"))
    @@ ("wssec" :> ScenarioNamed("w", "wssec", "1.2", "success"))
    @@ ("wssec fault" :> ScenarioNamed("v", "wssec", "1.2", "fault"))
    @@ ("wsdl" :> OfWsdl("/soap")) @@ ("wsdls" :> OfWsdl("/soap/a"))

DocumentResponses(w) ==
    LET v == Documents[w].version IN
    CASE w \in {"replies 1.1", "replies 1.2", "wssec"} -> [our |-> OurReplies(v), cxf |-> CxfReplies(v)]
      [] w = "shadowing" -> [our |-> Shadowed, cxf |-> Shadowed]
      [] w = "attributes" -> [our |-> Units("m", Literally \cup Referring), cxf |-> Units("p", Literally \cup Referring)]
      [] w \in {"faults 1.2", "detail"} -> [our |-> OurFaults(v), cxf |-> CxfFaults12]
      [] w = "faults 1.1" -> [our |-> OurFaults(v), cxf |-> CxfFaults11]
      [] w = "wssec fault" -> [our |-> {r \in OurFaults(v) : r.status # 400},
                               cxf |-> CxfFaults12 \cup Cut(500, InEnvelope(v, <<>>))]
      [] w = "wsdl" -> SingleSites
      [] w = "wsdls" -> MultiSites

(* A token scenario, one of plain requests, and a client.                    *)
Token == [ScenarioNamed("t", "wssec", "1.2", "success") EXCEPT !.token = TRUE]
Simple(files) == [ScenarioNamed("d", "diff", "1.2", "success") EXCEPT !.files = files]
Good == Answer(200, OurDocument(<<"a">>, "1.2"))
Other == Answer(200, OurDocument(<<"b">>, "1.2"))

Output(exit, xml) == [exit |-> exit, xml |-> xml, tree |-> IF xml THEN Good.tree ELSE Text(<<"ok">>)]

RunResponses ==
    ("t" :> [our |-> {Good}, cxf |-> {Good}]) @@ ("d" :> [our |-> {Good, Other}, cxf |-> {Good}])
    @@ ("zeep" :> {Output(0, FALSE), Output(1, FALSE), Output(125, FALSE), Output(0, TRUE)})

RunWorld(scenarios, clients, opts, replays, runs, kills) ==
    [scenarios |-> scenarios, clients |-> clients, options |-> opts, replays |-> replays,
     bounds |-> [runs |-> runs, kills |-> kills]]

RunWorlds ==
    ("tokens" :> RunWorld(<<Token>>, <<>>, {Options(p, k, Missing, FALSE) : p \in BOOLEAN, k \in BOOLEAN}, {}, 2, 1))
    @@ ("replays" :> RunWorld(<<Simple(TRUE)>>, <<>>, {Options(TRUE, FALSE, Missing, FALSE)}, BOOLEAN, 3, 1))
    @@ ("clients" :> RunWorld(<<Simple(TRUE), Token>>, <<"zeep">>,
                              {Options(TRUE, FALSE, f, i) : f \in {{"d"}, {"none of them"}}, i \in BOOLEAN}, {TRUE}, 2, 0))
    @@ ("no files" :> RunWorld(<<Simple(FALSE)>>, <<"zeep">>, {Options(TRUE, TRUE, Missing, TRUE)}, {}, 1, 0))

MCWorlds == [w \in DOMAIN Documents |-> OneScenario(Documents[w])] @@ RunWorlds

(* Replies with attributes, and WSDLs of two services, alone.                *)
AttributeWorlds == "attributes" :> OneScenario(Documents["attributes"])
PortWorlds == "wsdls" :> OneScenario(Documents["wsdls"])

(* A capture that is cut off, and the summary after it.                      *)
ClaimWorlds ==
    "claim" :> RunWorld(<<Simple(TRUE), Token>>, <<>>, {Options(TRUE, FALSE, {"d"}, FALSE)}, {TRUE}, 2, 1)

MCResponses ==
    [w \in DOMAIN Documents |-> Documents[w].name :> DocumentResponses(w)]
    @@ [w \in DOMAIN RunWorlds \cup DOMAIN ClaimWorlds |-> RunResponses]
=============================================================================
