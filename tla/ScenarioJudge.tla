---------------------------- MODULE ScenarioJudge ----------------------------
(***************************************************************************)
(* What crossref/src/layer2/mod.rs reads out of the responses in a         *)
(* scenario before it judges them: the masks, the body's child, the code   *)
(* and the detail of a fault, the addresses of a WSDL.                     *)
(*                                                                         *)
(* A scenario is                                                           *)
(*   [kind, version, outcome, status, code, detail, ...]                   *)
(* with kind "diff" (run_scenario), "wssec" or "wsdl", and code and detail *)
(* "none" where there is no [fault] block.  A response is [status, body],  *)
(* its body the events of a document.                                      *)
(***************************************************************************)
EXTENDS Normalizer

(* Whether the documents of a schema include one, given in canonical form. *)
CONSTANT SchemaAccepts(_, _)

-----------------------------------------------------------------------------
(* The text of a fault, which is not asserted.                             *)
FaultText(version) ==
    <<"Envelope", "Body", "Fault">>
        \o (IF version = "1.1" THEN <<"faultstring">> ELSE <<"Reason", "Text">>)

TextMasks(sc) == IF sc.outcome = "fault" \/ sc.kind = "wssec" THEN {FaultText(sc.version)} ELSE {}
AttrMasks(sc) == {<<path, <<"xml", "lang">>>> : path \in TextMasks(sc)}
DropPaths(sc) == IF sc.kind = "wssec" THEN {<<"Envelope", "Header">>} ELSE {}

(* mask_only drops nothing.                                                *)
Masked(sc, body) == MaskOnlyWithDrops(body, TextMasks(sc), AttrMasks(sc), DropPaths(sc))

(* The oracle reads namespaces before it validates; what it cannot read is *)
(* not valid.                                                              *)
OracleValid(body, schema) ==
    LET read == OracleC14n(CanonicalizePrefixes(body))
    IN  read # Failed /\ SchemaAccepts(schema, read)

-----------------------------------------------------------------------------
(* extract_body_child: Some(its events), as a sequence of at most one.     *)
(* Entity references and CDATA are not copied, nor what is declared        *)
(* further out.                                                            *)
BodyChild(body) ==
    LET Step(s, e) ==
            CASE s.done -> s
              [] ~s.done /\ e.kind = "start" ->
                     IF s.inBody THEN [Written(s, e) EXCEPT !.depth = @ + 1]
                     ELSE [s EXCEPT !.inBody = e.local = "Body"]
              [] ~s.done /\ e.kind = "empty" ->
                     IF s.inBody THEN [Written(s, e) EXCEPT !.done = s.depth = 0] ELSE s
              [] ~s.done /\ e.kind = "end" /\ s.depth > 0 ->
                     [Written(s, e) EXCEPT !.depth = @ - 1, !.done = s.depth = 1]
              [] ~s.done /\ e.kind = "text" /\ s.depth > 0 -> Written(s, e)
              [] OTHER -> s
        end == Loop(Step, [out |-> <<>>, inBody |-> FALSE, depth |-> 0, done |-> FALSE],
                        ReadableEvents(body))
    IN  IF end.done THEN <<end.out>> ELSE <<>>

(* The body child counts for what is to succeed only.                      *)
ChildValid(sc, body) ==
    \/ sc.outcome = "fault"
    \/ \E i \in DOMAIN BodyChild(body) : OracleValid(BodyChild(body)[i], "controlled")

ResponseValid(sc, body) ==
    OracleValid(body, sc.version) /\ (sc.kind = "diff" => ChildValid(sc, body))

(* A code without its prefix.                                              *)
LocalPart(text) ==
    LET colon == SelectLastInSeq(text, LAMBDA c : c = ":")
    IN  SubSeq(text, colon + 1, Len(text))

(* enforce_fault_code: the first Value inside a Code, or the first         *)
(* faultcode.  A code that cannot be found is not held against the server. *)
CodeMatches(body, declared, version) ==
    LET target == IF version = "1.1" THEN "faultcode" ELSE "Value"
        Step(s, e) ==
            CASE s.done -> s
              [] ~s.done /\ e.kind = "start" ->
                     IF e.local = target /\ (version = "1.1" \/ s.inCode)
                     THEN [s EXCEPT !.inValue = TRUE, !.text = <<>>]
                     ELSE [s EXCEPT !.inCode = @ \/ e.local = "Code"]
              [] ~s.done /\ e.kind = "text" -> IF s.inValue THEN [s EXCEPT !.text = @ \o e.value] ELSE s
              [] ~s.done /\ e.kind = "end" ->
                     [s EXCEPT !.done = s.inValue /\ e.local = target,
                               !.inCode = @ /\ e.local # "Code"]
              [] OTHER -> s
        end == Loop(Step, [done |-> FALSE, inCode |-> FALSE, inValue |-> FALSE, text |-> <<>>],
                        ReadableEvents(body))
    IN  end.done => LocalPart(end.text) = <<declared>>

(* enforce_raw_xml_child_detail: an element was opened inside a Detail.    *)
(* Escaped markup comes as references, so a text never begins with "<".    *)
HasRawChild(body) ==
    LET Step(s, e) ==
            CASE e.kind = "start" ->
                     IF e.local = "Detail" THEN [s EXCEPT !.inDetail = TRUE]
                     ELSE [s EXCEPT !.found = @ \/ s.inDetail]
              [] e.kind = "end" /\ e.local = "Detail" -> [s EXCEPT !.inDetail = FALSE]
              [] OTHER -> s
    IN  Loop(Step, [inDetail |-> FALSE, found |-> FALSE], ReadableEvents(body)).found

-----------------------------------------------------------------------------
(* What a fault scenario declares of our fault.                            *)
FaultAsDeclared(sc, body) ==
    sc.outcome = "fault" /\ sc.code # "none" =>
        /\ CodeMatches(body, sc.code, sc.version)
        /\ sc.detail = "raw_xml_child" => HasRawChild(body)

-----------------------------------------------------------------------------
(* extract_soap_addresses: the locations under a service, each with the    *)
(* name of the service last opened.                                        *)
SoapAddresses(body) ==
    LET name == <<"", "name">>
        location == <<"", "location">>
        Step(s, e) ==
            CASE Tag(e) /\ e.local = "service" ->
                     [s EXCEPT !.inService = TRUE,
                               !.service = IF name \in DOMAIN e.attrs THEN e.attrs[name] ELSE @]
              [] Tag(e) /\ e.local = "address" ->
                     IF s.inService /\ location \in DOMAIN e.attrs /\ s.service # <<>>
                     THEN [s EXCEPT !.found = Append(@, <<s.service[1], e.attrs[location]>>)] ELSE s
              [] e.kind = "end" /\ e.local = "service" -> [s EXCEPT !.inService = FALSE, !.service = <<>>]
              [] OTHER -> s
    IN  Loop(Step, [inService |-> FALSE, service |-> <<>>, found |-> <<>>], body).found

SingleRewriteHolds(addresses, host) ==
    addresses # <<>> /\ \A i \in DOMAIN addresses : addresses[i][2][1] = host

(* A service goes by the letter in its name.                               *)
MultiRewriteHolds(addresses, host) ==
    LET of(service) == {addresses[i][2] : i \in {j \in DOMAIN addresses : addresses[j][1] = service}}
    IN  /\ of("ServiceA") # {} /\ of("ServiceA") \subseteq {<<host, "/soap/a">>}
        /\ of("ServiceB") # {} /\ \A url \in of("ServiceB") : url[2] = "/soap/b"

WsdlAsRewritten(sc, body, host) ==
    LET addresses == SoapAddresses(body) IN
    /\ OracleValid(body, "wsdl11") /\ ~ReadError(body)
    /\ IF sc.path = "/soap" THEN SingleRewriteHolds(addresses, host)
       ELSE MultiRewriteHolds(addresses, host)

=============================================================================
