----------------------------- MODULE Conformance -----------------------------
(***************************************************************************)
(* What the harness (Harness) reads out of the documents it is sent, and   *)
(* what its verdicts and the store then say of these documents.            *)
(***************************************************************************)
EXTENDS ScenarioJudge, Harness

Serving == INSTANCE WsdlServing

Body(r) ==
    CASE r.cut = "whole" -> Events(r.tree)
      [] r.cut = "open" -> BrokenOff(Events(r.tree))
      [] r.cut = "mismatch" -> WrongEnd(Events(r.tree))

(* What the judge sees of a response.                                      *)
LookedAt(sc, r) ==
    LET body  == Body(r)
        canon == OracleC14n(Masked(sc, body))
    IN  [status |-> r.status, valid |-> ResponseValid(sc, body), asDeclared |-> FaultAsDeclared(sc, body),
         canon |-> canon, canonicalized |-> canon # Failed]

OurHost == "localhost:8080"

Fetch(site, path, headers) == Serving!GetWsdl(site, path, TRUE, headers)
FetchAtHost(site, path) == Fetch(site, path, "host" :> OurHost)

WsdlHolds(sc, body) == WsdlAsRewritten(sc, body, OurHost)

(* What an output is kept as: canonical if it is XML the oracle takes, as  *)
(* it is otherwise.                                                        *)
Evidence(output) ==
    {Events(output.tree)} \cup IF output.xml THEN {OracleC14n(Events(output.tree))} \ {Failed} ELSE {}

HasFault(events) == \E i \in DOMAIN events : Tag(events[i]) /\ events[i].local = "Fault"

(* The in-process server is asked without a Host header.                   *)
Replay(sc, answer) ==
    IF sc.kind = "wsdl" THEN Fetch(answer, sc.path, <<>>)
    ELSE [status |-> answer.status, body |-> Body(answer)]

(* default_masks() is empty.                                               *)
Snapshot(sc, answer) ==
    LET r == Replay(sc, answer)
        normalized == Normalize(r.body, {})
    IN  IF \/ r.status # sc.status \/ normalized = Failed
           \/ sc.outcome = "fault" /\ ~HasFault(normalized)
        THEN Missing ELSE normalized

-----------------------------------------------------------------------------
(* What the documents of the two sides say, masks apart.                   *)

Tree(side) == job.responses[side].tree
OurBody == Body(job.responses["our"])
Masks == [text |-> TextMasks(Scenario), attr |-> AttrMasks(Scenario), drop |-> DropPaths(Scenario)]
Whole == \A side \in Sides : job.responses[side].cut = "whole"
SayTheSame ==
    LET said == [side \in Sides |-> Meaning(<<Tree(side)>>, RootScope, <<>>, Masks)]
    IN  said["our"] = said["cxf"]

Judged == step \in {"evidence", "done"} /\ phase = "running"
JudgedDocuments == Judged /\ Scenario.kind # "wsdl"
JudgedWsdl == Judged /\ Scenario.kind = "wsdl"

(* The text at a path of a tree, as a sequence of tokens.                  *)
RECURSIVE TextsAt(_, _)
TextsAt(nodes, path) ==
    IF nodes = <<>> THEN <<>>
    ELSE LET node == Head(nodes)
             own == CASE Chars(node) -> IF path = <<>> THEN node.value ELSE <<>>
                      [] node.kind = "elem" /\ path # <<>> /\ node.local = path[1] ->
                             TextsAt(node.kids, Tail(path))
                      [] OTHER -> <<>>
         IN  own \o TextsAt(Tail(nodes), path)

CodeText ==
    TextsAt(<<Tree("our")>>, <<"Envelope", "Body", "Fault">> \o
        (IF Scenario.version = "1.1" THEN <<"faultcode">> ELSE <<"Code", "Value">>))

(* A scenario passes only if our response is as the scenario declares and, *)
(* where the bodies are compared, says what the reference's says: no mask, *)
(* no rewriting of prefixes and no dropped header hides a difference       *)
(* (run_scenario, run_wssec_scenario, normalize.rs).                       *)
PassIsAgreement ==
    JudgedDocuments /\ job.verdict = "Pass" =>
        /\ Whole
        /\ Scenario.kind = "diff" \/ Scenario.outcome = "success" => SayTheSame
        /\ job.responses["our"].status = Scenario.status
        /\ Scenario.code # "none" => Last(CodeText) = Scenario.code

(* What may be held against our server.                                   *)
DifferenceFound ==
    \/ job.responses["our"].status # Scenario.status
    \/ ~job.valid["our"]
    \/ Scenario.code # "none" /\ Last(CodeText) # Scenario.code
    \/ Scenario.detail = "raw_xml_child" /\ ~HasRawChild(OurBody)
    \/ ~SayTheSame

Failure ==
    /\ JudgedDocuments /\ Scenario.kind = "diff" /\ job.verdict = "SutFail"
    /\ \A side \in Sides : MaskedHaveText(Tree(side), <<>>, Masks)

(* A failure is our server's: for documents whose masked elements have a   *)
(* text, and which write no attribute with a reference, it means a status, *)
(* a code, a detail or a body other than declared or other than the        *)
(* reference's, or one the oracle refuses; not the prefix of a name, a     *)
(* comment, the kind of a piece of text or the language of a reason.  The  *)
(* prefix in the text of a fault code is text, and does count              *)
(* (run_scenario, canonicalize_prefixes).                                  *)
FailIsDifference ==
    Failure /\ (\A side \in Sides : AttrsLiteral(Tree(side))) => DifferenceFound

(* The same for attributes however they are written: documents that say    *)
(* the same serialize identically (canonicalize_prefixes).  This one does  *)
(* not hold, and no run checks it: write_attr_value escapes the reference  *)
(* in a value again, and "it's" and "it&apos;s" become different values.   *)
EqualsNeverFail == Failure => DifferenceFound

(* GET ?wsdl changes the addresses of the route's service and nothing      *)
(* else, however its ports are written (resolver.rs).                      *)
OnlyTargetRewritten ==
    JudgedWsdl =>
        job.responses["our"].body =
            Events(Serving!ServedTree(job.responses["our"].site, Scenario.path, <<OurHost, Scenario.path>>))

(* Where the addresses lead that a client finds under the services in the  *)
(* WSDL of a route: from is what the WSDL of the server has in that place, *)
(* path the path that is served.                                           *)
ServedAddresses(site, route) ==
    LET from == SoapAddresses(Events(site.wsdl))
        served == SoapAddresses(FetchAtHost(site, route).body)
    IN  {[service |-> served[i][1], from |-> from[i][2][2], path |-> served[i][2][2]] : i \in DOMAIN served}

LeadsToService(site, address) ==
    LET routes == Serving!Routes(site)
    IN  address.path \in DOMAIN routes /\ routes[address.path] \in {"", address.service}

PathOfService(site, name) ==
    Serving!ServicePath(CHOOSE s \in Serving!Services(site.wsdl) : Serving!NameOf(s) = name, site.lowerCase)

(* Every service has a path of its own.                                    *)
PathsDiffer(site) ==
    \A s, t \in Serving!Services(site.wsdl) :
        Serving!ServicePath(s, site.lowerCase) = Serving!ServicePath(t, site.lowerCase) => s = t

(* Whichever route a client took the WSDL from, the address it finds of a  *)
(* service leads to a route of that service, if no two services claim one  *)
(* path; but for the port of another service at a path other than that of  *)
(* the first port, which is not mounted and is served as it is (server.rs  *)
(* build, wsdl_get_handler, wsdl_get_handler_for_route).                   *)
ClientsReachServices ==
    JudgedWsdl =>
        LET site == job.responses["our"].site
            routes == Serving!Routes(site)
        IN  PathsDiffer(site) =>
                \A route \in DOMAIN routes : \A a \in ServedAddresses(site, route) :
                    routes[route] \in {"", a.service} \/ a.from = PathOfService(site, a.service)
                        => LeadsToService(site, a)

(* The same of every port: the addresses of other services are preserved   *)
(* so that generated clients bind each service to its own endpoint         *)
(* (wsdl_get_handler_for_route).  This one does not hold, and no run       *)
(* checks it: the second port of a service may be at another path.         *)
EveryPortReached ==
    JudgedWsdl =>
        LET site == job.responses["our"].site
        IN  PathsDiffer(site) =>
                \A route \in DOMAIN Serving!Routes(site) : \A a \in ServedAddresses(site, route) : LeadsToService(site, a)

=============================================================================
