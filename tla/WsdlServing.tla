----------------------------- MODULE WsdlServing -----------------------------
(***************************************************************************)
(* GET ?wsdl: wsdl_get_handler and wsdl_get_handler_for_route of           *)
(* src/server.rs, and the two functions of src/wsdl/resolver.rs that write *)
(* the address of a service into the WSDL while they stream it.  Only the  *)
(* root document is served.                                                *)
(*                                                                         *)
(* A URL is a pair <<host, path>>, a name a single token; the attributes   *)
(* of a WSDL have no prefix that matters: "name" stands for <<"", "name">>.*)
(***************************************************************************)
EXTENDS XmlEvents, FiniteSets

NameKey == <<"", "name">>
LocationKey == <<"", "location">>

NameOf(e) == IF NameKey \in DOMAIN e.attrs THEN Head(e.attrs[NameKey]) ELSE ""

(* An address is written with the new location if it has one.              *)
Relocated(e, url) ==
    IF e.local = "address" /\ LocationKey \in DOMAIN e.attrs
    THEN [e EXCEPT !.attrs[LocationKey] = url] ELSE e

RewriteAll(events, url) ==
    LET Relocate(e) == IF Tag(e) THEN Relocated(e, url) ELSE e
        read == ReadableEvents(events)
    IN  [i \in DOMAIN read |-> Relocate(read[i])]

-----------------------------------------------------------------------------
(* Pass 1: the names of the ports of the service.  depth counts the open   *)
(* elements from the service on, 0 outside it.                             *)
TargetPorts(events, service) ==
    LET Noted(s, e) == IF NameOf(e) = "" THEN s ELSE [s EXCEPT !.ports = @ \cup {NameOf(e)}]
        Step(s, e) ==
            CASE e.kind = "start" /\ e.local = "service" ->
                     IF NameOf(e) = service THEN [s EXCEPT !.depth = 1] ELSE s
              [] e.kind = "start" /\ e.local # "service" /\ s.depth > 0 ->
                     IF e.local = "port" /\ s.depth = 1
                     THEN [Noted(s, e) EXCEPT !.depth = 2] ELSE [s EXCEPT !.depth = @ + 1]
              [] e.kind = "empty" /\ e.local = "port" /\ s.depth = 1 -> Noted(s, e)
              [] e.kind = "end" /\ s.depth > 0 -> [s EXCEPT !.depth = @ - 1]
              [] OTHER -> s
    IN  Loop(Step, [ports |-> {}, depth |-> 0], ReadableEvents(events)).ports

(* The port is not left at its end tag.                                    *)
MutantAfterEnd(s) == [s EXCEPT !.depth = @ - 1]

AfterEnd(s) ==
    IF s.depth <= 1 THEN [s EXCEPT !.matched = FALSE, !.depth = 0] ELSE [s EXCEPT !.depth = @ - 1]

(* Where pass 2 stands after a start tag or an empty element: an empty     *)
(* port that matches is entered and left at the next end tag.              *)
AfterTag(s, e, ports) ==
    CASE e.local = "port" /\ NameOf(e) \in ports ->
             [s EXCEPT !.matched = TRUE, !.depth = IF e.kind = "start" THEN 1 ELSE 0]
      [] ~(e.local = "port" /\ NameOf(e) \in ports) /\ s.matched /\ e.kind = "start" ->
             [s EXCEPT !.depth = @ + 1]
      [] OTHER -> s

(* Pass 2.                                                                 *)
RewritePorts(events, url, ports) ==
    LET Step(s, e) ==
            CASE Tag(e) ->
                     [AfterTag(s, e, ports) EXCEPT
                        !.out = Append(@, IF s.matched THEN Relocated(e, url) ELSE e)]
              [] e.kind = "end" ->
                     [IF s.matched THEN AfterEnd(s) ELSE s EXCEPT !.out = Append(@, e)]
              [] OTHER -> [s EXCEPT !.out = Append(@, e)]
    IN  Loop(Step, [out |-> <<>>, matched |-> FALSE, depth |-> 0], ReadableEvents(events)).out

(* Every address is given that of the route.                               *)
MutantRewriteForService(events, url, service) == RewriteAll(events, url)

RewriteForService(events, url, service) ==
    IF service = "" THEN RewriteAll(events, url)
    ELSE RewritePorts(events, url, TargetPorts(events, service))

-----------------------------------------------------------------------------
(* The services of a definition, each with the address of every port; the  *)
(* routes of the server, and what each of them serves.                     *)

Children(node, local) == SelectSeq(node.kids, LAMBDA k : k.kind = "elem" /\ k.local = local)

Services(wsdl) == ToSet(Children(wsdl, "service"))
Ports(service) == Children(service, "port")

(* An address that is missing or has no location is the empty URL.         *)
AddressOf(port) ==
    LET located == SelectSeq(Children(port, "address"), LAMBDA a : LocationKey \in DOMAIN a.attrs)
    IN  IF located = <<>> THEN <<"", "/">> ELSE located[1].attrs[LocationKey]

(* lowerCase gives "/" and a name in lower case.                           *)
ServicePath(service, lowerCase) ==
    IF Ports(service) = <<>> THEN lowerCase[NameOf(service)] ELSE AddressOf(Ports(service)[1])[2]

MultiService(wsdl) == Cardinality(Services(wsdl)) > 1

(* The paths that are mounted, each with the service its route is for: of  *)
(* two services with one path the later in the order of the hash map,      *)
(* site.order.  A service is mounted at the path of its first port alone.  *)
(* The route of a server of one service has no name.                       *)
Routes(site) ==
    IF MultiService(site.wsdl)
    THEN LET at == [s \in {NameOf(v) : v \in Services(site.wsdl)} |->
                        ServicePath(CHOOSE v \in Services(site.wsdl) : NameOf(v) = s, site.lowerCase)]
         IN  [p \in Range(at) |-> Last(SelectSeq(site.order, LAMBDA s : at[s] = p))]
    ELSE site.mount :> ""

(* X-Forwarded-Host goes before Host; neither may be present, or readable. *)
RequestHost(headers) ==
    CASE "x-forwarded-host" \in DOMAIN headers -> headers["x-forwarded-host"]
      [] "x-forwarded-host" \notin DOMAIN headers /\ "host" \in DOMAIN headers -> headers["host"]
      [] OTHER -> "localhost"

NotFound == [status |-> 404, body |-> <<>>]

GetWsdl(site, path, hasQuery, headers) ==
    IF path \notin DOMAIN Routes(site) \/ ~hasQuery THEN NotFound
    ELSE [status |-> 200,
          body |-> RewriteForService(Events(site.wsdl), <<RequestHost(headers), path>>, Routes(site)[path])]

-----------------------------------------------------------------------------
(* What should be served, on the tree: every address of the service's own  *)
(* ports, or of the whole document where there is one service.             *)
RECURSIVE Rewritten(_, _, _)
Rewritten(node, url, inside) ==
    IF node.kind # "elem" THEN node
    ELSE [ (IF inside THEN Relocated(node, url) ELSE node)
             EXCEPT !.kids = [i \in DOMAIN node.kids |-> Rewritten(node.kids[i], url, inside)] ]

ServedTree(site, path, url) ==
    LET service == Routes(site)[path]
        OfPort(port) == Rewritten(port, url, port.kind = "elem" /\ port.local = "port")
        OfChild(child) ==
            IF child.kind = "elem" /\ child.local = "service" /\ NameOf(child) = service
            THEN [child EXCEPT !.kids = [i \in DOMAIN child.kids |-> OfPort(child.kids[i])]]
            ELSE child
    IN  IF service = "" THEN Rewritten(site.wsdl, url, TRUE)
        ELSE [site.wsdl EXCEPT !.kids = [i \in DOMAIN site.wsdl.kids |-> OfChild(site.wsdl.kids[i])]]

=============================================================================
