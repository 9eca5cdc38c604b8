--------------------------- MODULE MCServerBuilder ---------------------------
(* WSDLs for ServerBuilder, one per interesting shape, with every choice of *)
(* handlers and bypasses among the operations X, Y and the stray Z.         *)
EXTENDS ServerBuilder

Element(name) == <<"tns", name>>
At(host, path) == [scheme |-> TRUE, host |-> host, path |-> path]
Port(b, address) == [binding |-> b, address |-> address]
Op(name, action) == [name |-> name, action |-> action, ns |-> Absent]
Binding(style, bound) == [style |-> style, ops |-> bound]
In(name, element) == [name |-> name, element |-> element]

X == Op("X", "actX")
Y == Op("Y", NoAction)
V == Op("V", "actV")

Base ==
    [targetNamespace |-> "tns",
     lowerCase |-> [s \in {"A", "B"} |-> IF s = "A" THEN "a" ELSE "b"],
     services |-> [s \in {"A"} |-> <<Port("bXY", At("h", <<"a">>))>>],
     bindings |-> [b \in {"bXY"} |-> Binding("document", <<X, Y, V>>)],
     portTypes |-> [p \in {"pXY"} |-> <<In("X", Element("x")), In("Y", Element("y")), In("V", Absent)>>],
     elementTypes |-> [e \in {Element("x")} |-> "typeX"],
     registry |-> [t \in {"typeX"} |-> {"c"}]]

(* Two services, one of them RPC, each with operations of its own; A binds *)
(* its operation twice and through a port whose binding is missing.        *)
Two ==
    [Base EXCEPT
        !.services = [s \in {"A", "B"} |->
            IF s = "A" THEN <<Port("bX", At("h", <<"a">>)), Port("bX", At("h", <<"x">>)),
                              Port("none", At("h", <<>>))>>
            ELSE <<Port("bY", [scheme |-> FALSE, host |-> "b", path |-> <<>>])>>],
        !.bindings = [b \in {"bX", "bY"} |->
            IF b = "bX" THEN Binding("document", <<X>>)
            ELSE Binding("rpc", <<[Y EXCEPT !.ns = "urn"], V>>)],
        !.portTypes = [p \in {"pX", "pY"} |->
            IF p = "pX" THEN <<In("X", Element("x"))>> ELSE <<In("Y", Absent), In("V", Absent)>>]]

(* Both services on one path.                                              *)
Colliding == [Two EXCEPT !.services["B"][1].address = At("h", <<"a">>)]

(* A service without ports next to one with ports.                         *)
Portless == [Two EXCEPT !.services["B"] = <<>>]

(* No service at all: the bindings are used directly.                      *)
Serviceless == [Two EXCEPT !.services = [s \in {} |-> <<>>]]

(* The element of X has a type the registry lacks.                         *)
Untyped == [Base EXCEPT !.registry = [t \in {} |-> {}]]

(* The operations share an element.                                        *)
Ambiguous == [Base EXCEPT !.portTypes["pXY"][2] = In("Y", Element("x"))]

(* Two port types give X two elements, one of them of unknown type.        *)
TwoInputs ==
    [Two EXCEPT !.portTypes["pY"] = <<In("X", Element("z")), In("Y", Absent), In("V", Absent)>>,
                !.elementTypes = [e \in {Element("x"), Element("z")} |->
                                    IF e = Element("x") THEN "typeX" ELSE "typeZ"]]

Wsdls == {Base, Two, Colliding, Portless, Serviceless, Untyped, Ambiguous, TwoInputs}

MCConfigs ==
    [wsdl : Wsdls, handlers : SUBSET {"X", "Y", "V", "Z"}, hasDefault : BOOLEAN,
     bypass : SUBSET {"X", "Y"}, mountPath : {DefaultMount}]

MCDefaultMount == <<"soap">>
=============================================================================
