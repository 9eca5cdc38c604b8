---------------------------- MODULE DispatchTable ----------------------------
(***************************************************************************)
(* The routing table of src/dispatch.rs: what goes into it for one         *)
(* operation of the WSDL, how a request is routed through it, and the      *)
(* structural validation of the request body.  Module ServerBuilder builds *)
(* tables out of these operators; module SoapService serves them.          *)
(*                                                                         *)
(* A resolved WSDL is a record                                             *)
(*   services   service -> sequence of ports [binding, address]            *)
(*   bindings   binding -> [style, ops], ops a sequence of operations      *)
(*              [name, action, ns] (ns: the namespace of soap:body)        *)
(*   portTypes  port type -> sequence of [name, element], the element of   *)
(*              the first part of the input message                        *)
(*   elementTypes  element -> type, for the elements whose schema is known *)
(*   registry   type -> the names of its required child elements           *)
(*   targetNamespace                                                       *)
(* A QName is a pair <<namespace, local name>>, or <<local name>>.         *)
(***************************************************************************)
EXTENDS Sequences, SequencesExt

CONSTANTS
    Absent,        \* Option::None
    NoAction       \* the empty SOAPAction

EmptyTable == [byElement |-> <<>>, byAction |-> <<>>]

-----------------------------------------------------------------------------
(* Building.                                                               *)

(* The operations of one binding, with what they take from it.             *)
BindingOps(wsdl, b) ==
    LET ns(op) == IF wsdl.bindings[b].style # "rpc" THEN Absent
                  ELSE IF op.ns # Absent THEN op.ns ELSE wsdl.targetNamespace
        ops == wsdl.bindings[b].ops
    IN  [i \in DOMAIN ops |-> [name |-> ops[i].name, action |-> ops[i].action,
                               style |-> wsdl.bindings[b].style, rpcNs |-> ns(ops[i])]]

(* A port whose binding is not defined contributes nothing.                *)
PortOps(wsdl, port) ==
    IF port.binding \in DOMAIN wsdl.bindings THEN BindingOps(wsdl, port.binding) ELSE <<>>

ServiceOps(wsdl, s) ==
    FlattenSeq([i \in DOMAIN wsdl.services[s] |-> PortOps(wsdl, wsdl.services[s][i])])

(* The first operation of each name, in the order of the sequence.         *)
FirstOfEachName(ops) ==
    LET kept[i \in 0 .. Len(ops)] ==
          IF i = 0 THEN <<>>
          ELSE IF \E j \in 1 .. i - 1 : ops[j].name = ops[i].name THEN kept[i - 1]
          ELSE Append(kept[i - 1], ops[i])
    IN  kept[Len(ops)]

(* collect_ops_for_service(Some(s)).                                       *)
OpsOfService(wsdl, s) == FirstOfEachName(ServiceOps(wsdl, s))

(* collect_ops_for_service(None): the operations of all services or, when  *)
(* no port leads to any, of all bindings.  The two sequences are the       *)
(* iteration orders of the hash maps.                                      *)
OpsOfAll(wsdl, serviceOrder, bindingOrder) ==
    LET bound == FlattenSeq([i \in DOMAIN serviceOrder |-> ServiceOps(wsdl, serviceOrder[i])])
    IN  FirstOfEachName(
            IF bound # <<>> THEN bound
            ELSE FlattenSeq([i \in DOMAIN bindingOrder |-> BindingOps(wsdl, bindingOrder[i])]))

(* resolve_input_element: the first operation of that name in the first    *)
(* port type that has one, whatever port type the binding is for.          *)
ResolveInputElement(wsdl, portTypeOrder, name) ==
    LET all  == FlattenSeq([i \in DOMAIN portTypeOrder |-> wsdl.portTypes[portTypeOrder[i]]])
        i    == SelectInSeq(all, LAMBDA op : op.name = name)
    IN  IF i = 0 THEN Absent ELSE all[i].element

(* The QName an operation is routed by.                                    *)
InputType(wsdl, portTypeOrder, op) ==
    IF op.style = "rpc" THEN <<op.rpcNs, op.name>>
    ELSE ResolveInputElement(wsdl, portTypeOrder, op.name)

(* The type a request to the operation is validated against.               *)
ValidationType(wsdl, op, input) ==
    IF op.style = "rpc" THEN input
    ELSE IF input \in DOMAIN wsdl.elementTypes THEN wsdl.elementTypes[input]
    ELSE Absent

(* Fail-closed: the type of a document operation must be in the registry.  *)
Unresolvable(wsdl, op, input) ==
    /\ op.style # "rpc"
    /\ ValidationType(wsdl, op, input) # Absent
    /\ ValidationType(wsdl, op, input) \notin DOMAIN wsdl.registry

(* HashMap::insert.                                                        *)
Put(map, k, v) == [x \in DOMAIN map \cup {k} |-> IF x = k THEN v ELSE map[x]]

(* An operation whose input has no element is not indexed at all.          *)
MutantEnter(table, op, entry) ==
    IF entry.input = Absent THEN table
    ELSE [byElement |-> Put(table.byElement, entry.input, entry),
          byAction  |-> IF op.action = NoAction THEN table.byAction
                        ELSE Put(table.byAction, op.action, entry)]

(* The entry of an operation goes in under its element and its action.     *)
Enter(table, op, entry) ==
    [byElement |-> IF entry.input = Absent THEN table.byElement
                   ELSE Put(table.byElement, entry.input, entry),
     byAction  |-> IF op.action = NoAction THEN table.byAction
                   ELSE Put(table.byAction, op.action, entry)]

-----------------------------------------------------------------------------
(* Serving.                                                                *)

(* route: by body element, then by the SOAPAction header; Absent stands    *)
(* for the "Action not supported" fault.                                   *)
Route(table, qname, action) ==
    IF qname \in DOMAIN table.byElement THEN table.byElement[qname]
    ELSE IF action # Absent /\ action \in DOMAIN table.byAction THEN table.byAction[action]
    ELSE Absent

(* validate_request: the children of the body element must include the     *)
(* required ones; an unknown type is not validated.  A body that is no     *)
(* longer well-formed below its first child has no set of children.        *)
ValidRequest(registry, type, children) ==
    \/ type = Absent
    \/ type \notin DOMAIN registry
    \/ registry[type] = {}
    \/ children # Absent /\ registry[type] \subseteq children
=============================================================================
