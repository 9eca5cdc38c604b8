---------------------------- MODULE ServerBuilder ----------------------------
(***************************************************************************)
(* ServerBuilder::build and SoapService::into_router of src/server.rs,     *)
(* with build_dispatch_table_from_ops of src/dispatch.rs: from a resolved  *)
(* WSDL and what the application registered to the routes of the server.   *)
(*                                                                         *)
(* The services, bindings and port types of a WSDL are hash maps: they are *)
(* visited in an arbitrary order, fixed for the run.                       *)
(***************************************************************************)
EXTENDS Sequences, SequencesExt, FiniteSets

CONSTANTS
    Configs,       \* what the builder may have accumulated, see Init
    Default,       \* the default handler
    DefaultMount,  \* "/soap", the path when path() is not called
    Absent, NoAction

(* The services, bindings and port types of a WSDL are finite maps, what a *)
(* service, a binding or a port type lists is a sequence; the name of a    *)
(* service and the action of an operation are strings, never None.         *)
ASSUME ConfigsAssumption ==
    \A c \in Configs :
        LET w     == c.wsdl
            Lists == {w.services[s] : s \in DOMAIN w.services}
                        \cup {w.bindings[b].ops : b \in DOMAIN w.bindings}
                        \cup {w.portTypes[p] : p \in DOMAIN w.portTypes}
        IN  /\ IsFiniteSet(DOMAIN w.services) /\ IsFiniteSet(DOMAIN w.bindings)
            /\ IsFiniteSet(DOMAIN w.portTypes)
            /\ \A l \in Lists : l \in Seq(ToSet(l))
            /\ Absent \notin DOMAIN w.services
            /\ \A b \in DOMAIN w.bindings : \A op \in ToSet(w.bindings[b].ops) : op.action # Absent
            /\ c.hasDefault \in BOOLEAN

Table == INSTANCE DispatchTable

VARIABLES
    config,        \* [wsdl, handlers, hasDefault, bypass, mountPath]
    order,         \* the iteration orders of the hash maps of the WSDL
    phase,         \* where build() stands
    error,         \* the BuildError returned, if any
    remaining,     \* the services still to be built
    service,       \* the service being built; Absent in single-service mode
    ops,           \* its operations still to be entered
    consumed,      \* consumed_handlers
    table,         \* its dispatch table
    tables,        \* service_tables, by path
    names,         \* service_path_names, by path
    routes         \* what into_router mounted, by path

vars == <<config, order, phase, error, remaining, service, ops, consumed, table,
          tables, names, routes>>

Wsdl == config.wsdl
Services == DOMAIN Wsdl.services
MultiService == Cardinality(Services) > 1

Phases == {"start", "services", "operations", "built", "serving", "failed"}
Errors == {"none", "UnregisteredOperation", "UnknownOperation", "WsdlParse"}

TypeOK ==
    /\ phase \in Phases
    /\ error \in Errors
    /\ (error # "none") = (phase = "failed")
    /\ ToSet(remaining) \subseteq Services
    /\ service \in Services \cup {Absent}
    /\ DOMAIN names = DOMAIN tables
    /\ DOMAIN routes \subseteq DOMAIN tables \cup {config.mountPath}

-----------------------------------------------------------------------------
(* extract_path_from_url: the path after the authority of an absolute URL; *)
(* all of a URL without a scheme.  A path is its sequence of segments.     *)
PathOf(address) ==
    IF address.scheme \/ address.host = Absent THEN address.path
    ELSE <<address.host>> \o address.path

(* A service without ports is mounted under its own name in lower case.    *)
ServicePath(s) ==
    IF Wsdl.services[s] = <<>> THEN <<Wsdl.lowerCase[s]>>
    ELSE PathOf(Wsdl.services[s][1].address)

OpNames(seq) == {seq[i].name : i \in DOMAIN seq}

(* The operations some port of some service leads to.                      *)
BoundNames == UNION {OpNames(Table!ServiceOps(Wsdl, s)) : s \in Services}

HandlerFor(name) == IF name \in config.handlers THEN name ELSE Default

-----------------------------------------------------------------------------
Init ==
    /\ config \in Configs
    /\ order \in [services : SetToSeqs(DOMAIN config.wsdl.services),
                  bindings : SetToSeqs(DOMAIN config.wsdl.bindings),
                  portTypes : SetToSeqs(DOMAIN config.wsdl.portTypes)]
    /\ phase = "start" /\ error = "none"
    /\ remaining = <<>> /\ service = Absent
    /\ ops = <<>> /\ consumed = {} /\ table = Table!EmptyTable
    /\ tables = <<>> /\ names = <<>> /\ routes = <<>>

Fail(e) ==
    /\ phase' = "failed" /\ error' = e
    /\ UNCHANGED <<config, order, remaining, service, ops, consumed, table, tables, names, routes>>

(* The table of a service is built on top of that of the one before.       *)
MutantBeginTable(s, pending) ==
    /\ service' = s /\ ops' = pending
    /\ consumed' = {} /\ UNCHANGED table
    /\ phase' = "operations"

BeginTable(s, pending) ==
    /\ service' = s /\ ops' = pending
    /\ consumed' = {} /\ table' = Table!EmptyTable
    /\ phase' = "operations"

(* At most one service: one table for everything.                          *)
StartSingle ==
    /\ phase = "start" /\ ~MultiService
    /\ BeginTable(Absent, Table!OpsOfAll(Wsdl, order.services, order.bindings))
    /\ UNCHANGED <<config, order, error, remaining, tables, names, routes>>

(* Several services: a handler no service has an operation for is refused  *)
(* before any table is built.                                              *)
RefuseUnboundHandler ==
    /\ phase = "start" /\ MultiService
    /\ ~(config.handlers \subseteq BoundNames)
    /\ Fail("UnknownOperation")

StartMulti ==
    /\ phase = "start" /\ MultiService
    /\ config.handlers \subseteq BoundNames
    /\ remaining' = order.services
    /\ phase' = "services"
    /\ UNCHANGED <<config, order, error, service, ops, consumed, table, tables, names, routes>>

BeginService ==
    /\ phase = "services" /\ remaining # <<>>
    /\ BeginTable(Head(remaining), Table!OpsOfService(Wsdl, Head(remaining)))
    /\ remaining' = Tail(remaining)
    /\ UNCHANGED <<config, order, error, tables, names, routes>>

(* Every table is given all the handlers.                                  *)
MutantTableHandlers == config.handlers

(* The handlers given to the table: all of them in single-service mode,    *)
(* the service's own in multi-service mode.                                *)
TableHandlers ==
    IF service = Absent THEN config.handlers
    ELSE config.handlers \cap OpNames(Table!ServiceOps(Wsdl, service))

Handled(op) == op.name \in TableHandlers \/ config.hasDefault

Input(op) == Table!InputType(Wsdl, order.portTypes, op)

RefuseUnregistered ==
    /\ phase = "operations" /\ ops # <<>>
    /\ ~Handled(Head(ops))
    /\ Fail("UnregisteredOperation")

RefuseUnresolvable ==
    /\ phase = "operations" /\ ops # <<>>
    /\ Handled(Head(ops))
    /\ Table!Unresolvable(Wsdl, Head(ops), Input(Head(ops)))
    /\ Fail("WsdlParse")

(* The entry of an operation, in both indexes.                             *)
Entry(op) ==
    [handler |-> HandlerFor(op.name), authRequired |-> op.name \notin config.bypass,
     input |-> Input(op), validation |-> Table!ValidationType(Wsdl, op, Input(op))]

AddOperation ==
    /\ phase = "operations" /\ ops # <<>>
    /\ Handled(Head(ops))
    /\ ~Table!Unresolvable(Wsdl, Head(ops), Input(Head(ops)))
    /\ table' = Table!Enter(table, Head(ops), Entry(Head(ops)))
    /\ consumed' = consumed \cup {Head(ops).name}
    /\ ops' = Tail(ops)
    /\ UNCHANGED <<config, order, phase, error, remaining, service, tables, names, routes>>

RefuseUnconsumed ==
    /\ phase = "operations" /\ ops = <<>>
    /\ ~(TableHandlers \subseteq consumed)
    /\ Fail("UnknownOperation")

FinishSingle ==
    /\ phase = "operations" /\ ops = <<>> /\ service = Absent
    /\ TableHandlers \subseteq consumed
    /\ phase' = "built"
    /\ UNCHANGED <<config, order, error, remaining, service, ops, consumed, table, tables, names, routes>>

(* The service of a path is not recorded.                                  *)
MutantFinishService ==
    /\ phase = "operations" /\ ops = <<>> /\ service # Absent
    /\ TableHandlers \subseteq consumed
    /\ tables' = Table!Put(tables, ServicePath(service), table)
    /\ phase' = "services"
    /\ UNCHANGED <<config, order, error, remaining, service, ops, consumed, table, names, routes>>

(* A second service on the same path replaces the first.                   *)
FinishService ==
    /\ phase = "operations" /\ ops = <<>> /\ service # Absent
    /\ TableHandlers \subseteq consumed
    /\ tables' = Table!Put(tables, ServicePath(service), table)
    /\ names' = Table!Put(names, ServicePath(service), service)
    /\ phase' = "services"
    /\ UNCHANGED <<config, order, error, remaining, service, ops, consumed, table, routes>>

FinishMulti ==
    /\ phase = "services" /\ remaining = <<>>
    /\ phase' = "built"
    /\ UNCHANGED <<config, order, error, remaining, service, ops, consumed, table, tables, names, routes>>

(* One route per service path, or a single one at the mount path, which    *)
(* does not depend on the WSDL.                                            *)
IntoRouter ==
    /\ phase = "built"
    /\ routes' = IF tables # <<>> THEN tables ELSE Table!Put(<<>>, config.mountPath, table)
    /\ phase' = "serving"
    /\ UNCHANGED <<config, order, error, remaining, service, ops, consumed, table, tables, names>>

Next ==
    \/ StartSingle \/ StartMulti \/ RefuseUnboundHandler
    \/ BeginService \/ FinishService \/ FinishSingle \/ FinishMulti
    \/ RefuseUnregistered \/ RefuseUnresolvable \/ RefuseUnconsumed
    \/ AddOperation
    \/ IntoRouter

Spec == Init /\ [][Next]_vars

-----------------------------------------------------------------------------
(* Properties.  They are stated for WSDLs whose operation names mean one   *)
(* thing: dispatch.rs keys handlers, bypasses and input elements by the    *)
(* operation name alone.                                                   *)

(* What is bound, said without the order of anything.                      *)
Occurrences ==
    LET bound == UNION {ToSet(Table!ServiceOps(Wsdl, s)) : s \in Services}
    IN  IF bound # {} \/ MultiService THEN bound
        ELSE UNION {ToSet(Table!BindingOps(Wsdl, b)) : b \in DOMAIN Wsdl.bindings}

Declarations == UNION {ToSet(Wsdl.portTypes[p]) : p \in DOMAIN Wsdl.portTypes}

Consistent ==
    /\ \A o, p \in Occurrences : o.name = p.name => o = p
    /\ \A d, e \in Declarations : d.name = e.name => d = e
    /\ \A o \in Occurrences : \E d \in Declarations : d.name = o.name

DeclaredInput(op) ==
    IF op.style = "rpc" THEN <<op.rpcNs, op.name>>
    ELSE (CHOOSE d \in Declarations : d.name = op.name).element

DeclaredType(op) ==
    IF op.style = "rpc" THEN DeclaredInput(op)
    ELSE IF DeclaredInput(op) \in DOMAIN Wsdl.elementTypes
         THEN Wsdl.elementTypes[DeclaredInput(op)] ELSE Absent

(* The operations that share a table.                                      *)
Groups ==
    IF MultiService THEN {ToSet(Table!ServiceOps(Wsdl, s)) : s \in Services} ELSE {Occurrences}

(* No two operations of a table share an element or an action.             *)
Unambiguous ==
    \A group \in Groups : \A o, p \in group :
        o.name # p.name =>
            /\ DeclaredInput(o) # DeclaredInput(p) \/ DeclaredInput(o) = Absent
            /\ o.action # p.action \/ o.action = NoAction

(* build() succeeds exactly when every operation has a handler or there is *)
(* a default one, every handler has an operation, and every input element  *)
(* of a document operation that the schema types has its type in the       *)
(* registry -- whatever the order in which the hash maps are visited.      *)
BuildDecision ==
    phase \in {"built", "serving", "failed"} /\ Consistent =>
        (phase # "failed") =
            /\ config.handlers \subseteq {o.name : o \in Occurrences}
            /\ \A o \in Occurrences :
                  /\ o.name \in config.handlers \/ config.hasDefault
                  /\ \/ o.style = "rpc"
                     \/ DeclaredType(o) = Absent
                     \/ DeclaredType(o) \in DOMAIN Wsdl.registry

OwnOps(path) ==
    IF MultiService THEN ToSet(Table!ServiceOps(Wsdl, names[path])) ELSE Occurrences

Serves(entry, op) ==
    /\ entry # Absent
    /\ entry.handler = HandlerFor(op.name)
    /\ entry.authRequired = (op.name \notin config.bypass)
    /\ entry.validation = DeclaredType(op)

(* Elements a request may have that no operation of the path takes: those  *)
(* of the other services, and one the WSDL does not have.                  *)
Foreign(path) ==
    ({<<"unknown">>} \cup {DeclaredInput(p) : p \in Occurrences})
        \ ({Absent} \cup {DeclaredInput(p) : p \in OwnOps(path)})

(* Once the router is up, a request for an operation of a mounted service  *)
(* reaches that operation's handler, its authentication flag and its type, *)
(* by element whatever the SOAPAction header says, and by SOAPAction when  *)
(* the element is not that of an operation of the service.                 *)
OperationsServed ==
    phase = "serving" /\ Consistent /\ Unambiguous =>
        \A path \in DOMAIN routes : \A o \in OwnOps(path) :
            /\ DeclaredInput(o) # Absent =>
                  \A p \in Occurrences : Serves(Table!Route(routes[path], DeclaredInput(o), p.action), o)
            /\ o.action # NoAction =>
                  \A q \in Foreign(path) : Serves(Table!Route(routes[path], q, o.action), o)

(* A route serves the operations of the service it is named after, the     *)
(* name used to rewrite its WSDL, and of no other -- even when two         *)
(* services claim the same path.                                           *)
RoutesIsolated ==
    phase = "serving" /\ MultiService =>
        \A path \in DOMAIN routes :
            /\ ServicePath(names[path]) = path
            /\ \A e \in Range(routes[path].byElement) \cup Range(routes[path].byAction) :
                  \E o \in OwnOps(path) : e = Entry(o)

(* README.md:79, "svc.into_router() returns an axum::Router mounted at the *)
(* URL from the WSDL <service><port address> element".  A single service   *)
(* is mounted at mount_path instead: this one does not hold, and no run    *)
(* checks it.                                                              *)
MountedAtPortAddress ==
    phase = "serving" /\ Services # {} =>
        DOMAIN routes = {ServicePath(s) : s \in Services}
=============================================================================
