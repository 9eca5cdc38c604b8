---------------------------- MODULE WsdlResolver ----------------------------
(***************************************************************************)
(* wsdl/resolver.rs: resolve_wsdl follows the imports of a WSDL depth      *)
(* first, merges what the imported files define, and passes every inline   *)
(* schema to xsd/resolver.rs (module SchemaResolver).  The recursion is a  *)
(* stack of frames [at, def, imports, schemas]: where the definition comes *)
(* from, what it has so far, and the imports and inline schemas still to   *)
(* come.                                                                   *)
(*                                                                         *)
(* The root document comes as bytes, not from the loader, so that its      *)
(* location is not among the visited ones: a cycle loads it once more.     *)
(***************************************************************************)
EXTENDS SchemaResolver

CONSTANTS
    Worlds,        \* the documents there may be: path -> root element
    Root,          \* the location of the WSDL the server is built from
    ReadWsdl(_),   \* (document): parse_wsdl, Bad if it fails
    Reparses(_)    \* (inline schema): it is XML once it is written out

(* The components that are merged; imports and schemas stay with the file. *)
Merged == {"messages", "portTypes", "bindings", "services"}

(* What the parsers return has lists where wsdl/definitions.rs and         *)
(* xsd/types.rs have a Vec, and every type is complex or simple.           *)
IsList(s) == s \in Seq(ToSet(s))
WellReadSchema(schema) ==
    /\ IsList(schema.imports)
    /\ IsList(schema.includes)
    /\ \A q \in DOMAIN schema.types : schema.types[q].kind \in {"complex", "simple"}
WellReadWsdl(def) ==
    /\ Merged \subseteq DOMAIN def
    /\ IsList(def.imports)
    /\ IsList(def.schemas)
    /\ \A s \in ToSet(def.schemas) : WellReadSchema(ReadSchema(s))

ASSUME RootAssumption == Root # Absent
ASSUME ReadersAssumption ==
    \A world \in Worlds : \A p \in DOMAIN world :
        /\ WellReadSchema(ReadSchema(world[p]))
        /\ ReadWsdl(world[p]) # Bad => WellReadWsdl(ReadWsdl(world[p]))

VARIABLES
    stack,             \* frames of resolve_wsdl_inner, the current one last
    visited,           \* WSDL locations already loaded
    types,             \* accumulated_types
    elementTypes,      \* accumulated_element_type_map
    outcome,           \* "running", "ok" or "failed"
    definition,        \* the definition returned
    results,           \* history: [flat, registry] of each call of resolve_schema
    origin,            \* history: type -> the call whose result was kept
    documents          \* history: the documents that the files amount to

wsdlVars == <<stack, visited, types, elementTypes, outcome, definition,
              results, origin, documents>>
vars == <<schemaVars, wsdlVars>>

Frame(at, def) == [at |-> at, def |-> def, imports |-> def.imports, schemas |-> def.schemas]
Top == Last(stack)

(* The loop over the imports, or the schemas, goes on.                     *)
SetTop(frame) == stack' = [stack EXCEPT ![Len(stack)] = frame]

(* A failure anywhere unwinds the whole recursion.                         *)
Fail ==
    /\ outcome' = "failed"
    /\ UNCHANGED <<stack, types, elementTypes, definition, results, origin>>

(* What is imported replaces what the importing file defines.              *)
MutantMergeInto(def, imported) ==
    [c \in DOMAIN def |-> IF c \in Merged THEN Filled(imported[c], def[c]) ELSE def[c]]

(* Of an imported definition, what the importing one does not define.      *)
MergeInto(def, imported) ==
    [c \in DOMAIN def |-> IF c \in Merged THEN Filled(def[c], imported[c]) ELSE def[c]]

(* A WSDL that can be loaded and parsed.                                   *)
ReadableWsdl(l) == Loadable(l) /\ ReadWsdl(DocumentAt(l)) # Bad
Says(l) == ReadWsdl(DocumentAt(l))

-----------------------------------------------------------------------------
(* The documents: what the files of a world are for whoever loads the root.*)

(* The least set of nodes that has those of start and, with each of its    *)
(* nodes, the successors: a graph is a record [node, edge].                *)
Reached(G, start) ==
    {v \in G.node :
        \A S \in SUBSET G.node :
            start \subseteq S /\ (\A e \in G.edge : e[1] \in S => e[2] \in S) => v \in S}

Uses(schema) == ToSet(schema.imports \o schema.includes) \ {Absent}

(* The WSDL locations that are mentioned anywhere, with their imports.     *)
WsdlImports ==
    LET defs == {ReadWsdl(files[p]) : p \in DOMAIN files} \ {Bad}
        node == ({Root} \cup UNION {ToSet(def.imports) : def \in defs}) \ {Absent}
    IN  [node |-> node,
         edge |-> UNION {{<<l, m>> : m \in ToSet(Says(l).imports) \ {Absent}} :
                            l \in {x \in node : ReadableWsdl(x)}}]

(* The XSD locations that are mentioned in one of these inline schemas or  *)
(* anywhere, with their imports and includes.                              *)
SchemaUses(inline) ==
    LET schemas == {ReadSchema(files[p]) : p \in DOMAIN files} \cup {ReadSchema(s) : s \in inline}
        node == UNION {Uses(s) : s \in schemas}
    IN  [node |-> node,
         edge |-> UNION {{<<l, m>> : m \in Uses(ReadSchema(DocumentAt(l)))} :
                            l \in {x \in node : Loadable(x)}}]

(* What the files amount to: the WSDLs that the root imports, itself       *)
(* included, with what each says; the schemas inline in them; the XSD      *)
(* locations these use; all the schemas.  (Each part is bound, so that TLC *)
(* evaluates it once.)                                                     *)
InitDocuments ==
    \E imports \in {WsdlImports} :
    \E wsdls \in {Reached(imports, {Root})} :
    \E says \in {[l \in {w \in wsdls : ReadableWsdl(w)} |-> Says(l)]} :
    \E inline \in {UNION {ToSet(says[l].schemas) : l \in DOMAIN says}} :
    \E uses \in {SchemaUses(inline)} :
    \E xsds \in {Reached(uses, UNION {Uses(ReadSchema(s)) : s \in inline})} :
        documents = [imports |-> imports, wsdls |-> wsdls, says |-> says,
                     inline |-> inline, uses |-> uses, xsds |-> xsds,
                     schemas |-> inline \cup {DocumentAt(l) : l \in {x \in xsds : Loadable(x)}}]

Init ==
    /\ files \in Worlds
    /\ InitSchema
    /\ visited = {}
    /\ types = EmptyMap
    /\ elementTypes = EmptyMap
    /\ definition = Absent
    /\ results = <<>>
    /\ origin = EmptyMap
    /\ outcome = IF ReadableWsdl(Root) THEN "running" ELSE "failed"
    /\ stack = IF ReadableWsdl(Root) THEN <<Frame(Root, Says(Root))>> ELSE <<>>
    /\ InitDocuments

-----------------------------------------------------------------------------

(* The next wsdl:import.  A location is marked before it is loaded and     *)
(* passed over when it is marked.                                          *)
FollowImport ==
    /\ outcome = "running"
    /\ Top.imports # <<>>
    /\ LET location == Head(Top.imports)
           rest == [Top EXCEPT !.imports = Tail(@)]
       IN  IF location = Absent \/ location \in visited
           THEN /\ SetTop(rest)
                /\ UNCHANGED <<visited, fetched, outcome, types, elementTypes, definition, results, origin>>
           ELSE /\ visited' = visited \cup {location}
                /\ fetched' = Append(fetched, <<"wsdl", location>>)
                /\ IF ~ReadableWsdl(location)
                   THEN Fail
                   ELSE /\ stack' = Append([stack EXCEPT ![Len(stack)] = rest],
                                           Frame(location, Says(location)))
                        /\ UNCHANGED <<outcome, types, elementTypes, definition, results, origin>>
    /\ UNCHANGED <<files, already, schemaState, queue, pending, flat, chain, memo, registry, documents>>

(* What a request for a global element is validated against: the element's *)
(* own name for an anonymous type, else the type it names.                 *)
ElementTypes(schema) ==
    LET typed == {e \in DOMAIN schema.elements :
                      schema.elements[e].inline # Absent \/ schema.elements[e].typeRef # Absent}
    IN  [e \in typed |-> IF schema.elements[e].inline # Absent THEN e
                         ELSE schema.elements[e].typeRef]

(* The next inline schema, once the imports are done.                      *)
ResolveInlineSchema ==
    /\ outcome = "running"
    /\ Top.imports = <<>>
    /\ Top.schemas # <<>>
    /\ schemaState = "idle"
    /\ IF Reparses(Head(Top.schemas))
       THEN LET schema == ReadSchema(Head(Top.schemas))
            IN  /\ elementTypes' = Filled(elementTypes, ElementTypes(schema))
                /\ BeginSchema(schema)
                /\ UNCHANGED <<stack, types, outcome, definition, results, origin>>
       ELSE /\ Fail
            /\ UNCHANGED <<schemaState, queue, pending, flat, chain, memo, registry>>
    /\ UNCHANGED <<visited, files, fetched, already, documents>>

SchemaStep ==
    /\ outcome = "running"
    /\ SchemaNext
    /\ UNCHANGED wsdlVars

(* The registry of the schema goes into the accumulated one, where a type  *)
(* that is there already stays.                                            *)
AbsorbSchema ==
    /\ outcome = "running"
    /\ schemaState = "done"
    /\ types' = Filled(types, registry)
    /\ results' = Append(results, [flat |-> flat, registry |-> registry])
    /\ origin' = Filled(origin, [q \in DOMAIN registry |-> Len(results) + 1])
    /\ SetTop([Top EXCEPT !.schemas = Tail(@)])
    /\ schemaState' = "idle"
    /\ UNCHANGED <<files, fetched, already, queue, pending, flat, chain, memo, registry,
                   visited, elementTypes, outcome, definition, documents>>

FailSchema ==
    /\ outcome = "running"
    /\ schemaState = "failed"
    /\ Fail
    /\ UNCHANGED <<schemaVars, visited, documents>>

(* The end of a frame: what its file and the files it imported define goes *)
(* into the importing definition, where an entry that is there stays.      *)
ReturnFrame ==
    /\ outcome = "running"
    /\ Top.imports = <<>>
    /\ Top.schemas = <<>>
    /\ IF Len(stack) = 1
       THEN /\ outcome' = "ok"
            /\ definition' = Top.def
            /\ stack' = <<>>
       ELSE /\ stack' = [Front(stack) EXCEPT ![Len(stack) - 1].def = MergeInto(@, Top.def)]
            /\ UNCHANGED <<outcome, definition>>
    /\ UNCHANGED <<schemaVars, visited, types, elementTypes, results, origin, documents>>

Next ==
    \/ FollowImport
    \/ ResolveInlineSchema
    \/ SchemaStep
    \/ AbsorbSchema
    \/ FailSchema
    \/ ReturnFrame

(* One thread runs the load to its end: each step is followed by the next. *)
Spec == Init /\ [][Next]_vars /\ WF_vars(Next)

-----------------------------------------------------------------------------
(* Properties.                                                             *)

(* wsdl/resolver.rs:80 and xsd/resolver.rs:135: whatever cycles and        *)
(* diamonds the imports form, a location is asked of the loader once as a  *)
(* WSDL and once as an XSD at most.                                        *)
LoadedOnce == \A i, j \in DOMAIN fetched : fetched[i] = fetched[j] => i = j

(* The load comes to an end, however the files import each other and the   *)
(* types extend each other (wsdl/resolver.rs:87, xsd/resolver.rs:178).     *)
LoadEnds == <>(outcome # "running")

(* The definers of a component that are visible from a: those to which     *)
(* some path of imports from a passes no other file that defines it.       *)
Defines(l, c, name) == l \in DOMAIN documents.says /\ name \in DOMAIN documents.says[l][c]
VisibleDefiners(a, c, name) ==
    LET through == [documents.imports EXCEPT !.edge = {e \in @ : ~Defines(e[1], c, name)}]
    IN  {l \in Reached(through, {a}) : Defines(l, c, name)}

(* wsdl/resolver.rs:99-112: the merged definition has every component of   *)
(* every file the root imports, and of those with one name that of a file  *)
(* which no other definer hides: a WSDL is never overruled by what it      *)
(* imports.                                                                *)
VisibleDefinitionWins ==
    outcome = "ok" =>
        \A c \in Merged :
            /\ DOMAIN definition[c] = UNION {DOMAIN documents.says[l][c] : l \in documents.wsdls}
            /\ \A name \in DOMAIN definition[c] :
                   \E l \in VisibleDefiners(Root, c, name) :
                       definition[c][name] = documents.says[l][c][name]

(* The reasons a load may fail for: a file that is missing or unreadable,  *)
(* an inline schema that is not XML once it is written out, a type that    *)
(* extends itself.                                                         *)
Missing == documents.wsdls # DOMAIN documents.says \/ \E l \in documents.xsds : ~Loadable(l)
Garbled == \E s \in documents.inline : ~Reparses(s)

(* All schemas, the complex types declared in them, and what these extend  *)
(* by anything that a document says.                                       *)
Schemas == {ReadSchema(s) : s \in documents.schemas}
DeclaredTypes == UNION {Complex(schema) : schema \in Schemas}
Extends ==
    [node |-> DeclaredTypes,
     edge |-> {e \in DeclaredTypes \X DeclaredTypes :
                  \E schema \in Schemas :
                      /\ e[1] \in Complex(schema)
                      /\ schema.types[e[1]].content.model = "extension"
                      /\ schema.types[e[1]].content.base = e[2]}]
ExtendsIn(from) ==
    [node |-> Complex(from),
     edge |-> {e \in Complex(from) \X Complex(from) : e[2] \in BaseIn(from, e[1])}]

Cyclic(G) == \E e \in G.edge : e[1] \in Reached(G, {e[2]})

(* A load fails only for one of these reasons; and a load that succeeds    *)
(* has seen every file and every type, and has not collected types that    *)
(* extend each other in a circle (xsd/resolver.rs:178), in whatever order  *)
(* the hash map presented them.                                            *)
LoadDecision ==
    /\ outcome = "failed" => Missing \/ Garbled \/ Cyclic(Extends)
    /\ outcome = "ok" =>
          /\ ~Missing /\ ~Garbled
          /\ DeclaredTypes \subseteq DOMAIN types
          /\ \A n \in DOMAIN results : ~Cyclic(ExtendsIn(results[n].flat))

(* The definitions that the documents have for an entry of the registry:   *)
(* the complex types of that name, and the anonymous ones of an element.   *)
DefinitionsOf(q) ==
    {schema.types[q] : schema \in {s \in Schemas : q \in Complex(s)}} \cup
    {schema.elements[q].inline :
        schema \in {s \in Schemas : q \in DOMAIN s.elements /\ s.elements[q].inline # Absent}}

(* What a call of resolve_schema should make of a definition: an extension *)
(* has the elements of its base, as the call left it, and then its own.    *)
Flattened(def, call) ==
    LET base == def.content.base
        inherited == IF base \in Complex(call.flat) THEN call.registry[base].content.elements ELSE <<>>
    IN  CASE def.content.model = "extension" ->
                 Content("sequence", inherited \o ResolvedContent(def.content.inner, call.flat).elements)
          [] def.content.model = "restriction" -> ResolvedContent(def.content.inner, call.flat)
          [] def.content.model \notin {"extension", "restriction"} ->
                 ResolvedContent(def.content, call.flat)

(* xsd/resolver.rs:236: in whatever order the hash map presents the types, *)
(* every complex type in the registry is what some document says, with the *)
(* elements of the types it extends before its own, if the call that       *)
(* resolved it has collected these.                                        *)
ExtensionsFlattened ==
    outcome = "ok" =>
        \A q \in DOMAIN types : types[q].kind = "complex" =>
            \E def \in DefinitionsOf(q) : types[q].content = Flattened(def, results[origin[q]])
=============================================================================
