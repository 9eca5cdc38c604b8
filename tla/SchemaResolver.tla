--------------------------- MODULE SchemaResolver ---------------------------
(***************************************************************************)
(* xsd/resolver.rs: resolve_schema, step by step.  A call collects the     *)
(* schema with everything it imports or includes, resolves the complex     *)
(* types in the iteration order of a hash map, each after the chain of the *)
(* types it extends, and leaves a registry.  The caller owns already: the  *)
(* locations loaded so far, by this call or by an earlier one.  Module     *)
(* WsdlResolver makes the calls.                                           *)
(*                                                                         *)
(* files is what there is in the file system, XSDs and WSDLs; a location   *)
(* is a sequence of path components.  fetched is the history of the        *)
(* loader's calls.  What is read out of a document, and what becomes of    *)
(* the references in a content model, is left open here; WsdlLoading says  *)
(* it.                                                                     *)
(***************************************************************************)
EXTENDS Naturals, SequencesExt, SchemaTypes

CONSTANT BaseDir       \* the directory of the WSDL the server is built from

CONSTANTS
    ReadSchema(_),     \* (document): parse_schema of its root element
    ResolvedContent(_, _),    \* (content, collection): a content model that is no
                              \* derivation, with its references resolved
    ResolvedAttributes(_, _)  \* (attributes, collection): the same of attributes

VARIABLES
    files,         \* path -> the root element of the document there
    fetched,       \* what was asked of the loader, in order: <<"wsdl" or "xsd", location>>
    already,       \* already_loaded
    schemaState,   \* "idle", "collecting", "resolving", "done" or "failed"
    queue,         \* schemas still to merge
    pending,       \* imports and includes of the schema merged last, still to follow
    flat,          \* FlatTypeMap
    chain,         \* resolving: the types under way, each extending the next
    memo,          \* resolved: the complex types done so far
    registry       \* what resolve_schema returns

schemaVars == <<files, fetched, already, schemaState, queue, pending, flat, chain, memo, registry>>

(* normalize_path: dot segments are taken out without asking the system.   *)
NormalizePath(path) ==
    LET visit(acc, c) == IF c = ".." THEN (IF acc = <<>> THEN acc ELSE Front(acc))
                         ELSE IF c = "." THEN acc ELSE Append(acc, c)
    IN  FoldLeft(visit, <<>>, path)

(* FileWsdlLoader: every location is taken relative to the base directory. *)
PathOf(location) == NormalizePath(BaseDir \o location)

(* The document at a location; one that is not XML has the tag "malformed".*)
DocumentAt(location) == files[PathOf(location)]
Loadable(location) ==
    PathOf(location) \in DOMAIN files /\ DocumentAt(location).tag # "malformed"

EmptyFlat ==
    [types |-> EmptyMap, elements |-> EmptyMap, groups |-> EmptyMap, attributeGroups |-> EmptyMap]

InitSchema ==
    /\ fetched = <<>>
    /\ already = {}
    /\ schemaState = "idle"
    /\ queue = <<>>
    /\ pending = <<>>
    /\ flat = EmptyFlat
    /\ chain = <<>>
    /\ memo = EmptyMap
    /\ registry = EmptyMap

-----------------------------------------------------------------------------
(* Collecting.                                                             *)

BeginSchema(schema) ==
    /\ schemaState' = "collecting"
    /\ queue' = <<schema>>
    /\ pending' = <<>>
    /\ flat' = EmptyFlat
    /\ chain' = <<>>
    /\ memo' = EmptyMap
    /\ registry' = EmptyMap

(* The last schema of the queue is merged, its declarations replacing      *)
(* those of the same name; what it imports, then what it includes, is to   *)
(* be followed.                                                            *)
CollectSchema ==
    /\ schemaState = "collecting"
    /\ pending = <<>>
    /\ queue # <<>>
    /\ LET schema == Last(queue)
       IN  /\ flat' = [types           |-> Filled(schema.types, flat.types),
                       elements        |-> Filled(schema.elements, flat.elements),
                       groups          |-> Filled(schema.groups, flat.groups),
                       attributeGroups |-> Filled(schema.attributeGroups, flat.attributeGroups)]
           /\ pending' = schema.imports \o schema.includes
    /\ queue' = Front(queue)
    /\ UNCHANGED <<files, fetched, already, schemaState, chain, memo, registry>>

(* A location is not marked.                                               *)
MutantFollowPending ==
    /\ schemaState = "collecting"
    /\ pending # <<>>
    /\ LET location == Head(pending)
       IN  IF location = Absent \/ location \in already
           THEN UNCHANGED <<fetched, queue, schemaState>>
           ELSE /\ fetched' = Append(fetched, <<"xsd", location>>)
                /\ queue' = Append(queue, ReadSchema(DocumentAt(location)))
                /\ UNCHANGED schemaState
    /\ pending' = Tail(pending)
    /\ UNCHANGED <<files, already, flat, chain, memo, registry>>

(* What cannot be loaded is left out.                                      *)
MutantFollowIfPresent ==
    /\ schemaState = "collecting"
    /\ pending # <<>>
    /\ LET location == Head(pending)
       IN  IF location = Absent \/ location \in already \/ ~Loadable(location)
           THEN UNCHANGED <<already, fetched, queue>>
           ELSE /\ already' = already \cup {location}
                /\ fetched' = Append(fetched, <<"xsd", location>>)
                /\ queue' = Append(queue, ReadSchema(DocumentAt(location)))
    /\ pending' = Tail(pending)
    /\ UNCHANGED <<files, schemaState, flat, chain, memo, registry>>

(* One import or include: a location is marked before it is loaded, and a  *)
(* location that is marked is passed over.                                 *)
FollowPending ==
    /\ schemaState = "collecting"
    /\ pending # <<>>
    /\ LET location == Head(pending)
       IN  IF location = Absent \/ location \in already
           THEN UNCHANGED <<already, fetched, queue, schemaState>>
           ELSE /\ already' = already \cup {location}
                /\ fetched' = Append(fetched, <<"xsd", location>>)
                /\ IF Loadable(location)
                   THEN /\ queue' = Append(queue, ReadSchema(DocumentAt(location)))
                        /\ UNCHANGED schemaState
                   ELSE /\ schemaState' = "failed"
                        /\ UNCHANGED queue
    /\ pending' = Tail(pending)
    /\ UNCHANGED <<files, flat, chain, memo, registry>>

EndCollecting ==
    /\ schemaState = "collecting"
    /\ pending = <<>>
    /\ queue = <<>>
    /\ schemaState' = "resolving"
    /\ UNCHANGED <<files, fetched, already, queue, pending, flat, chain, memo, registry>>

-----------------------------------------------------------------------------
(* Resolving.  resolve_named_type calls itself for the type that a type    *)
(* extends: the recursion is the chain.                                    *)

(* The elements of an extension before those of its base.                  *)
MutantExtend(base, own) == Content("sequence", own \o base)

(* An extension has the elements of its base and then its own, as a        *)
(* sequence, whatever compositors they come from.                          *)
Extend(base, own) == Content("sequence", base \o own)

(* The elements of a base; one that is unknown, or simple, is taken as     *)
(* empty.                                                                  *)
ElementsOf(base, done) == IF base \in DOMAIN done THEN done[base].content.elements ELSE <<>>

(* resolve_complex_type and resolve_content, when the base is done; a      *)
(* restriction has its own content alone.                                  *)
ResolveComplexType(raw, from, done) ==
    LET c == raw.content
    IN  [kind |-> "complex",
         attributes |-> ResolvedAttributes(raw.attributes, from),
         content |->
             IF c.model = "extension"
             THEN Extend(ElementsOf(c.base, done), ResolvedContent(c.inner, from).elements)
             ELSE ResolvedContent(IF c.model = "restriction" THEN c.inner ELSE c, from)]

Unresolved == Complex(flat) \ DOMAIN memo

(* The next complex type in the order of the hash map.                     *)
StartType(q) ==
    /\ schemaState = "resolving"
    /\ chain = <<>>
    /\ q \in Unresolved
    /\ chain' = <<q>>
    /\ UNCHANGED <<files, fetched, already, schemaState, queue, pending, flat, memo, registry>>

(* The base that the last type of the chain waits for.                     *)
Awaited == IF chain = <<>> THEN {} ELSE BaseIn(flat, Last(chain)) \ DOMAIN memo

(* A type already under way is a cycle.                                    *)
ResolveBase(base) ==
    /\ schemaState = "resolving"
    /\ base \in Awaited
    /\ IF base \in ToSet(chain)
       THEN schemaState' = "failed" /\ UNCHANGED chain
       ELSE chain' = Append(chain, base) /\ UNCHANGED schemaState
    /\ UNCHANGED <<files, fetched, already, queue, pending, flat, memo, registry>>

(* A resolved type is forgotten.                                           *)
MutantCompleteType ==
    /\ schemaState = "resolving"
    /\ chain # <<>>
    /\ Awaited = {}
    /\ chain' = Front(chain)
    /\ UNCHANGED <<files, fetched, already, schemaState, queue, pending, flat, memo, registry>>

(* A type is kept once it is resolved.                                     *)
CompleteType ==
    /\ schemaState = "resolving"
    /\ chain # <<>>
    /\ Awaited = {}
    /\ LET q == Last(chain)
       IN  memo' = Insert(memo, q, ResolveComplexType(flat.types[q], flat, memo))
    /\ chain' = Front(chain)
    /\ UNCHANGED <<files, fetched, already, schemaState, queue, pending, flat, registry>>

(* The elements with an anonymous complex type are registered under their  *)
(* own name, unless a type has it.  The code starts each with an empty     *)
(* memo, which it fills on the way up the chain with the types that memo   *)
(* has: by now they are all resolved, and none is part of a cycle.         *)
InlineTypes ==
    LET inline == {e \in DOMAIN flat.elements :
                       /\ flat.elements[e].inline # Absent
                       /\ flat.elements[e].inline.kind = "complex"}
    IN  [e \in inline |-> ResolveComplexType(flat.elements[e].inline, flat, memo)]

FinishSchema ==
    /\ schemaState = "resolving"
    /\ chain = <<>>
    /\ Unresolved = {}
    /\ LET simple == {q \in DOMAIN flat.types : flat.types[q].kind = "simple"}
       IN  registry' = Filled(Filled(memo, [q \in simple |-> flat.types[q]]), InlineTypes)
    /\ schemaState' = "done"
    /\ UNCHANGED <<files, fetched, already, queue, pending, flat, chain, memo>>

SchemaNext ==
    \/ CollectSchema
    \/ FollowPending
    \/ EndCollecting
    \/ \E q \in Unresolved : StartType(q)
    \/ \E base \in Awaited : ResolveBase(base)
    \/ CompleteType
    \/ FinishSchema
=============================================================================
