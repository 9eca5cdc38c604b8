------------------------- MODULE WsdlResolverProofs -------------------------
(***************************************************************************)
(* Proof that a load asks for no location twice, merges what the imported  *)
(* files define without overruling the file that imports them, fails for   *)
(* a reason and otherwise has seen every document, and flattens extensions *)
(* the base first: for all documents, whatever they import and however     *)
(* their types extend each other, and whatever the parsers make of them.   *)
(***************************************************************************)
EXTENDS WsdlResolver, TLAPS

-----------------------------------------------------------------------------
(* The inductive invariant, in parts.                                      *)

(* The documents are those of the files.                                   *)
DocumentsInv ==
    /\ files \in Worlds
    /\ documents.imports = WsdlImports
    /\ documents.wsdls = Reached(documents.imports, {Root})
    /\ documents.says = [l \in {w \in documents.wsdls : ReadableWsdl(w)} |-> Says(l)]
    /\ documents.inline = UNION {ToSet(documents.says[l].schemas) : l \in DOMAIN documents.says}
    /\ documents.uses = SchemaUses(documents.inline)
    /\ documents.xsds =
           Reached(documents.uses, UNION {Uses(ReadSchema(s)) : s \in documents.inline})
    /\ documents.schemas =
           documents.inline \cup {DocumentAt(l) : l \in {x \in documents.xsds : Loadable(x)}}

(* What was asked of the loader is marked.                                 *)
FetchedInv ==
    /\ IsList(fetched)
    /\ \A i \in DOMAIN fetched : \/ fetched[i] \in {"wsdl"} \X visited
                                 \/ fetched[i] \in {"xsd"} \X already

(* The stack: frames of files that the root imports, each importing the    *)
(* next, with a rest of what its file lists.                               *)
FrameInv(f) ==
    /\ f = [at |-> f.at, def |-> f.def, imports |-> f.imports, schemas |-> f.schemas]
    /\ f.at \in DOMAIN documents.says
    /\ Merged \subseteq DOMAIN f.def
    /\ IsList(f.imports) /\ ToSet(f.imports) \subseteq ToSet(documents.says[f.at].imports)
    /\ IsList(f.schemas) /\ ToSet(f.schemas) \subseteq ToSet(documents.says[f.at].schemas)

Imports(l, m) == <<l, m>> \in documents.imports.edge
IsStack(s) ==
    /\ IsList(s)
    /\ \A k \in DOMAIN s : FrameInv(s[k])
    /\ \A k \in DOMAIN s : k + 1 \in DOMAIN s => Imports(s[k].at, s[k + 1].at)

StackInv ==
    /\ outcome \in {"running", "ok", "failed"}
    /\ IsStack(stack)
    /\ outcome = "running" => stack # <<>> /\ stack[1].at = Root
    /\ outcome = "ok" => stack = <<>> /\ schemaState = "idle"
    /\ schemaState \in {"idle", "collecting", "resolving", "done", "failed"}
    /\ outcome = "running" /\ schemaState # "idle" =>
           /\ Top.imports = <<>>
           /\ Top.schemas # <<>>
           /\ Reparses(Head(Top.schemas))

(* Every file seen is readable, and each of its imports is seen or still   *)
(* to come.                                                                *)
Seen == visited \cup {Root}
ToFollow(l, m) == \E k \in DOMAIN stack : stack[k].at = l /\ m \in ToSet(stack[k].imports)
VisitedInv ==
    outcome # "failed" =>
        /\ Seen \subseteq DOMAIN documents.says
        /\ \A l \in Seen : \A m \in ToSet(documents.says[l].imports) \ {Absent} :
               m \in visited \/ ToFollow(l, m)

(* What a frame has by now: all that its file defines, and nothing that is *)
(* hidden from it; no name that was seen has been dropped.                 *)
MergedFor(l, def) ==
    \A c \in Merged :
        /\ DOMAIN documents.says[l][c] \subseteq DOMAIN def[c]
        /\ \A name \in DOMAIN def[c] : \E d \in VisibleDefiners(l, c, name) :
               def[c][name] = documents.says[d][c][name]
AllMerged(s) == \A k \in DOMAIN s : MergedFor(s[k].at, s[k].def)
Held(c, name) == \E k \in DOMAIN stack : name \in DOMAIN stack[k].def[c]
MergeInv ==
    /\ AllMerged(stack)
    /\ outcome = "running" =>
           \A l \in Seen : \A c \in Merged : \A name \in DOMAIN documents.says[l][c] : Held(c, name)
    /\ outcome = "ok" =>
           /\ MergedFor(Root, definition)
           /\ \A l \in Seen : \A c \in Merged : DOMAIN documents.says[l][c] \subseteq DOMAIN definition[c]

(* What is collected comes from the schemas of the documents.              *)
CollectedInv ==
    /\ IsList(queue) /\ ToSet(queue) \subseteq Schemas
    /\ IsList(pending) /\ ToSet(pending) \subseteq documents.xsds \cup {Absent}
    /\ \A q \in DOMAIN flat.types :
           \E schema \in Schemas : q \in DOMAIN schema.types /\ flat.types[q] = schema.types[q]
    /\ \A e \in DOMAIN flat.elements :
           \E schema \in Schemas : e \in DOMAIN schema.elements /\ flat.elements[e] = schema.elements[e]
    /\ schemaState \in {"idle", "resolving", "done"} => queue = <<>> /\ pending = <<>>

(* A schema is still to be merged; or it is, what it uses is marked or     *)
(* about to be, and its types are collected.                               *)
Covered(schema) ==
    \/ schema \in ToSet(queue)
    \/ /\ Uses(schema) \subseteq already \cup ToSet(pending)
       /\ DOMAIN schema.types \subseteq DOMAIN types \cup DOMAIN flat.types
Resolved(s) == Reparses(s) /\ Covered(ReadSchema(s))
ToResolve(l, s) == \E k \in DOMAIN stack : stack[k].at = l /\ s \in ToSet(stack[k].schemas)
CoverInv ==
    outcome # "failed" /\ schemaState # "failed" =>
        /\ \A x \in already : Loadable(x) /\ Covered(ReadSchema(DocumentAt(x)))
        /\ schemaState = "idle" => DOMAIN flat.types \subseteq DOMAIN types
        /\ schemaState # "idle" => Covered(ReadSchema(Head(Top.schemas)))
        /\ \A l \in Seen : \A s \in ToSet(documents.says[l].schemas) : Resolved(s) \/ ToResolve(l, s)

(* The types under way: each reaches the later ones.  The types done: what *)
(* they extend is done, and does not reach them again.                     *)
Here == ExtendsIn(flat)
ChainInv ==
    /\ IsList(chain)
    /\ ToSet(chain) \subseteq Unresolved
    /\ \A i, j \in DOMAIN chain : chain[i] = chain[j] => i = j
    /\ \A i, j \in DOMAIN chain : i <= j => chain[j] \in Reached(Here, {chain[i]})
    /\ schemaState = "collecting" => chain = <<>> /\ memo = EmptyMap
    /\ schemaState = "resolving" =>
           /\ DOMAIN memo \subseteq Complex(flat)
           /\ \A e \in Here.edge : e[1] \in DOMAIN memo =>
                  e[2] \in DOMAIN memo /\ e[1] \notin Reached(Here, {e[2]})
           /\ \A q \in DOMAIN memo : memo[q] = ResolveComplexType(flat.types[q], flat, memo)

(* What a call of resolve_schema has collected and left.                   *)
CallSound(call) ==
    /\ ~Cyclic(ExtendsIn(call.flat))
    /\ \A q \in DOMAIN call.registry : call.registry[q].kind = "complex" =>
           \E def \in DefinitionsOf(q) : call.registry[q].content = Flattened(def, call)
ResultsInv ==
    /\ schemaState = "done" =>
           /\ CallSound([flat |-> flat, registry |-> registry])
           /\ DOMAIN flat.types \subseteq DOMAIN registry
    /\ IsList(results)
    /\ \A n \in DOMAIN results : CallSound(results[n])
    /\ DOMAIN origin = DOMAIN types
    /\ \A q \in DOMAIN types :
           /\ origin[q] \in DOMAIN results
           /\ q \in DOMAIN results[origin[q]].registry
           /\ types[q] = results[origin[q]].registry[q]

(* A failure has its reason.                                               *)
FailureInv == schemaState = "failed" \/ outcome = "failed" => Missing \/ Garbled \/ Cyclic(Extends)

IInv ==
    /\ DocumentsInv /\ FetchedInv /\ LoadedOnce
    /\ StackInv /\ VisitedInv /\ MergeInv
    /\ CollectedInv /\ CoverInv /\ ChainInv /\ ResultsInv /\ FailureInv

-----------------------------------------------------------------------------
(* Lists.                                                                  *)

(* A list is the function of its entries.                                  *)
LEMMA ListEntries ==
    ASSUME NEW s, IsList(s)
    PROVE  /\ Len(s) \in Nat /\ DOMAIN s = 1 .. Len(s)
           /\ \A i \in DOMAIN s : s[i] \in ToSet(s)
           /\ \A x \in ToSet(s) : \E i \in DOMAIN s : x = s[i]
           /\ s # <<>> => Len(s) # 0
  BY DEF IsList, ToSet

(* Anything in a set of sequences is a list.                               *)
LEMMA SequenceIsList ==
    ASSUME NEW S, NEW s \in Seq(S)
    PROVE  IsList(s) /\ ToSet(s) \subseteq S
  BY DEF IsList, ToSet

(* The empty list.                                                         *)
LEMMA EmptyList == IsList(<<>>) /\ ToSet(<<>>) = {} /\ Len(<<>>) = 0 /\ DOMAIN <<>> = {}
  BY DEF IsList, ToSet

(* A list of one entry.                                                    *)
LEMMA SingleList ==
    ASSUME NEW x
    PROVE  IsList(<<x>>) /\ ToSet(<<x>>) = {x} /\ Len(<<x>>) = 1 /\ DOMAIN <<x>> = {1} /\ <<x>>[1] = x
  BY DEF IsList, ToSet

(* An entry is added at the end.                                           *)
LEMMA AppendList ==
    ASSUME NEW s, IsList(s), NEW x
    PROVE  /\ IsList(Append(s, x)) /\ Len(Append(s, x)) = Len(s) + 1
           /\ ToSet(Append(s, x)) = ToSet(s) \cup {x}
           /\ \A i \in DOMAIN s : Append(s, x)[i] = s[i]
           /\ Append(s, x)[Len(s) + 1] = x /\ Append(s, x) # <<>>
  <1> DEFINE T == ToSet(s) \cup {x}
             r == Append(s, x)
  <1>1. s \in Seq(T)
    BY DEF IsList
  <1>2. x \in T
    OBVIOUS
  <1> HIDE DEF T
  <1>3. /\ r \in Seq(T) /\ Len(r) = Len(s) + 1 /\ Len(s) \in Nat /\ DOMAIN s = 1 .. Len(s)
        /\ DOMAIN r = 1 .. Len(s) + 1
        /\ \A i \in DOMAIN s : r[i] = s[i]
        /\ r[Len(s) + 1] = x
    BY <1>1, <1>2
  <1>4. ToSet(r) = ToSet(s) \cup {x}
    BY <1>3 DEF ToSet
  <1>5. r # <<>>
    BY <1>3
  <1> QED BY <1>3, <1>4, <1>5, SequenceIsList

(* The first entry is taken away.                                          *)
LEMMA TailList ==
    ASSUME NEW s, IsList(s), s # <<>>
    PROVE  IsList(Tail(s)) /\ ToSet(s) = {Head(s)} \cup ToSet(Tail(s))
  <1> DEFINE T == ToSet(s)
             r == Tail(s)
  <1>1. s \in Seq(T)
    BY DEF IsList
  <1> HIDE DEF T
  <1>2. /\ r \in Seq(T) /\ Len(s) \in Nat /\ Len(s) # 0 /\ DOMAIN s = 1 .. Len(s)
        /\ DOMAIN r = 1 .. Len(s) - 1
        /\ \A i \in DOMAIN r : r[i] = s[i + 1]
        /\ Head(s) = s[1]
    BY <1>1
  <1>3. \A i \in DOMAIN s : i = 1 \/ i - 1 \in DOMAIN r
    BY <1>2
  <1>4. \A i \in DOMAIN s : s[i] \in {Head(s)} \cup ToSet(r)
    BY <1>2, <1>3 DEF ToSet
  <1>5. \A i \in DOMAIN r : r[i] \in ToSet(s)
    BY <1>2 DEF ToSet
  <1>6. Head(s) \in ToSet(s)
    BY <1>2 DEF ToSet
  <1>7. ToSet(s) = {Head(s)} \cup ToSet(r)
    BY <1>4, <1>5, <1>6 DEF ToSet
  <1> QED BY <1>2, <1>7, SequenceIsList

(* The last entry is taken away.                                           *)
LEMMA FrontList ==
    ASSUME NEW s, IsList(s), s # <<>>
    PROVE  /\ IsList(Front(s)) /\ Len(Front(s)) = Len(s) - 1 /\ Len(s) \in DOMAIN s
           /\ ToSet(s) = {Last(s)} \cup ToSet(Front(s))
           /\ Last(s) = s[Len(s)]
           /\ \A i \in DOMAIN s : i # Len(s) => i \in DOMAIN Front(s)
           /\ \A i \in DOMAIN Front(s) : i \in DOMAIN s /\ i # Len(s) /\ Front(s)[i] = s[i]
  <1> DEFINE T == ToSet(s)
             r == SubSeq(s, 1, Len(s) - 1)
  <1>0. Front(s) = r /\ Last(s) = s[Len(s)]
    BY DEF Front, Last
  <1>1. s \in Seq(T)
    BY DEF IsList
  <1> HIDE DEF T
  <1>2. /\ Len(s) \in Nat /\ Len(s) # 0 /\ DOMAIN s = 1 .. Len(s)
    BY <1>1
  <1>3. /\ r \in Seq(T) /\ Len(r) = Len(s) - 1
        /\ DOMAIN r = 1 .. Len(s) - 1
        /\ \A i \in DOMAIN r : r[i] = s[i]
    BY <1>1, <1>2
  <1> HIDE DEF r
  <1>4. \A i \in DOMAIN s : i # Len(s) => i \in DOMAIN r
    BY <1>2, <1>3
  <1>5. \A i \in DOMAIN r : i \in DOMAIN s /\ i # Len(s)
    BY <1>2, <1>3
  <1>6. Len(s) \in DOMAIN s
    BY <1>2
  <1>7. ToSet(s) = {s[Len(s)]} \cup ToSet(r)
    BY <1>3, <1>4, <1>5, <1>6 DEF ToSet
  <1>8. IsList(r)
    BY <1>3, SequenceIsList
  <1> QED BY <1>0, <1>3, <1>4, <1>5, <1>6, <1>7, <1>8

(* Two lists, one after the other.                                         *)
LEMMA ConcatList ==
    ASSUME NEW s, IsList(s), NEW t, IsList(t)
    PROVE  IsList(s \o t) /\ ToSet(s \o t) = ToSet(s) \cup ToSet(t)
  <1> DEFINE T == ToSet(s) \cup ToSet(t)
             r == s \o t
  <1>1. s \in Seq(T) /\ t \in Seq(T)
    BY DEF IsList
  <1> HIDE DEF T
  <1>2. /\ r \in Seq(T) /\ Len(s) \in Nat /\ Len(t) \in Nat
        /\ DOMAIN s = 1 .. Len(s) /\ DOMAIN t = 1 .. Len(t)
        /\ DOMAIN r = 1 .. Len(s) + Len(t)
        /\ \A i \in DOMAIN r : r[i] = IF i <= Len(s) THEN s[i] ELSE t[i - Len(s)]
    BY <1>1
  <1> HIDE DEF r
  <1>3. \A i \in DOMAIN r : r[i] \in ToSet(s) \cup ToSet(t)
    <2>1. \A i \in DOMAIN r : i > Len(s) => i - Len(s) \in DOMAIN t
      BY <1>2
    <2>2. \A i \in DOMAIN r : i <= Len(s) => i \in DOMAIN s
      BY <1>2
    <2> QED BY <1>2, <2>1, <2>2 DEF ToSet
  <1>4. \A i \in DOMAIN s : i \in DOMAIN r /\ r[i] = s[i]
    BY <1>2
  <1>5. \A i \in DOMAIN t : i + Len(s) \in DOMAIN r /\ r[i + Len(s)] = t[i]
    BY <1>2
  <1>6. ToSet(r) = ToSet(s) \cup ToSet(t)
    BY <1>3, <1>4, <1>5 DEF ToSet
  <1> QED BY <1>2, <1>6, SequenceIsList DEF r

(* An entry is replaced.                                                   *)
LEMMA ReplaceInList ==
    ASSUME NEW s, IsList(s), NEW n \in DOMAIN s, NEW x
    PROVE  LET r == [s EXCEPT ![n] = x]
           IN  /\ IsList(r) /\ Len(r) = Len(s) /\ DOMAIN r = DOMAIN s /\ r # <<>>
               /\ r[n] = x /\ \A i \in DOMAIN s : i # n => r[i] = s[i]
  <1> DEFINE T == ToSet(s) \cup {x}
             r == [s EXCEPT ![n] = x]
  <1>1. s \in Seq(T)
    BY DEF IsList
  <1>2. x \in T
    OBVIOUS
  <1> HIDE DEF T
  <1>3. r \in Seq(T) /\ Len(r) = Len(s) /\ DOMAIN r = DOMAIN s /\ DOMAIN s = 1 .. Len(s)
    BY <1>1, <1>2
  <1>4. r # <<>>
    BY <1>3
  <1>5. r[n] = x /\ \A i \in DOMAIN s : i # n => r[i] = s[i]
    OBVIOUS
  <1> QED BY <1>3, <1>4, <1>5, SequenceIsList

-----------------------------------------------------------------------------
(* Reachability.                                                           *)

IsGraph(G) == \A e \in G.edge : e = <<e[1], e[2]>> /\ e[1] \in G.node /\ e[2] \in G.node

(* What is reached.                                                        *)
LEMMA ReachedNode == \A G, start : Reached(G, start) \subseteq G.node
  BY DEF Reached

(* The nodes of start are reached.                                         *)
LEMMA ReachedStart ==
    ASSUME NEW G, NEW start, NEW x \in G.node, x \in start
    PROVE  x \in Reached(G, start)
  BY DEF Reached

(* So is the successor of a node that is reached.                          *)
LEMMA ReachedStep ==
    ASSUME NEW G, IsGraph(G), NEW start, NEW e \in G.edge, e[1] \in Reached(G, start)
    PROVE  e[2] \in Reached(G, start)
  BY DEF Reached, IsGraph

(* Nothing else is.                                                        *)
LEMMA ReachedLeast ==
    ASSUME NEW G, IsGraph(G), NEW start, start \subseteq G.node, NEW S, start \subseteq S,
           \A e \in G.edge : e[1] \in S => e[2] \in S
    PROVE  Reached(G, start) \subseteq S
  <1>1. start \subseteq S \cap G.node /\ S \cap G.node \in SUBSET G.node
    OBVIOUS
  <1>2. \A e \in G.edge : e[1] \in S \cap G.node => e[2] \in S \cap G.node
    BY DEF IsGraph
  <1> QED BY <1>1, <1>2 DEF Reached

(* A node that is reached reaches no more.                                 *)
LEMMA ReachedOn ==
    ASSUME NEW G, IsGraph(G), NEW start, NEW x \in Reached(G, start)
    PROVE  Reached(G, {x}) \subseteq Reached(G, start)
  <1>1. {x} \subseteq G.node /\ {x} \subseteq Reached(G, start)
    BY ReachedNode
  <1>2. \A e \in G.edge : e[1] \in Reached(G, start) => e[2] \in Reached(G, start)
    BY ReachedStep
  <1> QED BY <1>1, <1>2, ReachedLeast

(* A larger graph reaches more.                                            *)
LEMMA ReachedLarger ==
    ASSUME NEW G, IsGraph(G), NEW H, IsGraph(H), G.node \subseteq H.node, G.edge \subseteq H.edge,
           NEW start, start \subseteq G.node
    PROVE  Reached(G, start) \subseteq Reached(H, start)
  <1>1. start \subseteq Reached(H, start)
    BY ReachedStart
  <1>2. \A e \in G.edge : e[1] \in Reached(H, start) => e[2] \in Reached(H, start)
    BY ReachedStep
  <1> QED BY <1>1, <1>2, ReachedLeast

-----------------------------------------------------------------------------
(* The documents.                                                          *)

(* A document that can be loaded is one of a world's, so that it is well   *)
(* read.                                                                   *)
LEMMA WellRead ==
    ASSUME files \in Worlds
    PROVE  /\ \A p \in DOMAIN files : WellReadSchema(ReadSchema(files[p]))
           /\ \A p \in DOMAIN files : ReadWsdl(files[p]) # Bad => WellReadWsdl(ReadWsdl(files[p]))
           /\ \A x : Loadable(x) => /\ PathOf(x) \in DOMAIN files
                                    /\ DocumentAt(x) = files[PathOf(x)]
                                    /\ WellReadSchema(ReadSchema(DocumentAt(x)))
           /\ \A l : ReadableWsdl(l) => /\ Loadable(l) /\ Says(l) # Bad
                                        /\ WellReadWsdl(Says(l))
  BY ReadersAssumption DEF Loadable, DocumentAt, ReadableWsdl, Says

(* The WSDL imports form a graph, with an edge for every import.           *)
LEMMA ImportsGraph ==
    ASSUME files \in Worlds
    PROVE  /\ IsGraph(WsdlImports) /\ Root \in WsdlImports.node
           /\ \A e \in WsdlImports.edge : ReadableWsdl(e[1]) /\ e[2] \in ToSet(Says(e[1]).imports) \ {Absent}
           /\ \A l \in WsdlImports.node : \A m : ReadableWsdl(l) /\ m \in ToSet(Says(l).imports) \ {Absent}
                  => <<l, m>> \in WsdlImports.edge /\ m \in WsdlImports.node
  <1> DEFINE defs == {ReadWsdl(files[p]) : p \in DOMAIN files} \ {Bad}
             node == ({Root} \cup UNION {ToSet(def.imports) : def \in defs}) \ {Absent}
             edge == UNION {{<<l, m>> : m \in ToSet(Says(l).imports) \ {Absent}} :
                                l \in {x \in node : ReadableWsdl(x)}}
  <1>1. WsdlImports.node = node /\ WsdlImports.edge = edge
    BY DEF WsdlImports
  <1>2. \A l : ReadableWsdl(l) => Says(l) \in defs
    BY WellRead DEF Says
  <1>3. \A l, m : ReadableWsdl(l) /\ m \in ToSet(Says(l).imports) \ {Absent} => m \in node
    BY <1>2
  <1>4. Root \in node
    BY RootAssumption
  <1> HIDE DEF defs, node
  <1>5. ASSUME NEW e \in edge
        PROVE  /\ e = <<e[1], e[2]>> /\ e[1] \in node /\ e[2] \in node
               /\ ReadableWsdl(e[1]) /\ e[2] \in ToSet(Says(e[1]).imports) \ {Absent}
    <2>1. PICK l \in {x \in node : ReadableWsdl(x)} :
              e \in {<<l, m>> : m \in ToSet(Says(l).imports) \ {Absent}}
      BY <1>5
    <2>2. PICK m \in ToSet(Says(l).imports) \ {Absent} : e = <<l, m>>
      BY <2>1
    <2> QED BY <2>1, <2>2, <1>3
  <1>6. \A l \in node : \A m : ReadableWsdl(l) /\ m \in ToSet(Says(l).imports) \ {Absent}
            => <<l, m>> \in edge
    OBVIOUS
  <1> HIDE DEF edge
  <1> QED BY <1>1, <1>3, <1>4, <1>5, <1>6 DEF IsGraph

(* So do the imports and includes of the schemas.                          *)
LEMMA UsesGraph ==
    ASSUME files \in Worlds, NEW inline
    PROVE  /\ IsGraph(SchemaUses(inline))
           /\ \A s \in inline : Uses(ReadSchema(s)) \subseteq SchemaUses(inline).node
           /\ \A e \in SchemaUses(inline).edge :
                  Loadable(e[1]) /\ e[2] \in Uses(ReadSchema(DocumentAt(e[1])))
           /\ \A x \in SchemaUses(inline).node : \A y : Loadable(x) /\ y \in Uses(ReadSchema(DocumentAt(x)))
                  => <<x, y>> \in SchemaUses(inline).edge
  <1> DEFINE schemas == {ReadSchema(files[p]) : p \in DOMAIN files} \cup {ReadSchema(s) : s \in inline}
             node == UNION {Uses(s) : s \in schemas}
             edge == UNION {{<<l, m>> : m \in Uses(ReadSchema(DocumentAt(l)))} :
                            l \in {x \in node : Loadable(x)}}
  <1>1. SchemaUses(inline).node = node /\ SchemaUses(inline).edge = edge
    BY DEF SchemaUses
  <1>2. \A x : Loadable(x) => ReadSchema(DocumentAt(x)) \in schemas
    BY WellRead
  <1>3. \A s \in inline : ReadSchema(s) \in schemas
    OBVIOUS
  <1>4. \A schema \in schemas : Uses(schema) \subseteq node
    OBVIOUS
  <1> HIDE DEF schemas, node
  <1>5. ASSUME NEW e \in edge
        PROVE  /\ e = <<e[1], e[2]>> /\ e[1] \in node /\ e[2] \in node
               /\ Loadable(e[1]) /\ e[2] \in Uses(ReadSchema(DocumentAt(e[1])))
    <2>1. PICK l \in {x \in node : Loadable(x)} :
              e \in {<<l, m>> : m \in Uses(ReadSchema(DocumentAt(l)))}
      BY <1>5
    <2>2. PICK m \in Uses(ReadSchema(DocumentAt(l))) : e = <<l, m>>
      BY <2>1
    <2> QED BY <2>1, <2>2, <1>2, <1>4
  <1>6. \A x \in node : \A y : Loadable(x) /\ y \in Uses(ReadSchema(DocumentAt(x))) => <<x, y>> \in edge
    OBVIOUS
  <1> HIDE DEF edge
  <1> QED BY <1>1, <1>3, <1>4, <1>5, <1>6 DEF IsGraph

(* What a WSDL among the documents says and imports.                       *)
ClosedUnderImports(S) ==
    \A l \in S : ReadableWsdl(l) => ToSet(Says(l).imports) \ {Absent} \subseteq S
WsdlsKnown ==
    /\ IsGraph(documents.imports) /\ documents.wsdls \subseteq documents.imports.node
    /\ documents.imports = [node |-> documents.imports.node, edge |-> documents.imports.edge]
    /\ Root \in documents.wsdls
    /\ \A l \in documents.wsdls : ReadableWsdl(l) => l \in DOMAIN documents.says
    /\ \A l \in DOMAIN documents.says :
           /\ l \in documents.wsdls /\ ReadableWsdl(l)
           /\ documents.says[l] = Says(l) /\ WellReadWsdl(Says(l))
           /\ \A m \in ToSet(documents.says[l].imports) \ {Absent} :
                  m \in documents.wsdls /\ <<l, m>> \in documents.imports.edge
    /\ \A S : (Root \in S /\ ClosedUnderImports(S)) => documents.wsdls \subseteq S

(* Every WSDL the root imports is one the files mention.                   *)
LEMMA WsdlsAreKnown == DocumentsInv => WsdlsKnown
  <1> SUFFICES ASSUME DocumentsInv PROVE WsdlsKnown
    OBVIOUS
  <1> DEFINE G == documents.imports
  <1>1. files \in Worlds /\ G = WsdlImports /\ documents.wsdls = Reached(G, {Root})
    BY DEF DocumentsInv
  <1>2. documents.says = [l \in {w \in documents.wsdls : ReadableWsdl(w)} |-> Says(l)]
    BY DEF DocumentsInv
  <1> HIDE DEF G
  <1>3. /\ IsGraph(G) /\ Root \in G.node
        /\ \A e \in G.edge : ReadableWsdl(e[1]) /\ e[2] \in ToSet(Says(e[1]).imports) \ {Absent}
        /\ \A l \in G.node : \A m : ReadableWsdl(l) /\ m \in ToSet(Says(l).imports) \ {Absent}
                  => <<l, m>> \in G.edge /\ m \in G.node
    BY <1>1, ImportsGraph
  <1>4. Root \in documents.wsdls /\ documents.wsdls \subseteq G.node
    BY <1>1, <1>3, ReachedStart, ReachedNode
  <1>5. \A l \in DOMAIN documents.says : l \in documents.wsdls /\ ReadableWsdl(l) /\ documents.says[l] = Says(l)
    BY <1>2
  <1>6. ASSUME NEW l \in DOMAIN documents.says, NEW m \in ToSet(documents.says[l].imports) \ {Absent}
        PROVE  m \in documents.wsdls /\ <<l, m>> \in G.edge
    <2>1. <<l, m>> \in G.edge
      BY <1>3, <1>4, <1>5
    <2>2. <<l, m>>[1] \in Reached(G, {Root})
      BY <1>1, <1>5
    <2>3. <<l, m>>[2] \in Reached(G, {Root})
      BY <1>3, <2>1, <2>2, ReachedStep
    <2> QED BY <1>1, <2>1, <2>3
  <1>7. ASSUME NEW S, Root \in S, ClosedUnderImports(S)
        PROVE  documents.wsdls \subseteq S
    <2>1. \A e \in G.edge : e[1] \in S => e[2] \in S
      BY <1>3, <1>7 DEF ClosedUnderImports
    <2> QED BY <1>1, <1>3, <1>7, <2>1, ReachedLeast
  <1>8. \A l \in DOMAIN documents.says : WellReadWsdl(Says(l))
    BY <1>1, <1>5, WellRead
  <1>9. \A l \in documents.wsdls : ReadableWsdl(l) => l \in DOMAIN documents.says
    BY <1>2
  <1>10. G = [node |-> G.node, edge |-> G.edge]
    BY <1>1 DEF WsdlImports
  <1> QED BY <1>3, <1>4, <1>5, <1>6, <1>7, <1>8, <1>9, <1>10 DEF WsdlsKnown, G

(* What the schemas among the documents use.                               *)
ClosedUnderUses(S) ==
    /\ \A s \in documents.inline : Uses(ReadSchema(s)) \subseteq S
    /\ \A x \in S : Loadable(x) => Uses(ReadSchema(DocumentAt(x))) \subseteq S
SchemasKnown ==
    /\ \A s \in documents.inline : ReadSchema(s) \in Schemas
    /\ \A l \in DOMAIN documents.says : ToSet(documents.says[l].schemas) \subseteq documents.inline
    /\ \A s \in documents.inline : \E l \in DOMAIN documents.says : s \in ToSet(documents.says[l].schemas)
    /\ \A x \in documents.xsds : Loadable(x) => ReadSchema(DocumentAt(x)) \in Schemas
    /\ \A schema \in Schemas :
           /\ WellReadSchema(schema) /\ Uses(schema) \subseteq documents.xsds
           /\ \/ \E s \in documents.inline : schema = ReadSchema(s)
              \/ \E x \in documents.xsds : Loadable(x) /\ schema = ReadSchema(DocumentAt(x))
    /\ \A S : ClosedUnderUses(S) => documents.xsds \subseteq S

(* So is every schema, and what any of them uses.                          *)
LEMMA SchemasAreKnown == DocumentsInv => SchemasKnown
  <1> SUFFICES ASSUME DocumentsInv PROVE SchemasKnown
    OBVIOUS
  <1> DEFINE G == documents.uses
             start == UNION {Uses(ReadSchema(s)) : s \in documents.inline}
  <1>1. /\ files \in Worlds /\ G = SchemaUses(documents.inline)
        /\ documents.xsds = Reached(G, start)
    BY DEF DocumentsInv
  <1>2. /\ documents.inline = UNION {ToSet(documents.says[l].schemas) : l \in DOMAIN documents.says}
        /\ documents.schemas =
               documents.inline \cup {DocumentAt(l) : l \in {x \in documents.xsds : Loadable(x)}}
    BY DEF DocumentsInv
  <1> HIDE DEF G
  <1>3. /\ IsGraph(G)
        /\ \A s \in documents.inline : Uses(ReadSchema(s)) \subseteq G.node
        /\ \A e \in G.edge : Loadable(e[1]) /\ e[2] \in Uses(ReadSchema(DocumentAt(e[1])))
        /\ \A x \in G.node : \A y : Loadable(x) /\ y \in Uses(ReadSchema(DocumentAt(x)))
                  => <<x, y>> \in G.edge
    BY <1>1, UsesGraph
  <1>4. start \subseteq G.node /\ documents.xsds \subseteq G.node /\ start \subseteq documents.xsds
    <2>1. start \subseteq G.node
      BY <1>3
    <2> HIDE DEF start
    <2> QED BY <2>1, <1>1, ReachedNode, ReachedStart
  <1>5. \A s \in documents.inline : Uses(ReadSchema(s)) \subseteq start
    OBVIOUS
  <1>6. /\ \A s \in documents.inline : ReadSchema(s) \in Schemas
        /\ \A x \in documents.xsds : Loadable(x) => ReadSchema(DocumentAt(x)) \in Schemas
        /\ \A schema \in Schemas :
               \/ \E s \in documents.inline : schema = ReadSchema(s)
               \/ \E x \in documents.xsds : Loadable(x) /\ schema = ReadSchema(DocumentAt(x))
    BY <1>2 DEF Schemas
  <1>7. ASSUME NEW x \in documents.xsds, Loadable(x) PROVE Uses(ReadSchema(DocumentAt(x))) \subseteq documents.xsds
    <2> SUFFICES ASSUME NEW y \in Uses(ReadSchema(DocumentAt(x))) PROVE y \in documents.xsds
      OBVIOUS
    <2>1. <<x, y>> \in G.edge /\ <<x, y>>[1] \in Reached(G, start)
      BY <1>1, <1>3, <1>4, <1>7
    <2> HIDE DEF start
    <2>2. <<x, y>>[2] \in Reached(G, start)
      BY <1>3, <2>1, ReachedStep
    <2> QED BY <1>1, <2>2
  <1>8. ASSUME NEW s \in documents.inline PROVE WellReadSchema(ReadSchema(s))
    <2>1. PICK l \in DOMAIN documents.says : s \in ToSet(documents.says[l].schemas)
      BY <1>2
    <2>2. WellReadWsdl(documents.says[l])
      BY <2>1, WsdlsAreKnown DEF WsdlsKnown
    <2> QED BY <2>1, <2>2 DEF WellReadWsdl
  <1>9. \A x : Loadable(x) => WellReadSchema(ReadSchema(DocumentAt(x)))
    BY <1>1, WellRead
  <1>10. ASSUME NEW S, ClosedUnderUses(S) PROVE documents.xsds \subseteq S
    <2>1. start \subseteq S
      BY <1>10 DEF ClosedUnderUses
    <2>2. \A e \in G.edge : e[1] \in S => e[2] \in S
      BY <1>3, <1>10 DEF ClosedUnderUses
    <2> HIDE DEF start
    <2> QED BY <1>1, <1>3, <1>4, <2>1, <2>2, ReachedLeast
  <1>11. /\ \A l \in DOMAIN documents.says : ToSet(documents.says[l].schemas) \subseteq documents.inline
         /\ \A s \in documents.inline : \E l \in DOMAIN documents.says : s \in ToSet(documents.says[l].schemas)
    BY <1>2
  <1>12. \A schema \in Schemas : WellReadSchema(schema) /\ Uses(schema) \subseteq documents.xsds
    BY <1>4, <1>5, <1>6, <1>7, <1>8, <1>9
  <1> QED BY <1>6, <1>10, <1>11, <1>12 DEF SchemasKnown

-----------------------------------------------------------------------------
(* What is asked of the loader.                                            *)

(* Asking for something new asks for nothing twice.                        *)
LEMMA AskedOnce ==
    ASSUME IsList(fetched), LoadedOnce, NEW x, \A i \in DOMAIN fetched : fetched[i] # x,
           fetched' = Append(fetched, x)
    PROVE  /\ LoadedOnce' /\ IsList(fetched')
           /\ \A i \in DOMAIN fetched' : fetched'[i] = x \/ \E j \in DOMAIN fetched : fetched'[i] = fetched[j]
  <1>1. /\ Len(fetched) \in Nat /\ DOMAIN fetched = 1 .. Len(fetched)
        /\ DOMAIN fetched' = 1 .. Len(fetched) + 1 /\ IsList(fetched')
        /\ \A i \in DOMAIN fetched : fetched'[i] = fetched[i]
        /\ fetched'[Len(fetched) + 1] = x
    BY AppendList, ListEntries
  <1>2. \A i \in DOMAIN fetched' : i \in DOMAIN fetched \/ i = Len(fetched) + 1
    BY <1>1
  <1>3. ASSUME NEW i \in DOMAIN fetched', NEW j \in DOMAIN fetched', fetched'[i] = fetched'[j]
        PROVE  i = j
    BY <1>1, <1>2, <1>3 DEF LoadedOnce
  <1>4. LoadedOnce'
    BY <1>3 DEF LoadedOnce
  <1> QED BY <1>1, <1>2, <1>4

(* A step asks for a location at most once, and marks it.                  *)
LEMMA FetchedSound == FetchedInv /\ LoadedOnce /\ [Next]_vars => FetchedInv' /\ LoadedOnce'
  <1> SUFFICES ASSUME FetchedInv, LoadedOnce, [Next]_vars PROVE FetchedInv' /\ LoadedOnce'
    OBVIOUS
  <1>1. ASSUME UNCHANGED <<fetched, visited, already>> PROVE FetchedInv' /\ LoadedOnce'
    BY <1>1 DEF FetchedInv, LoadedOnce
  <1>2. CASE FollowImport
    <2> DEFINE location == Head(Top.imports)
    <2>1. CASE location = Absent \/ location \in visited
      <3>1. UNCHANGED <<fetched, visited, already>>
        BY <1>2, <2>1 DEF FollowImport
      <3> QED BY <1>1, <3>1
    <2>2. CASE ~(location = Absent \/ location \in visited)
      <3>1. /\ visited' = visited \cup {location} /\ already' = already
            /\ fetched' = Append(fetched, <<"wsdl", location>>)
        BY <1>2, <2>2 DEF FollowImport
      <3> HIDE DEF location
      <3>2. \A i \in DOMAIN fetched : fetched[i] # <<"wsdl", location>>
        BY <2>2 DEF FetchedInv
      <3>3. /\ LoadedOnce' /\ IsList(fetched')
            /\ \A i \in DOMAIN fetched' : \/ fetched'[i] = <<"wsdl", location>>
                                          \/ \E j \in DOMAIN fetched : fetched'[i] = fetched[j]
        BY <3>1, <3>2, AskedOnce DEF FetchedInv
      <3>4. <<"wsdl", location>> \in {"wsdl"} \X visited'
        BY <3>1
      <3>5. \A j \in DOMAIN fetched : \/ fetched[j] \in {"wsdl"} \X visited'
                                      \/ fetched[j] \in {"xsd"} \X already'
        BY <3>1 DEF FetchedInv
      <3> QED BY <3>3, <3>4, <3>5 DEF FetchedInv
    <2> QED BY <2>1, <2>2
  <1>3. CASE FollowPending /\ UNCHANGED wsdlVars
    <2> DEFINE location == Head(pending)
    <2>0. visited' = visited
      BY <1>3 DEF wsdlVars
    <2>1. CASE location = Absent \/ location \in already
      <3>1. UNCHANGED <<fetched, already>>
        BY <1>3, <2>1 DEF FollowPending
      <3> QED BY <1>1, <2>0, <3>1
    <2>2. CASE ~(location = Absent \/ location \in already)
      <3>1. /\ already' = already \cup {location}
            /\ fetched' = Append(fetched, <<"xsd", location>>)
        BY <1>3, <2>2 DEF FollowPending
      <3> HIDE DEF location
      <3>2. \A i \in DOMAIN fetched : fetched[i] # <<"xsd", location>>
        BY <2>2 DEF FetchedInv
      <3>3. /\ LoadedOnce' /\ IsList(fetched')
            /\ \A i \in DOMAIN fetched' : \/ fetched'[i] = <<"xsd", location>>
                                          \/ \E j \in DOMAIN fetched : fetched'[i] = fetched[j]
        BY <3>1, <3>2, AskedOnce DEF FetchedInv
      <3>4. <<"xsd", location>> \in {"xsd"} \X already'
        BY <3>1
      <3>5. \A j \in DOMAIN fetched : \/ fetched[j] \in {"wsdl"} \X visited'
                                      \/ fetched[j] \in {"xsd"} \X already'
        BY <2>0, <3>1 DEF FetchedInv
      <3> QED BY <3>3, <3>4, <3>5 DEF FetchedInv
    <2> QED BY <2>1, <2>2
  <1>4. CASE SchemaStep /\ ~FollowPending
    BY <1>1, <1>4 DEF SchemaStep, SchemaNext, CollectSchema, EndCollecting, StartType, ResolveBase,
       CompleteType, FinishSchema, wsdlVars
  <1>5. CASE ResolveInlineSchema \/ AbsorbSchema \/ FailSchema \/ ReturnFrame \/ UNCHANGED vars
    BY <1>1, <1>5 DEF ResolveInlineSchema, AbsorbSchema, FailSchema, ReturnFrame, vars, schemaVars, wsdlVars
  <1> QED BY <1>2, <1>3, <1>4, <1>5 DEF Next, SchemaStep

-----------------------------------------------------------------------------
(* The stack.                                                              *)

(* A frame with one import less, one inline schema less, or more           *)
(* definitions, is a frame.                                                *)
LEMMA FrameShortened ==
    ASSUME NEW f, FrameInv(f), f.imports # <<>>, NEW r, r = [f EXCEPT !.imports = Tail(@)]
    PROVE  /\ FrameInv(r) /\ r.at = f.at /\ r.def = f.def /\ r.schemas = f.schemas
           /\ r.imports = Tail(f.imports)
           /\ ToSet(f.imports) = {Head(f.imports)} \cup ToSet(r.imports)
  <1>1. r = [at |-> f.at, def |-> f.def, imports |-> Tail(f.imports), schemas |-> f.schemas]
    BY DEF FrameInv
  <1>2. IsList(Tail(f.imports)) /\ ToSet(f.imports) = {Head(f.imports)} \cup ToSet(Tail(f.imports))
    BY TailList DEF FrameInv
  <1> QED BY <1>1, <1>2 DEF FrameInv

(* A frame whose first inline schema is taken off is a frame.              *)
LEMMA FrameOneSchemaLess ==
    ASSUME NEW f, FrameInv(f), f.schemas # <<>>, NEW r, r = [f EXCEPT !.schemas = Tail(@)]
    PROVE  /\ FrameInv(r) /\ r.at = f.at /\ r.def = f.def /\ r.imports = f.imports
           /\ r.schemas = Tail(f.schemas)
           /\ ToSet(f.schemas) = {Head(f.schemas)} \cup ToSet(r.schemas)
  <1>1. r = [at |-> f.at, def |-> f.def, imports |-> f.imports, schemas |-> Tail(f.schemas)]
    BY DEF FrameInv
  <1>2. IsList(Tail(f.schemas)) /\ ToSet(f.schemas) = {Head(f.schemas)} \cup ToSet(Tail(f.schemas))
    BY TailList DEF FrameInv
  <1> QED BY <1>1, <1>2 DEF FrameInv

(* A frame into which a definition is merged is a frame.                   *)
LEMMA FrameMerged ==
    ASSUME NEW f, FrameInv(f), NEW d, NEW r, r = [f EXCEPT !.def = MergeInto(@, d)]
    PROVE  /\ FrameInv(r) /\ r.at = f.at /\ r.def = MergeInto(f.def, d)
           /\ r.imports = f.imports /\ r.schemas = f.schemas
  <1>1. r = [at |-> f.at, def |-> MergeInto(f.def, d), imports |-> f.imports, schemas |-> f.schemas]
    BY DEF FrameInv
  <1>2. DOMAIN MergeInto(f.def, d) = DOMAIN f.def
    BY DEF MergeInto
  <1> QED BY <1>1, <1>2 DEF FrameInv

(* The frame that a file starts with.                                      *)
LEMMA FirstFrame ==
    ASSUME WsdlsKnown, NEW l \in DOMAIN documents.says
    PROVE  LET f == Frame(l, Says(l))
           IN  /\ FrameInv(f) /\ f.at = l /\ f.def = documents.says[l]
               /\ f.imports = documents.says[l].imports /\ f.schemas = documents.says[l].schemas
  <1>1. documents.says[l] = Says(l) /\ WellReadWsdl(Says(l))
    BY DEF WsdlsKnown
  <1> QED BY <1>1 DEF FrameInv, Frame, WellReadWsdl

(* Its last frame is replaced, a frame is pushed or popped.                *)
LEMMA StackReplaced ==
    ASSUME NEW s, IsStack(s), s # <<>>, NEW f, FrameInv(f), f.at = s[Len(s)].at,
           NEW r, r = [s EXCEPT ![Len(s)] = f]
    PROVE  /\ IsStack(r) /\ DOMAIN r = DOMAIN s /\ Len(r) = Len(s) /\ r # <<>>
           /\ Len(s) \in DOMAIN s /\ r[Len(s)] = f
           /\ \A k \in DOMAIN s : r[k].at = s[k].at /\ (k # Len(s) => r[k] = s[k])
  <1>1. IsList(s) /\ Len(s) \in DOMAIN s
    <2>1. IsList(s) /\ Len(s) # 0 /\ Len(s) \in Nat /\ DOMAIN s = 1 .. Len(s)
      BY ListEntries DEF IsStack
    <2> QED BY <2>1
  <1>2. /\ IsList(r) /\ Len(r) = Len(s) /\ DOMAIN r = DOMAIN s /\ r # <<>>
        /\ r[Len(s)] = f /\ \A k \in DOMAIN s : k # Len(s) => r[k] = s[k]
    BY <1>1, ReplaceInList
  <1>3. \A k \in DOMAIN s : r[k].at = s[k].at /\ FrameInv(r[k])
    BY <1>2 DEF IsStack
  <1>4. \A k \in DOMAIN r : k + 1 \in DOMAIN r => Imports(r[k].at, r[k + 1].at)
    BY <1>2, <1>3 DEF IsStack
  <1> QED BY <1>1, <1>2, <1>3, <1>4 DEF IsStack

(* A stack onto which an imported file is pushed is a stack.               *)
LEMMA StackPushed ==
    ASSUME NEW s, IsStack(s), s # <<>>, NEW f, FrameInv(f),
           Imports(s[Len(s)].at, f.at),
           NEW r, r = Append(s, f)
    PROVE  /\ IsStack(r) /\ DOMAIN s \subseteq DOMAIN r /\ Len(r) = Len(s) + 1 /\ r # <<>>
           /\ Len(r) \in DOMAIN r /\ 1 \in DOMAIN s /\ r[Len(r)] = f
           /\ \A k \in DOMAIN r : k \in DOMAIN s \/ k = Len(r)
           /\ \A k \in DOMAIN s : r[k] = s[k]
  <1>1. IsList(s) /\ Len(s) # 0 /\ Len(s) \in Nat /\ DOMAIN s = 1 .. Len(s)
    BY ListEntries DEF IsStack
  <1>2. /\ IsList(r) /\ Len(r) = Len(s) + 1 /\ r # <<>> /\ DOMAIN r = 1 .. Len(r)
        /\ r[Len(s) + 1] = f /\ \A k \in DOMAIN s : r[k] = s[k]
    BY <1>1, AppendList, ListEntries
  <1>3. DOMAIN s \subseteq DOMAIN r /\ Len(r) \in DOMAIN r /\ 1 \in DOMAIN s
    BY <1>1, <1>2
  <1>4. \A k \in DOMAIN r : k \in DOMAIN s \/ k = Len(r)
    BY <1>1, <1>2
  <1>5. \A k \in DOMAIN r : FrameInv(r[k])
    BY <1>2, <1>4 DEF IsStack
  <1>6. ASSUME NEW k \in DOMAIN r, k + 1 \in DOMAIN r PROVE Imports(r[k].at, r[k + 1].at)
    <2>1. k \in DOMAIN s /\ r[k] = s[k]
      BY <1>1, <1>2, <1>6
    <2>2. CASE k = Len(s)
      BY <1>2, <2>1, <2>2
    <2>3. CASE k # Len(s)
      <3>1. k + 1 \in DOMAIN s
        BY <1>1, <1>2, <1>6, <2>3
      <3> QED BY <1>2, <2>1, <3>1 DEF IsStack
    <2> QED BY <2>2, <2>3
  <1> QED BY <1>2, <1>3, <1>4, <1>5, <1>6 DEF IsStack

(* A stack without its last frame is a stack.                              *)
LEMMA StackPopped ==
    ASSUME NEW s, IsStack(s), s # <<>>, NEW r, r = Front(s)
    PROVE  /\ IsStack(r) /\ Len(r) = Len(s) - 1
           /\ \A k \in DOMAIN r : k \in DOMAIN s /\ k # Len(s) /\ r[k] = s[k]
           /\ \A k \in DOMAIN s : k # Len(s) => k \in DOMAIN r
  <1>1. /\ IsList(r) /\ Len(r) = Len(s) - 1
        /\ \A k \in DOMAIN s : k # Len(s) => k \in DOMAIN r
        /\ \A k \in DOMAIN r : k \in DOMAIN s /\ k # Len(s) /\ r[k] = s[k]
    BY FrontList DEF IsStack
  <1> QED BY <1>1 DEF IsStack

(* The last frame.                                                         *)
LEMMA TopFrame ==
    ASSUME StackInv, outcome = "running"
    PROVE  /\ IsStack(stack) /\ stack # <<>> /\ Len(stack) \in Nat /\ DOMAIN stack = 1 .. Len(stack)
           /\ Len(stack) \in DOMAIN stack /\ 1 \in DOMAIN stack
           /\ Top = stack[Len(stack)] /\ FrameInv(Top)
  <1>1. IsStack(stack) /\ stack # <<>>
    BY DEF StackInv
  <1>2. Len(stack) \in Nat /\ Len(stack) # 0 /\ DOMAIN stack = 1 .. Len(stack)
    BY <1>1, ListEntries DEF IsStack
  <1>3. Len(stack) \in DOMAIN stack /\ 1 \in DOMAIN stack
    BY <1>2
  <1>4. Top = stack[Len(stack)]
    BY DEF Top, Last
  <1> QED BY <1>1, <1>2, <1>3, <1>4 DEF IsStack

(* What FollowImport does: the location is passed over, or refused, or     *)
(* entered.                                                                *)
Location == Head(Top.imports)
Rest == [Top EXCEPT !.imports = Tail(@)]
PassedOver ==
    /\ Location = Absent \/ Location \in visited
    /\ stack' = [stack EXCEPT ![Len(stack)] = Rest]
    /\ UNCHANGED <<visited, outcome>>
Refused ==
    /\ Location # Absent /\ ~ReadableWsdl(Location)
    /\ outcome' = "failed" /\ UNCHANGED stack
Entered ==
    /\ Location # Absent /\ ReadableWsdl(Location)
    /\ stack' = Append([stack EXCEPT ![Len(stack)] = Rest], Frame(Location, Says(Location)))
    /\ visited' = visited \cup {Location} /\ UNCHANGED outcome

(* Following an import does one of these three.                            *)
LEMMA Followed ==
    ASSUME FollowImport
    PROVE  /\ outcome = "running" /\ Top.imports # <<>>
           /\ PassedOver \/ Refused \/ Entered
           /\ UNCHANGED <<files, already, schemaState, queue, pending, flat, chain, memo, registry,
                          documents, types, elementTypes, definition, results, origin>>
  <1>1. CASE Location = Absent \/ Location \in visited
    BY <1>1 DEF FollowImport, PassedOver, Location, Rest, SetTop
  <1>2. CASE ~(Location = Absent \/ Location \in visited)
    <2>1. CASE ReadableWsdl(Location)
      BY <1>2, <2>1 DEF FollowImport, Entered, Location, Rest
    <2>2. CASE ~ReadableWsdl(Location)
      BY <1>2, <2>2 DEF FollowImport, Refused, Location, Fail
    <2> QED BY <2>1, <2>2
  <1> QED BY <1>1, <1>2

(* The location is one of the documents; what is left of the frame.        *)
LEMMA Imported ==
    ASSUME WsdlsKnown, StackInv, outcome = "running", Top.imports # <<>>
    PROVE  /\ FrameInv(Rest) /\ Rest.at = Top.at /\ Rest.def = Top.def /\ Rest.schemas = Top.schemas
           /\ ToSet(Top.imports) = {Location} \cup ToSet(Rest.imports)
           /\ Top.at \in DOMAIN documents.says
           /\ Location # Absent => /\ Location \in documents.wsdls
                                   /\ Imports(Top.at, Location)
           /\ Location # Absent /\ ReadableWsdl(Location) => Location \in DOMAIN documents.says
  <1>1. FrameInv(Top)
    BY TopFrame
  <1>2. /\ FrameInv(Rest) /\ Rest.at = Top.at /\ Rest.def = Top.def /\ Rest.schemas = Top.schemas
        /\ ToSet(Top.imports) = {Location} \cup ToSet(Rest.imports)
    BY <1>1, FrameShortened DEF Rest, Location
  <1>3. Top.at \in DOMAIN documents.says /\ Location \in ToSet(documents.says[Top.at].imports)
    BY <1>1, <1>2 DEF FrameInv
  <1> QED BY <1>2, <1>3 DEF WsdlsKnown, Imports

(* The stack once the location is passed over, and once it is entered.     *)
SameFrames ==
    \A k \in DOMAIN stack : /\ stack'[k].at = stack[k].at
                            /\ stack'[k].def = stack[k].def
                            /\ stack'[k].schemas = stack[k].schemas
                            /\ k # Len(stack) => stack'[k] = stack[k]
PassedStack ==
    /\ IsStack(stack') /\ stack' # <<>> /\ DOMAIN stack' = DOMAIN stack /\ Len(stack') = Len(stack)
    /\ stack'[Len(stack)] = Rest /\ SameFrames
EnteredStack ==
    /\ IsStack(stack') /\ stack' # <<>> /\ DOMAIN stack \subseteq DOMAIN stack'
    /\ Len(stack') = Len(stack) + 1 /\ Len(stack') \in DOMAIN stack'
    /\ \A k \in DOMAIN stack' : k \in DOMAIN stack \/ k = Len(stack')
    /\ stack'[Len(stack')] = Frame(Location, Says(Location))
    /\ stack'[Len(stack)] = Rest /\ SameFrames

(* An import passed over leaves the frames where they are.                 *)
LEMMA StackPassed ==
    ASSUME WsdlsKnown, StackInv, outcome = "running", Top.imports # <<>>, PassedOver
    PROVE  PassedStack
  <1>1. /\ IsStack(stack) /\ stack # <<>> /\ Top = stack[Len(stack)]
    BY TopFrame
  <1>2. FrameInv(Rest) /\ Rest.at = Top.at /\ Rest.def = Top.def /\ Rest.schemas = Top.schemas
    BY Imported
  <1> DEFINE r == [stack EXCEPT ![Len(stack)] = Rest]
  <1>3. /\ IsStack(r) /\ r # <<>> /\ DOMAIN r = DOMAIN stack /\ Len(r) = Len(stack)
        /\ Len(stack) \in DOMAIN stack /\ r[Len(stack)] = Rest
        /\ \A k \in DOMAIN stack : r[k].at = stack[k].at /\ (k # Len(stack) => r[k] = stack[k])
    BY <1>1, <1>2, StackReplaced
  <1>4. stack' = r
    BY DEF PassedOver
  <1> HIDE DEF r
  <1>5. \A k \in DOMAIN stack : r[k].def = stack[k].def /\ r[k].schemas = stack[k].schemas
    BY <1>1, <1>2, <1>3
  <1> QED BY <1>3, <1>4, <1>5 DEF PassedStack, SameFrames

(* An import entered leaves the frames below it where they are.            *)
LEMMA StackEntered ==
    ASSUME WsdlsKnown, StackInv, outcome = "running", Top.imports # <<>>, Entered
    PROVE  EnteredStack
  <1> DEFINE s == [stack EXCEPT ![Len(stack)] = Rest]
  <1>1. /\ IsStack(stack) /\ stack # <<>> /\ Top = stack[Len(stack)]
    BY TopFrame
  <1>2. FrameInv(Rest) /\ Rest.at = Top.at /\ Rest.def = Top.def /\ Rest.schemas = Top.schemas
    BY Imported
  <1>3. /\ IsStack(s) /\ s # <<>> /\ DOMAIN s = DOMAIN stack /\ Len(s) = Len(stack)
        /\ Len(stack) \in DOMAIN stack /\ s[Len(stack)] = Rest
        /\ \A k \in DOMAIN stack : s[k].at = stack[k].at /\ (k # Len(stack) => s[k] = stack[k])
    BY <1>1, <1>2, StackReplaced
  <1> HIDE DEF s
  <1>4. /\ Location \in DOMAIN documents.says /\ Imports(Top.at, Location)
    BY Imported DEF Entered
  <1> DEFINE f == Frame(Location, Says(Location))
             r == Append(s, f)
  <1>5. FrameInv(f) /\ f.at = Location
    BY <1>4, FirstFrame
  <1>6. stack' = r
    BY DEF Entered, s
  <1>7. r = Append(s, f)
    OBVIOUS
  <1> HIDE DEF f, r
  <1>8. Imports(s[Len(s)].at, f.at)
    BY <1>2, <1>3, <1>4, <1>5
  <1>9. /\ IsStack(r) /\ DOMAIN s \subseteq DOMAIN r /\ Len(r) = Len(s) + 1 /\ r # <<>>
        /\ Len(r) \in DOMAIN r /\ r[Len(r)] = f
        /\ \A k \in DOMAIN r : k \in DOMAIN s \/ k = Len(r)
        /\ \A k \in DOMAIN s : r[k] = s[k]
    <2>1. IsStack(s) /\ s # <<>> /\ FrameInv(f) /\ Imports(s[Len(s)].at, f.at) /\ r = Append(s, f)
      BY <1>3, <1>5, <1>8, <1>7
    <2>2. IsStack(r)
      BY <2>1, StackPushed
    <2>3. DOMAIN s \subseteq DOMAIN r /\ Len(r) = Len(s) + 1 /\ r # <<>>
      BY <2>1, StackPushed
    <2>4. Len(r) \in DOMAIN r /\ r[Len(r)] = f
      BY <2>1, StackPushed
    <2>5. \A k \in DOMAIN r : k \in DOMAIN s \/ k = Len(r)
      BY <2>1, StackPushed
    <2>6. \A k \in DOMAIN s : r[k] = s[k]
      BY <2>1, StackPushed
    <2> QED BY <2>2, <2>3, <2>4, <2>5, <2>6
  <1>10. \A k \in DOMAIN stack : s[k].def = stack[k].def /\ s[k].schemas = stack[k].schemas
    BY <1>1, <1>2, <1>3
  <1> QED BY <1>3, <1>6, <1>9, <1>10 DEF f, EnteredStack, SameFrames

(* A frame returns: the load is over, or the frame below has the           *)
(* definitions.                                                            *)
Below == stack[Len(stack) - 1]
Completed ==
    /\ Len(stack) = 1
    /\ outcome' = "ok" /\ definition' = Top.def /\ stack' = <<>>
Returned ==
    /\ Len(stack) # 1
    /\ UNCHANGED <<outcome, definition>>
    /\ stack' = [Front(stack) EXCEPT ![Len(stack) - 1].def = MergeInto(@, Top.def)]

(* The end of a frame is the end of the load, or a return.                 *)
LEMMA Returns ==
    ASSUME ReturnFrame
    PROVE  /\ outcome = "running" /\ Top.imports = <<>> /\ Top.schemas = <<>>
           /\ Completed \/ Returned
           /\ UNCHANGED <<schemaVars, visited, types, elementTypes, results, origin, documents>>
  BY DEF ReturnFrame, Completed, Returned

(* The stack once the frame below has the definitions.                     *)
StackBelow ==
    /\ IsStack(stack') /\ stack' # <<>>
    /\ Len(stack) - 1 \in DOMAIN stack /\ Len(stack) - 1 \in DOMAIN stack'
    /\ Imports(Below.at, Top.at) /\ FrameInv(Below)
    /\ stack'[Len(stack) - 1].at = Below.at
    /\ stack'[Len(stack) - 1].def = MergeInto(Below.def, Top.def)
    /\ stack'[Len(stack) - 1].imports = Below.imports
    /\ stack'[Len(stack) - 1].schemas = Below.schemas
    /\ \A k \in DOMAIN stack : k # Len(stack) => k \in DOMAIN stack'
    /\ \A k \in DOMAIN stack' : k \in DOMAIN stack /\ (k = Len(stack) - 1 \/ stack'[k] = stack[k])

(* A return leaves the frames below where they are.                        *)
LEMMA StackReturned ==
    ASSUME StackInv, outcome = "running", Returned
    PROVE  StackBelow
  <1> DEFINE s == Front(stack)
             m == Len(stack) - 1
             f == [Below EXCEPT !.def = MergeInto(@, Top.def)]
  <1>1. /\ IsStack(stack) /\ stack # <<>> /\ Top = stack[Len(stack)]
        /\ Len(stack) \in Nat /\ DOMAIN stack = 1 .. Len(stack) /\ Len(stack) \in DOMAIN stack
    BY TopFrame
  <1>2. m \in DOMAIN stack /\ m # Len(stack) /\ m + 1 = Len(stack)
    <2>1. PICK n \in Nat : n = Len(stack)
      BY <1>1
    <2>2. n # 1 /\ n \in 1 .. n /\ DOMAIN stack = 1 .. n
      BY <1>1, <2>1 DEF Returned
    <2>3. n - 1 \in 1 .. n /\ n - 1 # n /\ (n - 1) + 1 = n
      BY <2>2
    <2> QED BY <2>1, <2>2, <2>3
  <1>3. FrameInv(Below) /\ Imports(Below.at, Top.at)
    <2>1. m + 1 \in DOMAIN stack /\ stack[m + 1] = Top
      BY <1>1, <1>2
    <2> QED BY <1>1, <1>2, <2>1 DEF IsStack, Below
  <1>4. /\ IsStack(s) /\ Len(s) = m
        /\ \A k \in DOMAIN s : k \in DOMAIN stack /\ k # Len(stack) /\ s[k] = stack[k]
        /\ \A k \in DOMAIN stack : k # Len(stack) => k \in DOMAIN s
    BY <1>1, StackPopped
  <1>5. m \in DOMAIN s /\ s[m] = Below /\ s # <<>>
    <2>1. m \in DOMAIN s /\ s[m] = Below
      BY <1>2, <1>4 DEF Below
    <2> QED BY <2>1, EmptyList
  <1>6. stack' = [s EXCEPT ![m] = f]
    BY <1>5 DEF Returned
  <1>7. /\ FrameInv(f) /\ f.at = Below.at /\ f.def = MergeInto(Below.def, Top.def)
        /\ f.imports = Below.imports /\ f.schemas = Below.schemas
    BY <1>3, FrameMerged
  <1> DEFINE r == [s EXCEPT ![m] = f]
  <1> HIDE DEF s, f, m
  <1>9. stack' = r
    BY <1>6
  <1>14. r = [s EXCEPT ![Len(s)] = f] /\ f.at = s[Len(s)].at
    BY <1>4, <1>5, <1>7
  <1> HIDE DEF r
  <1>8. /\ IsStack(r) /\ DOMAIN r = DOMAIN s /\ r # <<>> /\ r[m] = f
        /\ \A k \in DOMAIN s : k # m => r[k] = s[k]
    <2>1. IsStack(s) /\ s # <<>> /\ FrameInv(f)
      BY <1>4, <1>5, <1>7
    <2>2. IsStack(r) /\ DOMAIN r = DOMAIN s /\ r # <<>>
      BY <1>14, <2>1, StackReplaced
    <2>3. r[Len(s)] = f /\ \A k \in DOMAIN s : k # Len(s) => r[k] = s[k]
      BY <1>14, <2>1, StackReplaced
    <2> QED BY <1>4, <2>2, <2>3
  <1>10. IsStack(stack') /\ stack' # <<>> /\ m \in DOMAIN stack /\ m \in DOMAIN stack'
    BY <1>2, <1>5, <1>8, <1>9
  <1>11. \A k \in DOMAIN stack' : k \in DOMAIN stack /\ (k = m \/ stack'[k] = stack[k])
    BY <1>4, <1>8, <1>9
  <1>12. \A k \in DOMAIN stack : k # Len(stack) => k \in DOMAIN stack'
    BY <1>4, <1>8, <1>9
  <1>13. stack'[m] = f
    BY <1>8, <1>9
  <1> QED BY <1>3, <1>7, <1>10, <1>11, <1>12, <1>13 DEF StackBelow, m

(* The stack once a schema is absorbed.                                    *)
Absorbed ==
    /\ IsStack(stack') /\ stack' # <<>> /\ DOMAIN stack' = DOMAIN stack /\ Len(stack') = Len(stack)
    /\ ToSet(Top.schemas) = {Head(Top.schemas)} \cup ToSet(stack'[Len(stack)].schemas)
    /\ \A k \in DOMAIN stack : /\ stack'[k].at = stack[k].at
                               /\ stack'[k].def = stack[k].def
                               /\ stack'[k].imports = stack[k].imports
                               /\ k # Len(stack) => stack'[k] = stack[k]

(* So does the end of a schema.                                            *)
LEMMA StackAbsorbed ==
    ASSUME StackInv, AbsorbSchema
    PROVE  Absorbed
  <1> DEFINE f == [Top EXCEPT !.schemas = Tail(@)]
             r == [stack EXCEPT ![Len(stack)] = f]
  <1>1. outcome = "running" /\ schemaState = "done" /\ stack' = r
    BY DEF AbsorbSchema, SetTop
  <1>2. IsStack(stack) /\ stack # <<>> /\ Top = stack[Len(stack)] /\ FrameInv(Top) /\ Top.schemas # <<>>
    BY <1>1, TopFrame DEF StackInv
  <1>3. /\ FrameInv(f) /\ f.at = Top.at /\ f.def = Top.def /\ f.imports = Top.imports
        /\ ToSet(Top.schemas) = {Head(Top.schemas)} \cup ToSet(f.schemas)
    BY <1>2, FrameOneSchemaLess
  <1> HIDE DEF f
  <1>4. /\ IsStack(r) /\ r # <<>> /\ DOMAIN r = DOMAIN stack /\ Len(r) = Len(stack)
        /\ Len(stack) \in DOMAIN stack /\ r[Len(stack)] = f
        /\ \A k \in DOMAIN stack : r[k].at = stack[k].at /\ (k # Len(stack) => r[k] = stack[k])
    BY <1>2, <1>3, StackReplaced
  <1> HIDE DEF r
  <1>5. \A k \in DOMAIN stack : r[k].def = stack[k].def /\ r[k].imports = stack[k].imports
    BY <1>2, <1>3, <1>4
  <1> QED BY <1>1, <1>3, <1>4, <1>5 DEF Absorbed

(* What SchemaNext leaves of a load that goes on.                          *)
LEMMA SchemaStates ==
    ASSUME SchemaStep
    PROVE  /\ outcome = "running" /\ UNCHANGED <<wsdlVars, files>>
           /\ schemaState \in {"collecting", "resolving"}
           /\ schemaState' \in {"collecting", "resolving", "done", "failed"}
  BY DEF SchemaStep, SchemaNext, CollectSchema, FollowPending, EndCollecting, StartType, ResolveBase,
     CompleteType, FinishSchema

(* A stack, of the state after a step.                                     *)
LEMMA StackThen == IsStack(stack') /\ documents' = documents => IsStack(stack)'
  BY DEF IsStack, FrameInv, Imports

(* A step leaves a stack.                                                  *)
LEMMA StackSound == WsdlsKnown /\ StackInv /\ [Next]_vars => StackInv'
  <1> SUFFICES ASSUME WsdlsKnown, StackInv, [Next]_vars PROVE StackInv'
    OBVIOUS
  <1> USE DEF StackInv
  <1>1. CASE FollowImport
    <2>1. /\ outcome = "running" /\ Top.imports # <<>>
          /\ PassedOver \/ Refused \/ Entered
          /\ documents' = documents /\ schemaState' = schemaState
      BY <1>1, Followed
    <2>2. schemaState = "idle"
      BY <2>1
    <2>3. CASE PassedOver
      <3>1. /\ IsStack(stack') /\ stack' # <<>> /\ stack'[1].at = stack[1].at
        <4>1. PassedStack /\ 1 \in DOMAIN stack
          BY <2>1, <2>3, StackPassed, TopFrame
        <4> QED BY <4>1 DEF PassedStack, SameFrames
      <3> QED BY <2>1, <2>2, <2>3, <3>1, StackThen DEF PassedOver
    <2>4. CASE Refused
      BY <2>1, <2>2, <2>4, StackThen DEF Refused
    <2>5. CASE Entered
      <3>1. /\ IsStack(stack') /\ stack' # <<>> /\ stack'[1].at = stack[1].at
        <4>1. EnteredStack /\ 1 \in DOMAIN stack
          BY <2>1, <2>5, StackEntered, TopFrame
        <4> QED BY <4>1 DEF EnteredStack, SameFrames
      <3> QED BY <2>1, <2>2, <2>5, <3>1, StackThen DEF Entered
    <2> QED BY <2>1, <2>3, <2>4, <2>5
  <1>2. CASE ResolveInlineSchema
    <2>1. /\ outcome = "running" /\ Top.imports = <<>> /\ Top.schemas # <<>> /\ schemaState = "idle"
          /\ UNCHANGED <<stack, documents>>
          /\ \/ outcome' = "failed" /\ schemaState' = schemaState
             \/ /\ outcome' = "running" /\ schemaState' = "collecting" /\ Reparses(Head(Top.schemas))
      BY <1>2 DEF ResolveInlineSchema, Fail, BeginSchema
    <2>2. Top' = Top
      BY <2>1 DEF Top
    <2> QED BY <2>1, <2>2, StackThen
  <1>3. CASE SchemaStep
    <2>1. /\ outcome = "running" /\ UNCHANGED <<stack, documents, outcome>>
          /\ schemaState # "idle"
          /\ schemaState' \in {"collecting", "resolving", "done", "failed"}
      BY <1>3, SchemaStates DEF wsdlVars
    <2>2. Top' = Top
      BY <2>1 DEF Top
    <2> QED BY <2>1, <2>2, StackThen
  <1>4. CASE AbsorbSchema
    <2>1. /\ outcome' = "running" /\ schemaState' = "idle" /\ documents' = documents
          /\ outcome = "running"
      BY <1>4 DEF AbsorbSchema
    <2>2. Absorbed
      BY <1>4, StackAbsorbed
    <2>3. IsStack(stack') /\ stack' # <<>> /\ stack'[1].at = stack[1].at
      BY <2>1, <2>2, TopFrame DEF Absorbed
    <2> QED BY <2>1, <2>3, StackThen
  <1>5. CASE FailSchema
    <2>1. outcome' = "failed" /\ UNCHANGED <<stack, documents, schemaState>>
      BY <1>5 DEF FailSchema, Fail, schemaVars
    <2> QED BY <2>1, StackThen
  <1>6. CASE ReturnFrame
    <2>1. /\ outcome = "running" /\ Top.schemas = <<>>
          /\ Completed \/ Returned
          /\ UNCHANGED <<schemaState, documents>>
      BY <1>6, Returns DEF schemaVars
    <2>2. schemaState = "idle"
      BY <2>1
    <2>3. CASE Completed
      <3>1. IsStack(<<>>)
        BY EmptyList DEF IsStack
      <3> QED BY <2>1, <2>2, <2>3, <3>1, StackThen DEF Completed
    <2>4. CASE Returned
      <3>1. StackBelow
        BY <2>1, <2>4, StackReturned
      <3>2. IsStack(stack') /\ stack' # <<>>
        BY <3>1 DEF StackBelow
      <3>3. 1 \in DOMAIN stack'
        BY <3>2, ListEntries DEF IsStack
      <3>4. stack'[1].at = stack[1].at
        BY <3>1, <3>3 DEF StackBelow, Below
      <3> QED BY <2>1, <2>2, <2>4, <3>2, <3>4, StackThen DEF Returned
    <2> QED BY <2>1, <2>3, <2>4
  <1>7. CASE UNCHANGED vars
    <2>1. UNCHANGED <<stack, documents, outcome, schemaState>>
      BY <1>7 DEF vars, schemaVars, wsdlVars
    <2>2. Top' = Top
      BY <2>1 DEF Top
    <2> QED BY <2>1, <2>2, StackThen
  <1> QED BY <1>1, <1>2, <1>3, <1>4, <1>5, <1>6, <1>7 DEF Next

(* Whatever leaves the imports of the frames alone, or shortens them by    *)
(* what is seen, leaves nothing behind.                                    *)
LEMMA StillToFollow ==
    ASSUME VisitedInv, outcome # "failed", documents' = documents, visited \subseteq visited',
           \A k \in DOMAIN stack : \A m \in ToSet(stack[k].imports) \ {Absent} :
               \/ m \in visited'
               \/ \E j \in DOMAIN stack' : stack'[j].at = stack[k].at /\ m \in ToSet(stack'[j].imports),
           NEW l \in Seen, NEW m \in ToSet(documents.says[l].imports) \ {Absent}
    PROVE  m \in visited' \/ ToFollow(l, m)'
  BY DEF VisitedInv, ToFollow

(* A step marks what it enters and leaves no import behind.                *)
LEMMA VisitedSound == WsdlsKnown /\ StackInv /\ VisitedInv /\ [Next]_vars => VisitedInv'
  <1> SUFFICES ASSUME WsdlsKnown, StackInv, VisitedInv, [Next]_vars, outcome' # "failed"
               PROVE  VisitedInv'
    BY DEF VisitedInv
  <1> DEFINE Kept == \A k \in DOMAIN stack : \A m \in ToSet(stack[k].imports) \ {Absent} :
                 \/ m \in visited'
                 \/ \E j \in DOMAIN stack' : stack'[j].at = stack[k].at /\ m \in ToSet(stack'[j].imports)
  <1>1. ASSUME Kept, outcome # "failed", documents' = documents, visited' = visited
        PROVE  VisitedInv'
    <2>1. \A l \in Seen : \A m \in ToSet(documents.says[l].imports) \ {Absent} : m \in visited' \/ ToFollow(l, m)'
      BY <1>1, StillToFollow
    <2> QED BY <1>1, <2>1 DEF VisitedInv, Seen
  <1>2. ASSUME UNCHANGED <<stack, documents, visited>>, outcome # "failed" PROVE VisitedInv'
    <2>1. Kept
      BY <1>2
    <2> QED BY <1>1, <1>2, <2>1
  <1>3. CASE FollowImport
    <2>1. /\ outcome = "running" /\ Top.imports # <<>>
          /\ PassedOver \/ Refused \/ Entered
          /\ documents' = documents
      BY <1>3, Followed
    <2>2. /\ Top = stack[Len(stack)] /\ Len(stack) \in DOMAIN stack
          /\ ToSet(Top.imports) = {Location} \cup ToSet(Rest.imports) /\ Rest.at = Top.at
      BY <2>1, TopFrame, Imported
    <2>3. CASE PassedOver
      <3>1. PassedStack
        BY <2>1, <2>3, StackPassed
      <3>2. Location = Absent \/ Location \in visited'
        BY <2>3 DEF PassedOver
      <3>3. Kept
        BY <2>2, <3>1, <3>2 DEF PassedStack, SameFrames
      <3> HIDE DEF Kept
      <3> QED BY <1>1, <2>1, <2>3, <3>3 DEF PassedOver
    <2>4. CASE Refused
      BY <2>4 DEF Refused
    <2>5. CASE Entered
      <3>1. EnteredStack
        BY <2>1, <2>5, StackEntered
      <3>2. /\ Location \in DOMAIN documents.says /\ visited' = visited \cup {Location}
        BY <2>1, <2>5, Imported DEF Entered
      <3>3. Kept
        BY <2>2, <3>1, <3>2 DEF EnteredStack, SameFrames
      <3>4. \A l \in Seen : \A m \in ToSet(documents.says[l].imports) \ {Absent} : m \in visited' \/ ToFollow(l, m)'
        BY <2>1, <3>2, <3>3, StillToFollow
      <3>5. PICK new : new = Location
        OBVIOUS
      <3>6. /\ Frame(new, Says(new)).at = new
            /\ Frame(new, Says(new)).imports = documents.says[new].imports
        BY <3>2, <3>5, FirstFrame
      <3>7. \A m \in ToSet(documents.says[new].imports) : ToFollow(new, m)'
        BY <3>1, <3>5, <3>6 DEF EnteredStack, ToFollow
      <3>8. Seen' = Seen \cup {new}
        BY <3>2, <3>5 DEF Seen
      <3>9. Seen \subseteq DOMAIN documents.says
        BY <2>1 DEF VisitedInv
      <3> QED BY <2>1, <3>2, <3>4, <3>5, <3>7, <3>8, <3>9 DEF VisitedInv
    <2> QED BY <2>1, <2>3, <2>4, <2>5
  <1>4. CASE ResolveInlineSchema
    <2>1. UNCHANGED <<stack, documents, visited>> /\ outcome = "running"
      BY <1>4 DEF ResolveInlineSchema, Fail
    <2> QED BY <1>2, <2>1
  <1>5. CASE SchemaStep
    BY <1>2, <1>5, SchemaStates DEF wsdlVars
  <1>6. CASE AbsorbSchema
    <2>1. /\ outcome = "running" /\ UNCHANGED <<documents, visited>>
      BY <1>6 DEF AbsorbSchema
    <2>2. Kept
      BY <1>6, StackAbsorbed DEF Absorbed
    <2> HIDE DEF Kept
    <2> QED BY <1>1, <2>1, <2>2
  <1>7. CASE FailSchema
    BY <1>7 DEF FailSchema, Fail
  <1>8. CASE ReturnFrame
    <2>1. /\ outcome = "running" /\ Top.imports = <<>>
          /\ Completed \/ Returned
          /\ UNCHANGED <<visited, documents>>
      BY <1>8, Returns
    <2>2. /\ Top = stack[Len(stack)] /\ DOMAIN stack = 1 .. Len(stack) /\ ToSet(Top.imports) = {}
      BY <2>1, TopFrame, EmptyList
    <2>3. CASE Completed
      <3>1. \A k \in DOMAIN stack : stack[k] = Top
        BY <2>2, <2>3 DEF Completed
      <3>2. Kept
        BY <2>2, <3>1
      <3> HIDE DEF Kept
      <3> QED BY <1>1, <2>1, <3>2
    <2>4. CASE Returned
      <3>1. StackBelow
        BY <2>1, <2>4, StackReturned
      <3>2. Kept
        BY <2>2, <3>1 DEF StackBelow, Below
      <3> HIDE DEF Kept
      <3> QED BY <1>1, <2>1, <3>2
    <2> QED BY <2>1, <2>3, <2>4
  <1>9. CASE UNCHANGED vars
    BY <1>2, <1>9 DEF vars, wsdlVars
  <1> QED BY <1>3, <1>4, <1>5, <1>6, <1>7, <1>8, <1>9 DEF Next

-----------------------------------------------------------------------------
(* The definitions.                                                        *)

(* A file that defines a component is the first to be seen.                *)
LEMMA SelfVisible ==
    ASSUME WsdlsKnown, NEW l \in DOMAIN documents.says, NEW c, NEW name \in DOMAIN documents.says[l][c]
    PROVE  l \in VisibleDefiners(l, c, name)
  <1> DEFINE G == [documents.imports EXCEPT !.edge = {e \in @ : ~Defines(e[1], c, name)}]
  <1>1. l \in G.node
    BY DEF WsdlsKnown
  <1> HIDE DEF G
  <1>2. l \in Reached(G, {l})
    BY <1>1, ReachedStart
  <1> QED BY <1>2 DEF VisibleDefiners, Defines, G

(* What is visible from an imported file is visible from the importing one,*)
(* unless that defines the component.                                      *)
LEMMA VisibleThrough ==
    ASSUME WsdlsKnown, NEW a, NEW b, Imports(a, b), NEW c, NEW name, ~Defines(a, c, name)
    PROVE  VisibleDefiners(b, c, name) \subseteq VisibleDefiners(a, c, name)
  <1> DEFINE G == [documents.imports EXCEPT !.edge = {e \in @ : ~Defines(e[1], c, name)}]
  <1>1. /\ G.node = documents.imports.node
        /\ G.edge = {e \in documents.imports.edge : ~Defines(e[1], c, name)}
    BY DEF WsdlsKnown
  <1> HIDE DEF G
  <1>2. IsGraph(G)
    BY <1>1 DEF WsdlsKnown, IsGraph
  <1>3. <<a, b>> \in G.edge /\ a \in G.node
    BY <1>1, <1>2 DEF Imports, IsGraph
  <1>4. a \in Reached(G, {a})
    BY <1>3, ReachedStart
  <1>5. b \in Reached(G, {a})
    <2>1. <<a, b>>[1] \in Reached(G, {a})
      BY <1>4
    <2>2. <<a, b>>[2] \in Reached(G, {a})
      BY <1>2, <1>3, <2>1, ReachedStep
    <2> QED BY <2>2
  <1>6. Reached(G, {b}) \subseteq Reached(G, {a})
    BY <1>2, <1>5, ReachedOn
  <1> QED BY <1>6 DEF VisibleDefiners, G

(* A file as it is read has what it defines.                               *)
LEMMA MergedAtFirst ==
    ASSUME WsdlsKnown, NEW l \in DOMAIN documents.says
    PROVE  MergedFor(l, documents.says[l])
  BY SelfVisible DEF MergedFor

(* MergeInto has the names of both, and keeps what is right for both.      *)
LEMMA MergeIntoNames ==
    ASSUME NEW def, Merged \subseteq DOMAIN def, NEW imported, NEW c \in Merged
    PROVE  /\ DOMAIN MergeInto(def, imported)[c] = DOMAIN def[c] \cup DOMAIN imported[c]
           /\ \A name \in DOMAIN def[c] : MergeInto(def, imported)[c][name] = def[c][name]
           /\ \A name \in DOMAIN imported[c] \ DOMAIN def[c] :
                  MergeInto(def, imported)[c][name] = imported[c][name]
  BY DEF MergeInto, Filled

(* What a merged definition has, under each name.                          *)
LEMMA MergeIntoMerged ==
    ASSUME WsdlsKnown, NEW a \in DOMAIN documents.says, NEW b, Imports(a, b),
           NEW def, Merged \subseteq DOMAIN def, MergedFor(a, def),
           NEW imported, MergedFor(b, imported)
    PROVE  MergedFor(a, MergeInto(def, imported))
  <1> DEFINE d == MergeInto(def, imported)
  <1> SUFFICES ASSUME NEW c \in Merged
               PROVE  /\ DOMAIN documents.says[a][c] \subseteq DOMAIN d[c]
                      /\ \A name \in DOMAIN d[c] : \E l \in VisibleDefiners(a, c, name) :
                             d[c][name] = documents.says[l][c][name]
    BY DEF MergedFor
  <1>1. /\ DOMAIN d[c] = DOMAIN def[c] \cup DOMAIN imported[c]
        /\ \A name \in DOMAIN def[c] : d[c][name] = def[c][name]
        /\ \A name \in DOMAIN imported[c] \ DOMAIN def[c] : d[c][name] = imported[c][name]
    BY MergeIntoNames
  <1> HIDE DEF d
  <1>2. DOMAIN documents.says[a][c] \subseteq DOMAIN def[c]
    BY DEF MergedFor
  <1>3. ASSUME NEW name \in DOMAIN d[c]
        PROVE  \E l \in VisibleDefiners(a, c, name) : d[c][name] = documents.says[l][c][name]
    <2>1. CASE name \in DOMAIN def[c]
      <3>1. PICK l \in VisibleDefiners(a, c, name) : def[c][name] = documents.says[l][c][name]
        BY <2>1 DEF MergedFor
      <3> QED BY <1>1, <2>1, <3>1
    <2>2. CASE name \notin DOMAIN def[c]
      <3>1. name \in DOMAIN imported[c] \ DOMAIN def[c]
        BY <1>1, <1>3, <2>2
      <3>2. ~Defines(a, c, name)
        BY <1>2, <2>2 DEF Defines
      <3>3. PICK l \in VisibleDefiners(b, c, name) : imported[c][name] = documents.says[l][c][name]
        BY <3>1 DEF MergedFor
      <3>4. l \in VisibleDefiners(a, c, name)
        BY <3>2, <3>3, VisibleThrough
      <3> QED BY <1>1, <3>1, <3>3, <3>4
    <2> QED BY <2>1, <2>2
  <1> QED BY <1>1, <1>2, <1>3

(* Definitions, of the state after a step.                                 *)
DefinersIn(docs, a, c, name) ==
    LET defines(l) == l \in DOMAIN docs.says /\ name \in DOMAIN docs.says[l][c]
        through == [docs.imports EXCEPT !.edge = {e \in @ : ~defines(e[1])}]
    IN  {l \in Reached(through, {a}) : defines(l)}

(* Who is visible does not change with a step.                             *)
LEMMA VisibleThen ==
    ASSUME documents' = documents, NEW a, NEW c, NEW name
    PROVE  VisibleDefiners(a, c, name)' = VisibleDefiners(a, c, name)
  <1>1. VisibleDefiners(a, c, name) = DefinersIn(documents, a, c, name)
    BY DEF VisibleDefiners, Defines, DefinersIn
  <1>2. VisibleDefiners(a, c, name)' = DefinersIn(documents', a, c, name)
    BY DEF VisibleDefiners, Defines, DefinersIn
  <1> QED BY <1>1, <1>2

(* Nor does what a frame should have by now.                               *)
LEMMA MergedForThen ==
    ASSUME documents' = documents, NEW l, NEW def
    PROVE  MergedFor(l, def)' <=> MergedFor(l, def)
  BY VisibleThen DEF MergedFor

(* The same, for a step of the model.                                      *)
LEMMA MergedThen ==
    ASSUME documents' = documents
    PROVE  /\ AllMerged(stack') => AllMerged(stack)'
           /\ MergedFor(Root, definition') => MergedFor(Root, definition)'
  <1>1. AllMerged(stack') => AllMerged(stack)'
    <2> SUFFICES ASSUME AllMerged(stack') PROVE AllMerged(stack)'
      OBVIOUS
    <2>1. ASSUME NEW k \in DOMAIN stack' PROVE MergedFor(stack[k].at, stack[k].def)'
      <3>1. PICK l, def : l = stack'[k].at /\ def = stack'[k].def
        OBVIOUS
      <3>2. MergedFor(l, def)
        BY <2>1, <3>1 DEF AllMerged
      <3>3. MergedFor(l, def)'
        BY <3>2, MergedForThen
      <3> QED BY <3>1, <3>3 DEF MergedFor, VisibleDefiners, Defines
    <2> QED BY <2>1 DEF AllMerged
  <1>2. MergedFor(Root, definition') => MergedFor(Root, definition)'
    <2>1. PICK def : def = definition'
      OBVIOUS
    <2>2. MergedFor(Root, def)' <=> MergedFor(Root, def)
      BY MergedForThen
    <2> QED BY <2>1, <2>2 DEF MergedFor, VisibleDefiners, Defines
  <1> QED BY <1>1, <1>2

(* A step merges what it should.                                           *)
LEMMA MergeSound == WsdlsKnown /\ StackInv /\ VisitedInv /\ MergeInv /\ [Next]_vars => MergeInv'
  <1> SUFFICES ASSUME WsdlsKnown, StackInv, VisitedInv, MergeInv, [Next]_vars PROVE MergeInv'
    OBVIOUS
  <1> DEFINE SameHeld == \A c \in Merged : \A name : Held(c, name) => Held(c, name)'
  <1>1. ASSUME AllMerged(stack'), SameHeld, outcome = "running", outcome' # "ok",
               UNCHANGED <<documents, visited>>
        PROVE  MergeInv'
    <2>1. AllMerged(stack)'
      BY <1>1, MergedThen
    <2> QED BY <1>1, <2>1 DEF MergeInv, Seen
  <1>2. ASSUME UNCHANGED <<stack, documents, visited>>, outcome = "running", outcome' # "ok"
        PROVE  MergeInv'
    <2>1. SameHeld
      BY <1>2 DEF Held
    <2>2. AllMerged(stack')
      BY <1>2 DEF MergeInv
    <2> HIDE DEF SameHeld
    <2> QED BY <1>1, <1>2, <2>1, <2>2
  <1>3. CASE FollowImport
    <2>1. /\ outcome = "running" /\ Top.imports # <<>>
          /\ PassedOver \/ Refused \/ Entered
          /\ documents' = documents
      BY <1>3, Followed
    <2>3. CASE PassedOver
      <3>1. PassedStack
        BY <2>1, <2>3, StackPassed
      <3>2. AllMerged(stack')
        BY <3>1 DEF PassedStack, SameFrames, AllMerged, MergeInv
      <3>3. SameHeld
        BY <3>1 DEF PassedStack, SameFrames, Held
      <3> HIDE DEF SameHeld
      <3> QED BY <1>1, <2>1, <2>3, <3>2, <3>3 DEF PassedOver
    <2>4. CASE Refused
      <3>1. AllMerged(stack')
        BY <2>4 DEF Refused, MergeInv
      <3>2. AllMerged(stack)'
        BY <2>1, <3>1, MergedThen
      <3> QED BY <2>4, <3>2 DEF Refused, MergeInv
    <2>5. CASE Entered
      <3>1. EnteredStack
        BY <2>1, <2>5, StackEntered
      <3>2. PICK new : new = Location
        OBVIOUS
      <3>3. new \in DOMAIN documents.says /\ visited' = visited \cup {new} /\ outcome' = "running"
        BY <2>1, <2>5, <3>2, Imported DEF Entered
      <3>4. Frame(new, Says(new)).at = new /\ Frame(new, Says(new)).def = documents.says[new]
        BY <3>3, FirstFrame
      <3>5. AllMerged(stack')
        <4>1. MergedFor(new, documents.says[new])
          BY <3>3, MergedAtFirst
        <4> QED BY <3>1, <3>2, <3>4, <4>1 DEF EnteredStack, SameFrames, AllMerged, MergeInv
      <3>6. AllMerged(stack)'
        BY <2>1, <3>5, MergedThen
      <3>7. SameHeld
        BY <3>1 DEF EnteredStack, SameFrames, Held
      <3>8. \A c \in Merged : \A name \in DOMAIN documents.says[new][c] : Held(c, name)'
        BY <3>1, <3>2, <3>4 DEF EnteredStack, Held
      <3>9. \A l \in Seen' : l \in Seen \/ l = new
        BY <3>3 DEF Seen
      <3> QED BY <2>1, <3>3, <3>6, <3>7, <3>8, <3>9 DEF MergeInv
    <2> QED BY <2>1, <2>3, <2>4, <2>5
  <1>4. CASE ResolveInlineSchema
    <2>1. UNCHANGED <<stack, documents, visited>> /\ outcome = "running" /\ outcome' # "ok"
      BY <1>4 DEF ResolveInlineSchema, Fail
    <2> QED BY <1>2, <2>1
  <1>5. CASE SchemaStep
    BY <1>2, <1>5, SchemaStates DEF wsdlVars
  <1>6. CASE AbsorbSchema
    <2>1. /\ outcome = "running" /\ UNCHANGED <<documents, visited, outcome>>
      BY <1>6 DEF AbsorbSchema
    <2>2. Absorbed
      BY <1>6, StackAbsorbed
    <2>3. AllMerged(stack')
      BY <2>2 DEF Absorbed, AllMerged, MergeInv
    <2>4. SameHeld
      BY <2>2 DEF Absorbed, Held
    <2> HIDE DEF SameHeld
    <2> QED BY <1>1, <2>1, <2>3, <2>4
  <1>7. CASE FailSchema
    <2>1. UNCHANGED <<stack, documents, visited>> /\ outcome = "running" /\ outcome' # "ok"
      BY <1>7 DEF FailSchema, Fail
    <2> QED BY <1>2, <2>1
  <1>8. CASE ReturnFrame
    <2>1. outcome = "running" /\ (Completed \/ Returned)
      BY <1>8, Returns
    <2>2. UNCHANGED <<visited, documents>>
      BY <1>8, Returns
    <2>3. /\ Top = stack[Len(stack)] /\ DOMAIN stack = 1 .. Len(stack) /\ FrameInv(Top)
          /\ MergedFor(Top.at, Top.def) /\ 1 \in DOMAIN stack /\ stack[1].at = Root
      BY <2>1, TopFrame DEF MergeInv, AllMerged, StackInv
    <2>4. CASE Completed
      <3>1. /\ \A k \in DOMAIN stack : stack[k] = Top
            /\ Top.at = Root
        BY <2>3, <2>4 DEF Completed
      <3>2. MergedFor(Root, definition)'
        BY <2>2, <2>3, <2>4, <3>1, MergedThen DEF Completed
      <3>3. \A l \in Seen : \A c \in Merged : DOMAIN documents.says[l][c] \subseteq DOMAIN definition'[c]
        BY <2>1, <2>4, <3>1 DEF Completed, MergeInv, Held
      <3>4. AllMerged(stack)'
        <4>1. AllMerged(stack')
          BY <2>4, EmptyList DEF Completed, AllMerged
        <4> QED BY <2>2, <4>1, MergedThen
      <3> QED BY <2>2, <2>4, <3>2, <3>3, <3>4 DEF Completed, MergeInv, Seen
    <2>5. CASE Returned
      <3>1. StackBelow
        BY <2>1, <2>5, StackReturned
      <3>2. MergedFor(Below.at, Below.def) /\ Below.at \in DOMAIN documents.says /\ Merged \subseteq DOMAIN Below.def
        BY <3>1 DEF StackBelow, Below, FrameInv, MergeInv, AllMerged
      <3>3. MergedFor(Below.at, MergeInto(Below.def, Top.def))
        BY <2>3, <3>1, <3>2, MergeIntoMerged DEF StackBelow
      <3>4. AllMerged(stack')
        BY <3>1, <3>3 DEF StackBelow, AllMerged, MergeInv
      <3>5. SameHeld
        <4> SUFFICES ASSUME NEW c \in Merged, NEW name, Held(c, name) PROVE Held(c, name)'
          OBVIOUS
        <4>1. PICK k \in DOMAIN stack : name \in DOMAIN stack[k].def[c]
          BY DEF Held
        <4>2. DOMAIN MergeInto(Below.def, Top.def)[c] = DOMAIN Below.def[c] \cup DOMAIN Top.def[c]
          BY <3>2, MergeIntoNames
        <4>3. CASE k = Len(stack) \/ k = Len(stack) - 1
          BY <2>3, <3>1, <4>1, <4>2, <4>3 DEF StackBelow, Held, Below
        <4>4. CASE k # Len(stack) /\ k # Len(stack) - 1
          BY <3>1, <4>1, <4>4 DEF StackBelow, Held
        <4> QED BY <4>3, <4>4
      <3>6. outcome' = "running"
        BY <2>1, <2>5 DEF Returned
      <3> HIDE DEF SameHeld
      <3> QED BY <1>1, <2>1, <2>2, <3>4, <3>5, <3>6
    <2> QED BY <2>1, <2>4, <2>5
  <1>9. CASE UNCHANGED vars
    <2>1. UNCHANGED <<stack, documents, visited, outcome, definition>>
      BY <1>9 DEF vars, wsdlVars
    <2>2. AllMerged(stack)'
      <3>1. AllMerged(stack')
        BY <2>1 DEF MergeInv
      <3> QED BY <2>1, <3>1, MergedThen
    <2>3. MergedFor(Root, definition) => MergedFor(Root, definition)'
      BY <2>1, MergedThen
    <2>4. \A c, name : Held(c, name) => Held(c, name)'
      BY <2>1 DEF Held
    <2> QED BY <2>1, <2>2, <2>3, <2>4 DEF MergeInv, Seen
  <1> QED BY <1>3, <1>4, <1>5, <1>6, <1>7, <1>8, <1>9 DEF Next

-----------------------------------------------------------------------------
(* Collecting schemas.                                                     *)

(* The schemas are those of before.                                        *)
LEMMA SchemasThen == documents' = documents => Schemas' = Schemas
  BY DEF Schemas

(* The inline schema that is resolved, or is the next to be.               *)
LEMMA HeadSchema ==
    ASSUME DocumentsInv, StackInv, outcome = "running", Top.schemas # <<>>
    PROVE  /\ Head(Top.schemas) \in documents.inline
           /\ ReadSchema(Head(Top.schemas)) \in Schemas
  <1>1. FrameInv(Top)
    BY TopFrame
  <1>2. Head(Top.schemas) \in ToSet(documents.says[Top.at].schemas) /\ Top.at \in DOMAIN documents.says
    BY <1>1, TailList DEF FrameInv
  <1> QED BY <1>2, SchemasAreKnown DEF SchemasKnown

(* The lists of a schema, and what it uses.                                *)
LEMMA UsesListed ==
    ASSUME NEW schema, WellReadSchema(schema), NEW list, list = schema.imports \o schema.includes
    PROVE  IsList(list) /\ Uses(schema) = ToSet(list) \ {Absent}
  BY ConcatList DEF WellReadSchema, Uses

(* A step collects nothing that is not in the documents.                   *)
LEMMA CollectedSound == DocumentsInv /\ StackInv /\ CollectedInv /\ [Next]_vars => CollectedInv'
  <1> SUFFICES ASSUME DocumentsInv, StackInv, CollectedInv, [Next]_vars PROVE CollectedInv'
    OBVIOUS
  <1>0. SchemasKnown
    BY SchemasAreKnown
  <1>1. ASSUME UNCHANGED <<queue, pending, flat, documents>>,
               \/ schemaState' \notin {"idle", "resolving", "done"}
               \/ queue = <<>> /\ pending = <<>>
        PROVE  CollectedInv'
    BY <1>1, SchemasThen DEF CollectedInv
  <1>2. CASE ResolveInlineSchema
    <2>1. /\ outcome = "running" /\ Top.schemas # <<>> /\ documents' = documents /\ schemaState = "idle"
          /\ \/ UNCHANGED <<schemaState, queue, pending, flat>>
             \/ BeginSchema(ReadSchema(Head(Top.schemas)))
      BY <1>2 DEF ResolveInlineSchema
    <2>2. CASE UNCHANGED <<schemaState, queue, pending, flat>>
      BY <1>1, <2>1, <2>2 DEF CollectedInv
    <2>3. CASE BeginSchema(ReadSchema(Head(Top.schemas)))
      <3>1. PICK schema \in Schemas : schema = ReadSchema(Head(Top.schemas))
        BY <2>1, HeadSchema
      <3>2. queue' = <<schema>> /\ pending' = <<>> /\ flat' = EmptyFlat /\ schemaState' = "collecting"
        BY <2>3, <3>1 DEF BeginSchema
      <3>3. DOMAIN flat'.types = {} /\ DOMAIN flat'.elements = {}
        BY <3>2 DEF EmptyFlat, EmptyMap
      <3>4. IsList(queue') /\ ToSet(queue') = {schema} /\ IsList(pending') /\ ToSet(pending') = {}
        BY <3>2, SingleList, EmptyList
      <3>5. Schemas' = Schemas
        BY <2>1, SchemasThen
      <3> QED BY <2>1, <3>1, <3>2, <3>3, <3>4, <3>5 DEF CollectedInv
    <2> QED BY <2>1, <2>2, <2>3
  <1>3. CASE CollectSchema /\ UNCHANGED wsdlVars
    <2>1. /\ documents' = documents /\ schemaState = "collecting" /\ schemaState' = schemaState
          /\ queue # <<>> /\ queue' = Front(queue)
      BY <1>3 DEF CollectSchema, wsdlVars
    <2>2. PICK schema : schema = Last(queue)
      OBVIOUS
    <2>3. /\ flat'.types = Filled(schema.types, flat.types)
          /\ flat'.elements = Filled(schema.elements, flat.elements)
          /\ pending' = schema.imports \o schema.includes
      BY <1>3, <2>2 DEF CollectSchema
    <2>4. IsList(queue') /\ ToSet(queue') \subseteq Schemas /\ schema \in Schemas
      BY <2>1, <2>2, FrontList DEF CollectedInv
    <2>5. IsList(pending') /\ ToSet(pending') \subseteq documents.xsds \cup {Absent}
      <3>1. WellReadSchema(schema) /\ Uses(schema) \subseteq documents.xsds
        BY <1>0, <2>4 DEF SchemasKnown
      <3>2. IsList(pending') /\ Uses(schema) = ToSet(pending') \ {Absent}
        BY <2>3, <3>1, UsesListed
      <3> QED BY <3>1, <3>2
    <2>6. \A q \in DOMAIN flat'.types :
              \E x \in Schemas : q \in DOMAIN x.types /\ flat'.types[q] = x.types[q]
      BY <2>3, <2>4 DEF CollectedInv, Filled
    <2>7. \A e \in DOMAIN flat'.elements :
              \E x \in Schemas : e \in DOMAIN x.elements /\ flat'.elements[e] = x.elements[e]
      BY <2>3, <2>4 DEF CollectedInv, Filled
    <2>8. Schemas' = Schemas
      BY <2>1, SchemasThen
    <2> QED BY <2>1, <2>4, <2>5, <2>6, <2>7, <2>8 DEF CollectedInv
  <1>4. CASE FollowPending /\ UNCHANGED wsdlVars
    <2>1. /\ UNCHANGED <<documents, flat>> /\ schemaState = "collecting"
          /\ pending # <<>> /\ pending' = Tail(pending)
          /\ schemaState' \in {"collecting", "failed"}
      BY <1>4 DEF FollowPending, wsdlVars
    <2>2. IsList(pending') /\ ToSet(pending) = {Head(pending)} \cup ToSet(pending')
      BY <2>1, TailList DEF CollectedInv
    <2>3. CASE queue' = queue
      BY <2>1, <2>2, <2>3, SchemasThen DEF CollectedInv
    <2>4. CASE queue' # queue
      <3>1. PICK x : x = Head(pending)
        OBVIOUS
      <3>2. Loadable(x) /\ x # Absent /\ queue' = Append(queue, ReadSchema(DocumentAt(x)))
        BY <1>4, <2>4, <3>1 DEF FollowPending
      <3>3. ReadSchema(DocumentAt(x)) \in Schemas
        BY <1>0, <2>2, <3>1, <3>2 DEF SchemasKnown, CollectedInv
      <3>4. IsList(queue') /\ ToSet(queue') \subseteq Schemas
        BY <3>2, <3>3, AppendList DEF CollectedInv
      <3> QED BY <2>1, <2>2, <3>4, SchemasThen DEF CollectedInv
    <2> QED BY <2>3, <2>4
  <1>5. CASE SchemaStep /\ ~CollectSchema /\ ~FollowPending
    <2>1. UNCHANGED <<queue, pending, flat, documents>>
      BY <1>5 DEF SchemaStep, SchemaNext, EndCollecting, StartType, ResolveBase, CompleteType, FinishSchema,
         wsdlVars
    <2>2. queue = <<>> /\ pending = <<>>
      BY <1>5 DEF SchemaStep, SchemaNext, EndCollecting, StartType, ResolveBase, CompleteType, FinishSchema,
         CollectedInv
    <2> QED BY <1>1, <2>1, <2>2
  <1>6. CASE AbsorbSchema
    <2>1. schemaState = "done" /\ UNCHANGED <<queue, pending, flat, documents>>
      BY <1>6 DEF AbsorbSchema
    <2> QED BY <1>1, <2>1 DEF CollectedInv
  <1>7. CASE FollowImport
    <2>1. UNCHANGED <<queue, pending, flat, documents, schemaState>>
      BY <1>7, Followed
    <2> QED BY <1>1, <2>1 DEF CollectedInv
  <1>8. CASE FailSchema \/ ReturnFrame \/ UNCHANGED vars
    <2>1. UNCHANGED <<queue, pending, flat, documents, schemaState>>
      BY <1>8 DEF FailSchema, ReturnFrame, vars, schemaVars, wsdlVars
    <2> QED BY <1>1, <2>1 DEF CollectedInv
  <1> QED BY <1>2, <1>3, <1>4, <1>5, <1>6, <1>7, <1>8 DEF Next, SchemaStep

(* What covers a schema stays, whatever the step does to the rest.         *)
CoverKept == \A schema : Covered(schema) => Covered(schema)'
FramesKept ==
    \A k \in DOMAIN stack : \A s \in ToSet(stack[k].schemas) :
        \/ Resolved(s)'
        \/ \E j \in DOMAIN stack' : stack'[j].at = stack[k].at /\ s \in ToSet(stack'[j].schemas)

(* A schema that was resolved, or to come, still is.                       *)
LEMMA StillResolved ==
    ASSUME CoverInv, outcome # "failed", schemaState # "failed", CoverKept, FramesKept,
           UNCHANGED <<files, documents>>
    PROVE  /\ \A x \in already : Loadable(x)' /\ Covered(ReadSchema(DocumentAt(x)))'
           /\ \A l \in Seen : \A s \in ToSet(documents.says[l].schemas) : Resolved(s)' \/ ToResolve(l, s)'
  <1>1. ASSUME NEW x \in already PROVE Loadable(x)' /\ Covered(ReadSchema(DocumentAt(x)))'
    <2>1. PICK schema : schema = ReadSchema(DocumentAt(x))
      OBVIOUS
    <2>2. Loadable(x) /\ Covered(schema)'
      BY <2>1 DEF CoverInv, CoverKept
    <2>3. Loadable(x)' /\ schema = ReadSchema(DocumentAt(x)')
      BY <2>1, <2>2 DEF Loadable, DocumentAt
    <2> QED BY <2>2, <2>3 DEF Covered
  <1>2. ASSUME NEW l \in Seen, NEW s \in ToSet(documents.says[l].schemas)
        PROVE  Resolved(s)' \/ ToResolve(l, s)'
    <2>1. CASE Resolved(s)
      <3>1. Covered(ReadSchema(s))'
        BY <2>1 DEF Resolved, CoverKept
      <3> QED BY <2>1, <3>1 DEF Resolved
    <2>2. CASE ~Resolved(s)
      <3>1. PICK k \in DOMAIN stack : stack[k].at = l /\ s \in ToSet(stack[k].schemas)
        BY <2>2 DEF CoverInv, ToResolve
      <3> QED BY <3>1 DEF FramesKept, ToResolve
    <2> QED BY <2>1, <2>2
  <1> QED BY <1>1, <1>2

(* The invariant again, when no location is marked.                        *)
LEMMA CoverAgain ==
    ASSUME CoverInv, outcome # "failed", schemaState # "failed", CoverKept, FramesKept,
           UNCHANGED <<files, documents, visited, already>>,
           schemaState' = "idle" => DOMAIN flat'.types \subseteq DOMAIN types',
           schemaState' # "idle" => Covered(ReadSchema(Head(Top.schemas)))'
    PROVE  CoverInv'
  <1>1. /\ \A x \in already : Loadable(x)' /\ Covered(ReadSchema(DocumentAt(x)))'
        /\ \A l \in Seen : \A s \in ToSet(documents.says[l].schemas) : Resolved(s)' \/ ToResolve(l, s)'
    BY StillResolved
  <1> QED BY <1>1 DEF CoverInv, Seen

(* When nothing is collected, what covers a schema is what was there.      *)
LEMMA SameCover ==
    ASSUME UNCHANGED <<queue, pending, already, types, flat>>
    PROVE  \A schema : Covered(schema)' <=> Covered(schema)
  BY DEF Covered

(* Frames that keep their schemas.                                         *)
LEMMA SameSchemas ==
    ASSUME \A k \in DOMAIN stack : stack[k].schemas = <<>> \/
               \E j \in DOMAIN stack' : stack'[j].at = stack[k].at /\ stack'[j].schemas = stack[k].schemas
    PROVE  FramesKept
  BY EmptyList DEF FramesKept

(* The schema that is resolved, when the stack does not change.            *)
LEMMA HeadCovered ==
    ASSUME CoverInv, CoverKept, stack' = stack, schemaState \notin {"idle", "failed"}, outcome = "running"
    PROVE  Covered(ReadSchema(Head(Top.schemas)))'
  <1>1. PICK schema : schema = ReadSchema(Head(Top.schemas))
    OBVIOUS
  <1>2. Covered(schema)'
    BY <1>1 DEF CoverInv, CoverKept
  <1>3. schema = ReadSchema(Head(Top.schemas)')
    BY <1>1 DEF Top
  <1> QED BY <1>2, <1>3 DEF Covered

(* A step leaves no schema behind.                                         *)
LEMMA BeginCovers ==
    ASSUME StackInv, CollectedInv, CoverInv, ResolveInlineSchema
    PROVE  CoverInv'
  <1>1. /\ outcome = "running" /\ Top.imports = <<>> /\ Top.schemas # <<>> /\ schemaState = "idle"
        /\ UNCHANGED <<files, documents, visited, already, types, stack>>
    BY DEF ResolveInlineSchema, Fail, BeginSchema
  <1>2. CASE outcome' = "failed"
    BY <1>2 DEF CoverInv
  <1>3. CASE outcome' # "failed"
    <2>1. PICK schema : schema = ReadSchema(Head(Top.schemas))
      OBVIOUS
    <2>2. /\ queue' = <<schema>> /\ pending' = <<>> /\ flat' = EmptyFlat /\ schemaState' = "collecting"
      BY <1>1, <1>3, <2>1 DEF ResolveInlineSchema, Fail, BeginSchema
    <2>3. queue = <<>> /\ pending = <<>> /\ DOMAIN flat.types \subseteq DOMAIN types
      BY <1>1 DEF CollectedInv, CoverInv
    <2>4. DOMAIN flat'.types = {} /\ ToSet(queue') = {schema} /\ ToSet(queue) = {} /\ ToSet(pending) = {}
      BY <2>2, <2>3, SingleList, EmptyList DEF EmptyFlat, EmptyMap
    <2>5. CoverKept
      BY <1>1, <2>2, <2>3, <2>4 DEF CoverKept, Covered
    <2>6. FramesKept
      BY <1>1, SameSchemas
    <2>7. Covered(ReadSchema(Head(Top.schemas)))'
      <3>1. schema = ReadSchema(Head(Top.schemas)')
        BY <1>1, <2>1 DEF Top
      <3> QED BY <2>4, <3>1 DEF Covered
    <2> QED BY <1>1, <2>2, <2>5, <2>6, <2>7, CoverAgain
  <1> QED BY <1>2, <1>3

(* Merging a schema leaves it covered.                                     *)
LEMMA CollectCovers ==
    ASSUME CollectedInv, CoverInv, outcome = "running", CollectSchema, UNCHANGED wsdlVars
    PROVE  CoverInv'
  <1>1. /\ schemaState = "collecting" /\ schemaState' = schemaState /\ pending = <<>> /\ queue # <<>>
        /\ queue' = Front(queue)
        /\ UNCHANGED <<files, documents, visited, already, types, stack>>
    BY DEF CollectSchema, wsdlVars
  <1>2. PICK schema : schema = Last(queue)
    OBVIOUS
  <1>3. /\ flat'.types = Filled(schema.types, flat.types) /\ pending' = schema.imports \o schema.includes
    BY <1>2 DEF CollectSchema
  <1>4. ToSet(queue) = {schema} \cup ToSet(queue')
    BY <1>1, <1>2, FrontList DEF CollectedInv
  <1>5. Uses(schema) \subseteq ToSet(pending') /\ DOMAIN flat'.types = DOMAIN schema.types \cup DOMAIN flat.types
    BY <1>3 DEF Uses, Filled
  <1>6. CoverKept
    <2> SUFFICES ASSUME NEW s, Covered(s) PROVE Covered(s)'
      BY DEF CoverKept
    <2>1. CASE s \in ToSet(queue)
      BY <1>1, <1>4, <1>5, <2>1 DEF Covered
    <2>2. CASE s \notin ToSet(queue)
      <3>1. Uses(s) \subseteq already /\ DOMAIN s.types \subseteq DOMAIN types \cup DOMAIN flat.types
        BY <1>1, <2>2, EmptyList DEF Covered
      <3> QED BY <1>1, <1>5, <3>1 DEF Covered
    <2> QED BY <2>1, <2>2
  <1>7. FramesKept
    BY <1>1, SameSchemas
  <1>8. Covered(ReadSchema(Head(Top.schemas)))'
    BY <1>1, <1>6, HeadCovered
  <1> QED BY <1>1, <1>6, <1>7, <1>8, CoverAgain

(* Following what a schema uses leaves it covered.                         *)
LEMMA FollowCovers ==
    ASSUME CollectedInv, CoverInv, outcome = "running", FollowPending, UNCHANGED wsdlVars
    PROVE  CoverInv'
  <1>1. /\ schemaState = "collecting" /\ pending # <<>> /\ pending' = Tail(pending)
        /\ UNCHANGED <<files, documents, visited, types, stack, flat, outcome>>
    BY DEF FollowPending, wsdlVars
  <1>2. CASE schemaState' = "failed"
    BY <1>2 DEF CoverInv
  <1>3. CASE schemaState' # "failed"
    <2>1. PICK x : x = Head(pending)
      OBVIOUS
    <2>2. ToSet(pending) = {x} \cup ToSet(pending')
      BY <1>1, <2>1, TailList DEF CollectedInv
    <2>3. schemaState' = "collecting"
      BY <1>1, <1>3 DEF FollowPending
    <2>4. FramesKept
      BY <1>1, SameSchemas
    <2>5. CASE x = Absent \/ x \in already
      <3>1. already' = already /\ queue' = queue
        BY <2>1, <2>5 DEF FollowPending
      <3>2. \A s : Absent \notin Uses(s)
        BY DEF Uses
      <3>3. CoverKept
        BY <1>1, <2>2, <2>5, <3>1, <3>2 DEF CoverKept, Covered
      <3>4. Covered(ReadSchema(Head(Top.schemas)))'
        BY <1>1, <3>3, HeadCovered
      <3> QED BY <1>1, <2>3, <2>4, <3>1, <3>3, <3>4, CoverAgain
    <2>6. CASE ~(x = Absent \/ x \in already)
      <3>1. /\ already' = already \cup {x} /\ Loadable(x)
            /\ queue' = Append(queue, ReadSchema(DocumentAt(x)))
        BY <1>3, <2>1, <2>6 DEF FollowPending
      <3>2. ToSet(queue') = ToSet(queue) \cup {ReadSchema(DocumentAt(x))}
        BY <3>1, AppendList DEF CollectedInv
      <3>3. CoverKept
        BY <1>1, <2>2, <3>1, <3>2 DEF CoverKept, Covered
      <3>4. Covered(ReadSchema(Head(Top.schemas)))'
        BY <1>1, <3>3, HeadCovered
      <3>5. Loadable(x)' /\ DocumentAt(x)' = DocumentAt(x)
        BY <1>1, <3>1 DEF Loadable, DocumentAt
      <3>6. Covered(ReadSchema(DocumentAt(x)))'
        BY <3>2, <3>5 DEF Covered
      <3>7. /\ \A y \in already : Loadable(y)' /\ Covered(ReadSchema(DocumentAt(y)))'
            /\ \A l \in Seen : \A s \in ToSet(documents.says[l].schemas) : Resolved(s)' \/ ToResolve(l, s)'
        BY <1>1, <2>4, <3>3, StillResolved
      <3> QED BY <1>1, <2>3, <3>1, <3>4, <3>5, <3>6, <3>7 DEF CoverInv, Seen
    <2> QED BY <2>5, <2>6
  <1> QED BY <1>2, <1>3

(* What a call of resolve_schema has covered stays covered after it.       *)
LEMMA AbsorbCovers ==
    ASSUME StackInv, CoverInv, ResultsInv, AbsorbSchema
    PROVE  CoverInv'
  <1>1. /\ outcome = "running" /\ schemaState = "done" /\ schemaState' = "idle"
        /\ UNCHANGED <<files, documents, visited, already, queue, pending, flat>>
        /\ types' = Filled(types, registry)
    BY DEF AbsorbSchema
  <1>2. DOMAIN types' = DOMAIN types \cup DOMAIN registry /\ DOMAIN flat.types \subseteq DOMAIN registry
    BY <1>1 DEF Filled, ResultsInv
  <1>3. CoverKept
    BY <1>1, <1>2 DEF CoverKept, Covered
  <1>4. PICK head : head = Head(Top.schemas)
    OBVIOUS
  <1>5. Resolved(head)'
    <2>1. Reparses(head) /\ Covered(ReadSchema(head))
      BY <1>1, <1>4 DEF StackInv, CoverInv
    <2>2. Covered(ReadSchema(head))'
      BY <1>3, <2>1 DEF CoverKept
    <2> QED BY <2>1, <2>2 DEF Resolved
  <1>6. Absorbed /\ Top = stack[Len(stack)] /\ Len(stack) \in DOMAIN stack
    BY <1>1, StackAbsorbed, TopFrame
  <1>7. FramesKept
    BY <1>4, <1>5, <1>6 DEF FramesKept, Absorbed
  <1> QED BY <1>1, <1>2, <1>3, <1>7, CoverAgain

(* A file that is entered has its schemas to come.                         *)
LEMMA EnterCovers ==
    ASSUME WsdlsKnown, StackInv, CoverInv, outcome = "running", Top.imports # <<>>, Entered,
           UNCHANGED <<files, documents, already, schemaState, queue, pending, flat, types>>
    PROVE  CoverInv'
  <1>1. EnteredStack
    BY StackEntered
  <1>2. PICK new : new = Location
    OBVIOUS
  <1>3. new \in DOMAIN documents.says /\ visited' = visited \cup {new}
    BY <1>2, Imported DEF Entered
  <1>4. Frame(new, Says(new)).at = new /\ Frame(new, Says(new)).schemas = documents.says[new].schemas
    BY <1>3, FirstFrame
  <1>5. CoverKept
    BY SameCover DEF CoverKept
  <1>6. FramesKept
    BY <1>1, SameSchemas DEF EnteredStack, SameFrames
  <1>7. schemaState = "idle"
    BY DEF StackInv
  <1>8. /\ \A x \in already : Loadable(x)' /\ Covered(ReadSchema(DocumentAt(x)))'
        /\ \A l \in Seen : \A s \in ToSet(documents.says[l].schemas) : Resolved(s)' \/ ToResolve(l, s)'
    BY <1>5, <1>6, <1>7, StillResolved
  <1>9. \A s \in ToSet(documents.says[new].schemas) : ToResolve(new, s)'
    BY <1>1, <1>2, <1>4 DEF EnteredStack, ToResolve
  <1>10. \A l \in Seen' : l \in Seen \/ l = new
    BY <1>3 DEF Seen
  <1> QED BY <1>7, <1>8, <1>9, <1>10 DEF CoverInv

(* Every step keeps the schemas covered.                                   *)
LEMMA CoverSound ==
    WsdlsKnown /\ StackInv /\ CollectedInv /\ CoverInv /\ ResultsInv /\ [Next]_vars => CoverInv'
  <1> SUFFICES ASSUME WsdlsKnown, StackInv, CollectedInv, CoverInv, ResultsInv, [Next]_vars
               PROVE  CoverInv'
    OBVIOUS
  <1> SUFFICES ASSUME outcome' # "failed", schemaState' # "failed" PROVE CoverInv'
    BY DEF CoverInv
  <1>1. ASSUME outcome # "failed", schemaState # "failed", FramesKept,
               UNCHANGED <<files, documents, visited, already, queue, pending, types, flat>>,
               schemaState = "idle" <=> schemaState' = "idle",
               schemaState # "idle" => stack' = stack /\ outcome = "running"
        PROVE  CoverInv'
    <2>1. CoverKept
      BY <1>1, SameCover DEF CoverKept
    <2>2. schemaState' # "idle" => Covered(ReadSchema(Head(Top.schemas)))'
      BY <1>1, <2>1, HeadCovered
    <2>3. schemaState' = "idle" => DOMAIN flat'.types \subseteq DOMAIN types'
      BY <1>1 DEF CoverInv
    <2> QED BY <1>1, <2>1, <2>2, <2>3, CoverAgain
  <1>2. CASE FollowImport
    <2>1. /\ outcome = "running" /\ Top.imports # <<>>
          /\ PassedOver \/ Refused \/ Entered
          /\ UNCHANGED <<files, already, schemaState, queue, pending, flat, documents, types>>
      BY <1>2, Followed
    <2>2. schemaState = "idle"
      BY <2>1 DEF StackInv
    <2>3. CASE PassedOver
      <3>1. PassedStack
        BY <2>1, <2>3, StackPassed
      <3>2. FramesKept
        BY <3>1, SameSchemas DEF PassedStack, SameFrames
      <3> QED BY <1>1, <2>1, <2>2, <2>3, <3>2 DEF PassedOver
    <2>4. CASE Refused
      BY <2>4 DEF Refused
    <2>5. CASE Entered
      BY <2>1, <2>5, EnterCovers
    <2> QED BY <2>1, <2>3, <2>4, <2>5
  <1>3. CASE ResolveInlineSchema
    BY <1>3, BeginCovers
  <1>4. CASE SchemaStep
    <2>1. /\ outcome = "running" /\ UNCHANGED <<wsdlVars, files>>
          /\ schemaState \notin {"idle", "failed"} /\ schemaState' # "idle"
      BY <1>4, SchemaStates
    <2>2. CASE CollectSchema
      BY <2>1, <2>2, CollectCovers
    <2>3. CASE FollowPending
      BY <2>1, <2>3, FollowCovers
    <2>4. CASE ~CollectSchema /\ ~FollowPending
      <3>1. UNCHANGED <<already, queue, pending, flat>>
        BY <1>4, <2>4 DEF SchemaStep, SchemaNext, EndCollecting, StartType, ResolveBase, CompleteType,
           FinishSchema
      <3>2. FramesKept
        BY <2>1, SameSchemas DEF wsdlVars
      <3> QED BY <1>1, <2>1, <3>1, <3>2 DEF wsdlVars
    <2> QED BY <2>2, <2>3, <2>4
  <1>5. CASE AbsorbSchema
    BY <1>5, AbsorbCovers
  <1>6. CASE FailSchema
    BY <1>6 DEF FailSchema, Fail
  <1>7. CASE ReturnFrame
    <2>1. /\ outcome = "running" /\ Top.imports = <<>> /\ Top.schemas = <<>>
          /\ UNCHANGED <<schemaVars, visited, types, documents>>
      BY <1>7, Returns
    <2>2. Completed \/ Returned
      BY <1>7, Returns
    <2>3. schemaState = "idle"
      BY <2>1 DEF StackInv
    <2>4. Top = stack[Len(stack)] /\ DOMAIN stack = 1 .. Len(stack)
      BY <2>1, TopFrame
    <2>5. FramesKept
      <3>1. CASE Completed
        <4>1. \A k \in DOMAIN stack : stack[k].schemas = <<>>
          BY <2>1, <2>4, <3>1 DEF Completed
        <4> QED BY <4>1, SameSchemas
      <3>2. CASE Returned
        <4>1. StackBelow
          BY <2>1, <3>2, StackReturned
        <4>2. \A k \in DOMAIN stack : stack[k].schemas = <<>> \/
                  \E j \in DOMAIN stack' : stack'[j].at = stack[k].at /\ stack'[j].schemas = stack[k].schemas
          BY <2>1, <2>4, <4>1 DEF StackBelow, Below
        <4> QED BY <4>2, SameSchemas
      <3> QED BY <2>2, <3>1, <3>2
    <2> QED BY <1>1, <2>1, <2>3, <2>5 DEF schemaVars
  <1>8. CASE UNCHANGED vars
    <2>1. /\ UNCHANGED <<files, documents, visited, already, queue, pending, types, flat, stack>>
          /\ UNCHANGED <<outcome, schemaState>>
      BY <1>8 DEF vars, schemaVars, wsdlVars
    <2>2. FramesKept
      BY <2>1, SameSchemas
    <2>3. schemaState # "idle" => outcome = "running"
      BY <2>1 DEF StackInv
    <2> QED BY <1>1, <2>1, <2>2, <2>3
  <1> QED BY <1>2, <1>3, <1>4, <1>5, <1>6, <1>7, <1>8 DEF Next

-----------------------------------------------------------------------------
(* Resolving types.                                                        *)

(* The types and what they extend form a graph.                            *)
LEMMA ExtendsGraph ==
    ASSUME NEW from
    PROVE  /\ IsGraph(ExtendsIn(from)) /\ ExtendsIn(from).node = Complex(from)
           /\ \A q \in Complex(from) : \A base \in BaseIn(from, q) :
                  base \in Complex(from) /\ <<q, base>> \in ExtendsIn(from).edge
           /\ \A e \in ExtendsIn(from).edge :
                  /\ e[1] \in Complex(from) /\ e[2] \in Complex(from)
                  /\ e[2] \in BaseIn(from, e[1])
  <1>1. /\ ExtendsIn(from).node = Complex(from)
        /\ ExtendsIn(from).edge =
               {e \in Complex(from) \X Complex(from) : e[2] \in BaseIn(from, e[1])}
    BY DEF ExtendsIn
  <1>2. \A q : BaseIn(from, q) \subseteq Complex(from)
    BY DEF BaseIn
  <1>3. \A q \in Complex(from) : \A base \in BaseIn(from, q) :
            base \in Complex(from) /\ <<q, base>> \in ExtendsIn(from).edge
    BY <1>1, <1>2
  <1> QED BY <1>1, <1>3 DEF IsGraph

(* What a type becomes depends on its base alone.                          *)
LEMMA ResolvedSame ==
    ASSUME NEW raw, NEW from, NEW done, NEW more,
           raw.content.model = "extension" =>
               ElementsOf(raw.content.base, more) = ElementsOf(raw.content.base, done)
    PROVE  ResolveComplexType(raw, from, more) = ResolveComplexType(raw, from, done)
  BY DEF ResolveComplexType

(* Nothing changes for the types.                                          *)
LEMMA ChainSame ==
    ASSUME ChainInv, UNCHANGED <<flat, chain, memo>>, schemaState' \in {"collecting", "resolving"} =>
               schemaState' = schemaState
    PROVE  ChainInv'
  <1>1. Here' = Here /\ Unresolved' = Unresolved
    BY DEF Here, Unresolved
  <1> QED BY <1>1 DEF ChainInv

(* Nor when there is no type under way.                                    *)
LEMMA ChainEmpty ==
    ASSUME chain' = <<>>, schemaState' # "resolving", schemaState' = "collecting" => memo' = EmptyMap
    PROVE  ChainInv'
  <1>1. IsList(chain') /\ ToSet(chain') = {} /\ DOMAIN chain' = {}
    BY EmptyList
  <1> QED BY <1>1 DEF ChainInv

(* A type is started, after it the one it extends.                         *)
LEMMA Reaches ==
    ASSUME ChainInv, NEW base, chain # <<>>, base \in BaseIn(flat, Last(chain))
    PROVE  /\ base \in Complex(flat) /\ Last(chain) \in ToSet(chain)
           /\ <<Last(chain), base>> \in Here.edge
           /\ \A i \in DOMAIN chain : base \in Reached(Here, {chain[i]})
           /\ \A i \in DOMAIN chain : Last(chain) \in Reached(Here, {chain[i]})
  <1>1. /\ Len(chain) \in Nat /\ Len(chain) # 0 /\ DOMAIN chain = 1 .. Len(chain)
        /\ Last(chain) = chain[Len(chain)] /\ Len(chain) \in DOMAIN chain
        /\ Last(chain) \in ToSet(chain)
    BY ListEntries, FrontList DEF ChainInv
  <1>2. Last(chain) \in Complex(flat)
    BY <1>1 DEF ChainInv, Unresolved
  <1>3. base \in Complex(flat) /\ <<Last(chain), base>> \in Here.edge /\ IsGraph(Here)
    BY <1>2, ExtendsGraph DEF Here
  <1>4. \A i \in DOMAIN chain : Last(chain) \in Reached(Here, {chain[i]})
    <2>1. \A i \in DOMAIN chain : i <= Len(chain)
      BY <1>1
    <2> QED BY <1>1, <2>1 DEF ChainInv
  <1>5. ASSUME NEW i \in DOMAIN chain PROVE base \in Reached(Here, {chain[i]})
    <2>1. <<Last(chain), base>>[1] \in Reached(Here, {chain[i]})
      BY <1>4
    <2>2. <<Last(chain), base>>[2] \in Reached(Here, {chain[i]})
      BY <1>3, <2>1, ReachedStep
    <2> QED BY <2>2
  <1> QED BY <1>1, <1>3, <1>4, <1>5

(* A chain begins with a type that is not resolved.                        *)
LEMMA StartSound == ASSUME ChainInv, NEW q, StartType(q) PROVE ChainInv'
  <1>1. /\ q \in Unresolved /\ chain' = <<q>> /\ schemaState = "resolving"
        /\ UNCHANGED <<flat, memo, schemaState>>
    BY DEF StartType
  <1>2. Here' = Here /\ Unresolved' = Unresolved
    BY <1>1 DEF Here, Unresolved
  <1>3. /\ IsList(chain') /\ ToSet(chain') = {q} /\ DOMAIN chain' = {1} /\ chain'[1] = q
    BY <1>1, SingleList
  <1>4. q \in Reached(Here, {q})
    <2>1. q \in Here.node
      BY <1>1, ExtendsGraph DEF Unresolved, Here
    <2> QED BY <2>1, ReachedStart
  <1> QED BY <1>1, <1>2, <1>3, <1>4 DEF ChainInv

(* A chain grows by what its last type extends.                            *)
LEMMA BaseSound == ASSUME ChainInv, NEW base, ResolveBase(base) PROVE ChainInv'
  <1>1. /\ schemaState = "resolving" /\ base \in Awaited /\ UNCHANGED <<flat, memo>>
    BY DEF ResolveBase
  <1>2. chain # <<>> /\ base \in BaseIn(flat, Last(chain)) /\ base \notin DOMAIN memo
    BY <1>1 DEF Awaited
  <1>3. CASE base \in ToSet(chain)
    <2>1. chain' = chain /\ schemaState' = "failed"
      BY <1>3 DEF ResolveBase
    <2> QED BY <1>1, <2>1, ChainSame
  <1>4. CASE base \notin ToSet(chain)
    <2>1. chain' = Append(chain, base) /\ schemaState' = schemaState
      BY <1>4 DEF ResolveBase
    <2>2. Here' = Here /\ Unresolved' = Unresolved
      BY <1>1 DEF Here, Unresolved
    <2>3. PICK n \in Nat : n = Len(chain)
      BY ListEntries DEF ChainInv
    <2>4. /\ IsList(chain') /\ ToSet(chain') = ToSet(chain) \cup {base}
          /\ DOMAIN chain = 1 .. n /\ DOMAIN chain' = 1 .. n + 1
          /\ chain'[n + 1] = base
      <3>1. /\ IsList(chain') /\ Len(chain') = n + 1 /\ ToSet(chain') = ToSet(chain) \cup {base}
            /\ chain'[n + 1] = base
        BY <2>1, <2>3, AppendList DEF ChainInv
      <3>2. DOMAIN chain = 1 .. n /\ DOMAIN chain' = 1 .. n + 1
        BY <2>3, <3>1, ListEntries DEF ChainInv
      <3> QED BY <3>1, <3>2
    <2>5. \A i \in DOMAIN chain : chain'[i] = chain[i] /\ chain[i] # base
      <3>1. \A i \in DOMAIN chain : chain'[i] = chain[i]
        BY <2>1, AppendList DEF ChainInv
      <3>2. \A i \in DOMAIN chain : chain[i] \in ToSet(chain)
        BY ListEntries DEF ChainInv
      <3> QED BY <1>4, <3>1, <3>2
    <2>6. \A i \in DOMAIN chain' : i \in DOMAIN chain \/ i = n + 1
      BY <2>4
    <2>7. base \in Complex(flat) /\ \A i \in DOMAIN chain : base \in Reached(Here, {chain[i]})
      BY <1>2, Reaches
    <2>8. base \in Reached(Here, {base})
      <3>1. base \in Here.node
        BY <2>7, ExtendsGraph DEF Here
      <3> QED BY <3>1, ReachedStart
    <2>9. \A i, j \in DOMAIN chain' : i <= j => chain'[j] \in Reached(Here, {chain'[i]})
      <3> SUFFICES ASSUME NEW i \in DOMAIN chain', NEW j \in DOMAIN chain', i <= j
                   PROVE  chain'[j] \in Reached(Here, {chain'[i]})
        OBVIOUS
      <3>1. CASE j \in DOMAIN chain
        <4>1. i \in DOMAIN chain
          BY <2>4, <3>1
        <4> QED BY <2>5, <3>1, <4>1 DEF ChainInv
      <3>2. CASE j = n + 1
        BY <2>4, <2>5, <2>6, <2>7, <2>8, <3>2
      <3> QED BY <2>6, <3>1, <3>2
    <2>10. \A i, j \in DOMAIN chain' : chain'[i] = chain'[j] => i = j
      BY <2>4, <2>5, <2>6 DEF ChainInv
    <2>11. ToSet(chain') \subseteq Unresolved
      BY <1>2, <2>4, <2>7 DEF ChainInv, Unresolved
    <2> QED BY <1>1, <2>1, <2>2, <2>4, <2>9, <2>10, <2>11 DEF ChainInv
  <1> QED BY <1>3, <1>4

(* The last type is done: it does not reach itself through its base, which *)
(* is done and reaches only types that are.                                *)
LEMMA CompleteSound == ASSUME ChainInv, CompleteType PROVE ChainInv'
  <1>1. PICK q : q = Last(chain)
    OBVIOUS
  <1>2. /\ schemaState = "resolving" /\ chain # <<>> /\ Awaited = {}
        /\ memo' = Insert(memo, q, ResolveComplexType(flat.types[q], flat, memo))
        /\ chain' = Front(chain) /\ UNCHANGED <<flat, schemaState>>
    BY <1>1 DEF CompleteType
  <1>3. /\ IsList(chain') /\ Len(chain) \in DOMAIN chain /\ q = chain[Len(chain)]
        /\ ToSet(chain) = {q} \cup ToSet(chain')
        /\ \A i \in DOMAIN chain' : i \in DOMAIN chain /\ i # Len(chain) /\ chain'[i] = chain[i]
    BY <1>1, <1>2, FrontList DEF ChainInv
  <1>4. q \in Complex(flat) /\ q \notin DOMAIN memo /\ BaseIn(flat, q) \subseteq DOMAIN memo
    BY <1>1, <1>2, <1>3 DEF ChainInv, Unresolved, Awaited
  <1>5. /\ DOMAIN memo' = DOMAIN memo \cup {q}
        /\ memo'[q] = ResolveComplexType(flat.types[q], flat, memo)
        /\ \A x \in DOMAIN memo : memo'[x] = memo[x]
    BY <1>2, <1>4 DEF Insert
  <1>6. Here' = Here /\ Complex(flat)' = Complex(flat)
    BY <1>2 DEF Here, Complex
  <1>7. q \notin ToSet(chain')
    <2>1. \A i \in DOMAIN chain' : chain'[i] # q
      BY <1>3 DEF ChainInv
    <2> QED BY <1>3, <2>1, ListEntries
  <1>8. ToSet(chain') \subseteq Unresolved'
    BY <1>2, <1>3, <1>5, <1>7 DEF ChainInv, Unresolved
  <1>9. \A i, j \in DOMAIN chain' : chain'[i] = chain'[j] => i = j
    BY <1>3 DEF ChainInv
  <1>10. \A i, j \in DOMAIN chain' : i <= j => chain'[j] \in Reached(Here, {chain'[i]})
    BY <1>3 DEF ChainInv
  <1>11. ASSUME NEW e \in Here.edge, e[1] \in DOMAIN memo'
         PROVE  e[2] \in DOMAIN memo' /\ e[1] \notin Reached(Here, {e[2]})
    <2>1. CASE e[1] \in DOMAIN memo
      BY <1>2, <1>5, <2>1 DEF ChainInv
    <2>2. CASE e[1] \notin DOMAIN memo
      <3>1. e[1] = q
        BY <1>5, <1>11, <2>2
      <3>2. e[2] \in DOMAIN memo /\ IsGraph(Here) /\ e[2] \in Here.node
        BY <1>4, <3>1, ExtendsGraph DEF Here
      <3>3. \A d \in Here.edge : d[1] \in DOMAIN memo => d[2] \in DOMAIN memo
        BY <1>2 DEF ChainInv
      <3>4. Reached(Here, {e[2]}) \subseteq DOMAIN memo
        <4>1. {e[2]} \subseteq Here.node /\ {e[2]} \subseteq DOMAIN memo
          BY <3>2
        <4> QED BY <3>2, <3>3, <4>1, ReachedLeast
      <3> QED BY <1>4, <1>5, <3>1, <3>2, <3>4
    <2> QED BY <2>1, <2>2
  <1>12. ASSUME NEW x \in DOMAIN memo' PROVE memo'[x] = ResolveComplexType(flat.types[x], flat, memo')
    <2> DEFINE c == flat.types[x].content
    <2>1. x \in Complex(flat) /\ BaseIn(flat, x) \subseteq DOMAIN memo
      <3>1. CASE x = q
        BY <1>4, <3>1
      <3>2. CASE x # q
        <4>1. x \in DOMAIN memo /\ x \in Complex(flat)
          BY <1>2, <1>5, <1>12, <3>2 DEF ChainInv
        <4>2. \A base \in BaseIn(flat, x) : <<x, base>> \in Here.edge
          BY <4>1, ExtendsGraph DEF Here
        <4>3. \A base \in BaseIn(flat, x) : <<x, base>>[1] \in DOMAIN memo => <<x, base>>[2] \in DOMAIN memo
          BY <1>2, <4>2 DEF ChainInv
        <4> QED BY <4>1, <4>3
      <3> QED BY <3>1, <3>2
    <2>2. memo'[x] = ResolveComplexType(flat.types[x], flat, memo)
      BY <1>2, <1>5, <1>12 DEF ChainInv
    <2>3. c.model = "extension" => (c.base \in Complex(flat) => c.base \in DOMAIN memo)
      BY <2>1 DEF BaseIn
    <2>4. DOMAIN memo \subseteq Complex(flat)
      BY <1>2 DEF ChainInv
    <2>5. c.model = "extension" => ElementsOf(c.base, memo') = ElementsOf(c.base, memo)
      BY <1>4, <1>5, <2>3, <2>4 DEF ElementsOf
    <2> QED BY <2>2, <2>5, ResolvedSame
  <1>13. DOMAIN memo' \subseteq Complex(flat)
    BY <1>2, <1>4, <1>5 DEF ChainInv
  <1> QED BY <1>2, <1>3, <1>6, <1>8, <1>9, <1>10, <1>11, <1>12, <1>13 DEF ChainInv

(* A step keeps the order of the types.                                    *)
LEMMA ChainSound == ChainInv /\ [Next]_vars => ChainInv'
  <1> SUFFICES ASSUME ChainInv, [Next]_vars PROVE ChainInv'
    OBVIOUS
  <1>1. CASE SchemaStep
    <2>1. CASE CollectSchema
      <3>1. schemaState' = "collecting" /\ schemaState = "collecting" /\ UNCHANGED <<chain, memo>>
        BY <2>1 DEF CollectSchema
      <3> QED BY <3>1, ChainEmpty DEF ChainInv
    <2>2. CASE FollowPending
      <3>1. /\ UNCHANGED <<flat, chain, memo>>
            /\ schemaState' = "collecting" => schemaState' = schemaState
            /\ schemaState' # "resolving"
        BY <2>2 DEF FollowPending
      <3> QED BY <3>1, ChainSame
    <2>3. CASE EndCollecting
      <3>1. schemaState = "collecting" /\ schemaState' = "resolving" /\ UNCHANGED <<flat, chain, memo>>
        BY <2>3 DEF EndCollecting
      <3>2. chain' = <<>> /\ memo' = EmptyMap
        BY <3>1 DEF ChainInv
      <3>3. IsList(chain') /\ ToSet(chain') = {} /\ DOMAIN chain' = {} /\ DOMAIN memo' = {}
        BY <3>2, EmptyList DEF EmptyMap
      <3> QED BY <3>1, <3>3 DEF ChainInv
    <2>4. ASSUME NEW q, StartType(q) PROVE ChainInv'
      BY <2>4, StartSound
    <2>5. ASSUME NEW base, ResolveBase(base) PROVE ChainInv'
      BY <2>5, BaseSound
    <2>6. CASE CompleteType
      BY <2>6, CompleteSound
    <2>7. CASE FinishSchema
      <3>1. schemaState' = "done" /\ UNCHANGED <<flat, chain, memo>>
        BY <2>7 DEF FinishSchema
      <3> QED BY <3>1, ChainSame
    <2> QED BY <1>1, <2>1, <2>2, <2>3, <2>4, <2>5, <2>6, <2>7 DEF SchemaStep, SchemaNext
  <1>2. CASE ResolveInlineSchema
    <2>1. \/ UNCHANGED <<flat, chain, memo, schemaState>>
          \/ BeginSchema(ReadSchema(Head(Top.schemas)))
      BY <1>2 DEF ResolveInlineSchema
    <2>2. CASE UNCHANGED <<flat, chain, memo, schemaState>>
      BY <2>2, ChainSame
    <2>3. CASE BeginSchema(ReadSchema(Head(Top.schemas)))
      <3>1. chain' = <<>> /\ memo' = EmptyMap /\ schemaState' = "collecting"
        BY <2>3 DEF BeginSchema
      <3> QED BY <3>1, ChainEmpty
    <2> QED BY <2>1, <2>2, <2>3
  <1>3. CASE AbsorbSchema
    <2>1. schemaState' = "idle" /\ UNCHANGED <<flat, chain, memo>>
      BY <1>3 DEF AbsorbSchema
    <2> QED BY <2>1, ChainSame
  <1>4. CASE FollowImport
    <2>1. UNCHANGED <<flat, chain, memo, schemaState>>
      BY <1>4, Followed
    <2> QED BY <2>1, ChainSame
  <1>5. CASE FailSchema \/ ReturnFrame \/ UNCHANGED vars
    <2>1. UNCHANGED <<flat, chain, memo, schemaState>>
      BY <1>5 DEF FailSchema, ReturnFrame, vars, schemaVars
    <2> QED BY <2>1, ChainSame
  <1> QED BY <1>1, <1>2, <1>3, <1>4, <1>5 DEF Next

(* What a call makes of a definition, once all its types are done.         *)
LEMMA FlattenedIs ==
    ASSUME NEW def, NEW from, NEW done, NEW reg, DOMAIN done = Complex(from),
           \A q \in DOMAIN done : reg[q] = done[q]
    PROVE  ResolveComplexType(def, from, done).content = Flattened(def, [flat |-> from, registry |-> reg])
  <1> DEFINE c == def.content
             inherited == IF c.base \in Complex(from) THEN reg[c.base].content.elements ELSE <<>>
  <1>1. ElementsOf(c.base, done) = inherited
    BY DEF ElementsOf
  <1>2. CASE c.model = "extension"
    <2>1. ResolveComplexType(def, from, done).content =
              Content("sequence", inherited \o ResolvedContent(c.inner, from).elements)
      BY <1>1, <1>2 DEF ResolveComplexType, Extend
    <2>2. Flattened(def, [flat |-> from, registry |-> reg]) =
              Content("sequence", inherited \o ResolvedContent(c.inner, from).elements)
      BY <1>2 DEF Flattened
    <2> QED BY <2>1, <2>2
  <1>3. CASE c.model = "restriction"
    <2>1. ResolveComplexType(def, from, done).content = ResolvedContent(c.inner, from)
      BY <1>3 DEF ResolveComplexType
    <2>2. Flattened(def, [flat |-> from, registry |-> reg]) = ResolvedContent(c.inner, from)
      BY <1>3 DEF Flattened
    <2> QED BY <2>1, <2>2
  <1>4. CASE c.model \notin {"extension", "restriction"}
    <2>1. ResolveComplexType(def, from, done).content = ResolvedContent(c, from)
      BY <1>4 DEF ResolveComplexType
    <2>2. Flattened(def, [flat |-> from, registry |-> reg]) = ResolvedContent(c, from)
      BY <1>4 DEF Flattened
    <2> QED BY <2>1, <2>2
  <1> QED BY <1>2, <1>3, <1>4

(* A call that is finished has left what it should.                        *)
LEMMA FinishSound ==
    ASSUME SchemasKnown, CollectedInv, ChainInv, FinishSchema
    PROVE  /\ CallSound([flat |-> flat, registry |-> registry'])
           /\ DOMAIN flat.types \subseteq DOMAIN registry'
  <1> DEFINE simple == {q \in DOMAIN flat.types : flat.types[q].kind = "simple"}
             types0 == [q \in simple |-> flat.types[q]]
             call == [flat |-> flat, registry |-> registry']
  <1>1. /\ schemaState = "resolving" /\ Unresolved = {}
        /\ registry' = Filled(Filled(memo, types0), InlineTypes)
    BY DEF FinishSchema
  <1>2. DOMAIN memo = Complex(flat)
    BY <1>1 DEF ChainInv, Unresolved
  <1>3. \A q \in DOMAIN flat.types : q \in Complex(flat) \/ q \in simple
    <2>1. \A schema \in Schemas : \A q \in DOMAIN schema.types :
              schema.types[q].kind \in {"complex", "simple"}
      BY DEF SchemasKnown, WellReadSchema
    <2> QED BY <2>1 DEF CollectedInv, Complex
  <1>4. /\ DOMAIN registry' = (DOMAIN memo \cup simple) \cup DOMAIN InlineTypes
        /\ \A q \in DOMAIN memo : registry'[q] = memo[q]
        /\ \A q \in simple \ DOMAIN memo : registry'[q] = flat.types[q]
        /\ \A q \in DOMAIN InlineTypes \ (DOMAIN memo \cup simple) : registry'[q] = InlineTypes[q]
    BY <1>1 DEF Filled
  <1>5. DOMAIN flat.types \subseteq DOMAIN registry'
    BY <1>2, <1>3, <1>4
  <1>6. \A def : ResolveComplexType(def, flat, memo).content = Flattened(def, call)
    BY <1>2, <1>4, FlattenedIs
  <1>7. ~Cyclic(ExtendsIn(call.flat))
    <2>1. \A e \in Here.edge : e[1] \in DOMAIN memo
      BY <1>2, ExtendsGraph DEF Here
    <2>2. \A e \in Here.edge : e[1] \notin Reached(Here, {e[2]})
      BY <1>1, <2>1 DEF ChainInv
    <2>3. ~Cyclic(Here)
      BY <2>2 DEF Cyclic
    <2>4. ExtendsIn(call.flat) = Here
      BY DEF Here
    <2> QED BY <2>3, <2>4
  <1>8. ASSUME NEW q \in DOMAIN registry', registry'[q].kind = "complex"
        PROVE  \E def \in DefinitionsOf(q) : registry'[q].content = Flattened(def, call)
    <2>1. CASE q \in DOMAIN memo
      <3>1. q \in DOMAIN flat.types /\ flat.types[q].kind = "complex"
        BY <1>2, <2>1 DEF Complex
      <3>2. PICK schema \in Schemas : q \in DOMAIN schema.types /\ flat.types[q] = schema.types[q]
        BY <3>1 DEF CollectedInv
      <3>3. flat.types[q] \in DefinitionsOf(q)
        BY <3>1, <3>2 DEF DefinitionsOf, Complex
      <3>4. registry'[q].content = Flattened(flat.types[q], call)
        BY <1>1, <1>4, <1>6, <2>1 DEF ChainInv
      <3> HIDE DEF call
      <3> QED BY <3>3, <3>4
    <2>2. CASE q \in simple \ DOMAIN memo
      BY <1>4, <1>8, <2>2
    <2>3. CASE q \in DOMAIN InlineTypes \ (DOMAIN memo \cup simple)
      <3>1. /\ q \in DOMAIN flat.elements /\ flat.elements[q].inline # Absent
            /\ InlineTypes[q] = ResolveComplexType(flat.elements[q].inline, flat, memo)
        BY <2>3 DEF InlineTypes
      <3>2. PICK schema \in Schemas : q \in DOMAIN schema.elements /\ flat.elements[q] = schema.elements[q]
        BY <3>1 DEF CollectedInv
      <3>3. flat.elements[q].inline \in DefinitionsOf(q)
        BY <3>1, <3>2 DEF DefinitionsOf
      <3>4. registry'[q].content = Flattened(flat.elements[q].inline, call)
        BY <1>4, <1>6, <2>3, <3>1
      <3> HIDE DEF call
      <3> QED BY <3>3, <3>4
    <2> QED BY <1>4, <1>8, <2>1, <2>2, <2>3
  <1> QED BY <1>5, <1>7, <1>8 DEF CallSound

(* Calls, of the state after a step.                                       *)
DefinitionsAmong(S, q) ==
    {schema.types[q] : schema \in {s \in S : q \in Complex(s)}} \cup
    {schema.elements[q].inline :
        schema \in {s \in S : q \in DOMAIN s.elements /\ s.elements[q].inline # Absent}}

(* What the documents define does not change with a step.                  *)
LEMMA DefinitionsThen ==
    ASSUME documents' = documents, NEW q
    PROVE  DefinitionsOf(q)' = DefinitionsOf(q)
  <1>1. DefinitionsOf(q) = DefinitionsAmong(Schemas, q)
    BY DEF DefinitionsOf, DefinitionsAmong
  <1>2. DefinitionsOf(q)' = DefinitionsAmong(Schemas', q)
    BY DEF DefinitionsOf, DefinitionsAmong
  <1> QED BY <1>1, <1>2, SchemasThen

(* Nor does what a call should have left.                                  *)
LEMMA CallThen ==
    ASSUME documents' = documents, NEW call
    PROVE  CallSound(call)' <=> CallSound(call)
  BY DefinitionsThen DEF CallSound

AllSound(s) == \A n \in DOMAIN s : CallSound(s[n])

(* Nor does what all the calls should have left.                           *)
LEMMA CallsThen ==
    ASSUME documents' = documents
    PROVE  /\ CallSound([flat |-> flat', registry |-> registry']) =>
                  CallSound([flat |-> flat, registry |-> registry])'
           /\ AllSound(results') => AllSound(results)'
  <1>1. CallSound([flat |-> flat', registry |-> registry']) =>
            CallSound([flat |-> flat, registry |-> registry])'
    <2>1. PICK call : call = [flat |-> flat', registry |-> registry']
      OBVIOUS
    <2>2. CallSound(call)' <=> CallSound(call)
      BY CallThen
    <2> QED BY <2>1, <2>2 DEF CallSound
  <1>2. ASSUME AllSound(results'), NEW n \in DOMAIN results' PROVE CallSound(results[n])'
    <2>1. PICK call : call = results'[n]
      OBVIOUS
    <2>2. CallSound(call)'
      BY <1>2, <2>1, CallThen DEF AllSound
    <2> QED BY <2>1, <2>2 DEF CallSound
  <1> QED BY <1>1, <1>2 DEF AllSound

(* The registry accumulated is made of the calls' registries.              *)
Accumulated ==
    /\ DOMAIN origin = DOMAIN types
    /\ \A q \in DOMAIN types :
           /\ origin[q] \in DOMAIN results
           /\ q \in DOMAIN results[origin[q]].registry
           /\ types[q] = results[origin[q]].registry[q]

(* A step keeps what the calls have left.                                  *)
LEMMA ResultsSound ==
    DocumentsInv /\ CollectedInv /\ ChainInv /\ ResultsInv /\ [Next]_vars => ResultsInv'
  <1> SUFFICES ASSUME DocumentsInv, CollectedInv, ChainInv, ResultsInv, [Next]_vars PROVE ResultsInv'
    OBVIOUS
  <1>1. /\ IsList(results) /\ AllSound(results) /\ Accumulated
        /\ schemaState = "done" => /\ CallSound([flat |-> flat, registry |-> registry])
                                   /\ DOMAIN flat.types \subseteq DOMAIN registry
    BY DEF ResultsInv, AllSound, Accumulated
  <1>2. ASSUME UNCHANGED <<results, origin, types, documents>>,
               schemaState' = "done" => /\ CallSound([flat |-> flat', registry |-> registry'])
                                        /\ DOMAIN flat'.types \subseteq DOMAIN registry'
        PROVE  ResultsInv'
    <2>1. AllSound(results)' /\ Accumulated'
      BY <1>1, <1>2, CallsThen DEF Accumulated
    <2>2. schemaState' = "done" => CallSound([flat |-> flat, registry |-> registry])'
      BY <1>2, CallsThen
    <2> QED BY <1>1, <1>2, <2>1, <2>2 DEF ResultsInv, AllSound, Accumulated
  <1>3. CASE SchemaStep
    <2>1. UNCHANGED <<results, origin, types, documents>>
      BY <1>3, SchemaStates DEF wsdlVars
    <2>2. CASE FinishSchema
      <3>1. flat' = flat
        BY <2>2 DEF FinishSchema
      <3>2. /\ CallSound([flat |-> flat, registry |-> registry'])
            /\ DOMAIN flat.types \subseteq DOMAIN registry'
        BY <2>2, FinishSound, SchemasAreKnown
      <3> QED BY <1>2, <2>1, <3>1, <3>2
    <2>3. CASE ~FinishSchema
      <3>1. schemaState' # "done"
        BY <1>3, <2>3 DEF SchemaStep, SchemaNext, CollectSchema, FollowPending, EndCollecting, StartType,
           ResolveBase, CompleteType
      <3> QED BY <1>2, <2>1, <3>1
    <2> QED BY <2>2, <2>3
  <1>4. CASE AbsorbSchema
    <2>1. PICK call : call = [flat |-> flat, registry |-> registry]
      OBVIOUS
    <2>2. /\ schemaState = "done" /\ schemaState' = "idle" /\ documents' = documents
          /\ results' = Append(results, call)
          /\ types' = Filled(types, call.registry)
          /\ origin' = Filled(origin, [q \in DOMAIN call.registry |-> Len(results) + 1])
      BY <1>4, <2>1 DEF AbsorbSchema
    <2>3. CallSound(call)
      BY <1>1, <2>1, <2>2
    <2>4. PICK n \in Nat : n = Len(results)
      BY <1>1, ListEntries
    <2>5. /\ IsList(results') /\ Len(results') = n + 1
          /\ \A i \in DOMAIN results : results'[i] = results[i]
          /\ results'[n + 1] = call
      BY <1>1, <2>2, <2>4, AppendList
    <2>6. DOMAIN results = 1 .. n /\ DOMAIN results' = 1 .. n + 1
      BY <1>1, <2>4, <2>5, ListEntries
    <2>7. \A i \in DOMAIN results' : i \in DOMAIN results \/ i = n + 1
      BY <2>6
    <2>8. AllSound(results)'
      <3>1. AllSound(results')
        BY <1>1, <2>3, <2>5, <2>7 DEF AllSound
      <3> QED BY <2>2, <3>1, CallsThen
    <2>9. Accumulated'
      <3>1. DOMAIN types' = DOMAIN types \cup DOMAIN call.registry /\ DOMAIN origin' = DOMAIN types'
        BY <1>1, <2>2 DEF Filled, Accumulated
      <3>2. ASSUME NEW q \in DOMAIN types
            PROVE  types'[q] = types[q] /\ origin'[q] = origin[q]
        BY <1>1, <2>2, <3>2 DEF Filled, Accumulated
      <3>3. ASSUME NEW q \in DOMAIN call.registry \ DOMAIN types
            PROVE  types'[q] = call.registry[q] /\ origin'[q] = n + 1
        BY <1>1, <2>2, <2>4, <3>3 DEF Filled, Accumulated
      <3>4. \A i \in DOMAIN results : i \in DOMAIN results'
        BY <2>6
      <3>5. n + 1 \in DOMAIN results'
        BY <2>6
      <3>6. ASSUME NEW q \in DOMAIN types'
            PROVE  /\ origin'[q] \in DOMAIN results' /\ q \in DOMAIN results'[origin'[q]].registry
                   /\ types'[q] = results'[origin'[q]].registry[q]
        <4>1. CASE q \in DOMAIN types
          BY <1>1, <2>5, <3>2, <3>4, <4>1 DEF Accumulated
        <4>2. CASE q \in DOMAIN call.registry \ DOMAIN types
          BY <2>5, <3>3, <3>5, <4>2
        <4> QED BY <3>1, <3>6, <4>1, <4>2
      <3> QED BY <3>1, <3>6 DEF Accumulated
    <2> QED BY <2>2, <2>5, <2>8, <2>9 DEF ResultsInv, AllSound, Accumulated
  <1>5. CASE ResolveInlineSchema
    <2>1. UNCHANGED <<results, origin, types, documents>> /\ schemaState' # "done"
      BY <1>5 DEF ResolveInlineSchema, Fail, BeginSchema
    <2> QED BY <1>2, <2>1
  <1>6. CASE FollowImport
    <2>1. UNCHANGED <<results, origin, types, documents, schemaState, flat, registry>>
      BY <1>6, Followed
    <2> QED BY <1>1, <1>2, <2>1
  <1>7. CASE FailSchema \/ ReturnFrame \/ UNCHANGED vars
    <2>1. UNCHANGED <<results, origin, types, documents, schemaState, flat, registry>>
      BY <1>7 DEF FailSchema, Fail, ReturnFrame, vars, schemaVars, wsdlVars
    <2> QED BY <1>1, <1>2, <2>1
  <1> QED BY <1>3, <1>4, <1>5, <1>6, <1>7 DEF Next

-----------------------------------------------------------------------------
(* Failing.                                                                *)

(* Types that extend each other in a circle do so in the documents.        *)
LEMMA CycleDocumented == CollectedInv /\ Cyclic(Here) => Cyclic(Extends)
  <1> SUFFICES ASSUME CollectedInv, Cyclic(Here) PROVE Cyclic(Extends)
    OBVIOUS
  <1>1. /\ Extends.node = DeclaredTypes
        /\ Extends.edge = {e \in DeclaredTypes \X DeclaredTypes :
                               \E schema \in Schemas :
                                   /\ e[1] \in Complex(schema)
                                   /\ schema.types[e[1]].content.model = "extension"
                                   /\ schema.types[e[1]].content.base = e[2]}
    BY DEF Extends
  <1>2. ASSUME NEW q \in Complex(flat)
        PROVE  q \in DeclaredTypes /\ \E schema \in Schemas : q \in Complex(schema) /\ flat.types[q] = schema.types[q]
    BY <1>2 DEF CollectedInv, Complex, DeclaredTypes
  <1>3. IsGraph(Here) /\ Here.node = Complex(flat)
    BY ExtendsGraph DEF Here
  <1>4. ASSUME NEW e \in Here.edge PROVE e \in Extends.edge
    <2>1. e[1] \in Complex(flat) /\ e[2] \in Complex(flat) /\ e[2] \in BaseIn(flat, e[1]) /\ e = <<e[1], e[2]>>
      BY <1>3, ExtendsGraph DEF Here, IsGraph
    <2>2. flat.types[e[1]].content.model = "extension" /\ flat.types[e[1]].content.base = e[2]
      BY <2>1 DEF BaseIn
    <2>3. PICK schema \in Schemas : e[1] \in Complex(schema) /\ flat.types[e[1]] = schema.types[e[1]]
      BY <1>2, <2>1
    <2>4. e \in DeclaredTypes \X DeclaredTypes
      BY <1>2, <2>1
    <2> QED BY <1>1, <2>2, <2>3, <2>4
  <1>5. IsGraph(Extends)
    BY <1>1 DEF IsGraph
  <1>6. PICK e \in Here.edge : e[1] \in Reached(Here, {e[2]})
    BY DEF Cyclic
  <1>7. Reached(Here, {e[2]}) \subseteq Reached(Extends, {e[2]})
    <2>1. Here.node \subseteq Extends.node /\ Here.edge \subseteq Extends.edge
      BY <1>1, <1>2, <1>3, <1>4
    <2>2. {e[2]} \subseteq Here.node
      BY <1>3 DEF IsGraph
    <2> QED BY <1>3, <1>5, <2>1, <2>2, ReachedLarger
  <1> QED BY <1>4, <1>6, <1>7 DEF Cyclic

(* The reasons stay.                                                       *)
ExtendsAmong(S) ==
    LET declared == UNION {Complex(schema) : schema \in S}
    IN  [node |-> declared,
         edge |-> {e \in declared \X declared :
                      \E schema \in S :
                          /\ e[1] \in Complex(schema)
                          /\ schema.types[e[1]].content.model = "extension"
                          /\ schema.types[e[1]].content.base = e[2]}]
Reason == Missing \/ Garbled \/ Cyclic(Extends)

(* A reason to fail does not go away.                                      *)
LEMMA ReasonThen == UNCHANGED <<files, documents>> /\ Reason => Reason'
  <1> SUFFICES ASSUME UNCHANGED <<files, documents>>, Reason PROVE Reason'
    OBVIOUS
  <1>1. Missing => Missing'
    BY DEF Missing, Loadable, DocumentAt
  <1>2. Garbled => Garbled'
    BY DEF Garbled
  <1>3. Extends' = Extends
    <2>1. Extends = ExtendsAmong(Schemas)
      BY DEF Extends, DeclaredTypes, ExtendsAmong
    <2>2. Extends' = ExtendsAmong(Schemas')
      BY DEF Extends, DeclaredTypes, ExtendsAmong
    <2> QED BY <2>1, <2>2, SchemasThen
  <1> QED BY <1>1, <1>2, <1>3 DEF Reason

(* A step fails for a reason.                                              *)
LEMMA FailureSound ==
    DocumentsInv /\ StackInv /\ CollectedInv /\ ChainInv /\ FailureInv /\ [Next]_vars => FailureInv'
  <1> SUFFICES ASSUME DocumentsInv, StackInv, CollectedInv, ChainInv, FailureInv, [Next]_vars,
                      schemaState' = "failed" \/ outcome' = "failed"
               PROVE  Reason'
    BY DEF FailureInv, Reason
  <1>1. UNCHANGED <<files, documents>>
    BY SchemaStates, Followed, Returns DEF Next, ResolveInlineSchema, AbsorbSchema, FailSchema, vars, schemaVars, wsdlVars
  <1> SUFFICES Reason
    BY <1>1, ReasonThen
  <1>2. ASSUME UNCHANGED <<schemaState, outcome>> PROVE Reason
    BY <1>2 DEF FailureInv, Reason
  <1>3. CASE FollowImport
    <2>1. /\ outcome = "running" /\ Top.imports # <<>> /\ schemaState' = schemaState
          /\ PassedOver \/ Refused \/ Entered
      BY <1>3, Followed
    <2>2. CASE Refused
      <3>1. Location \in documents.wsdls /\ ~ReadableWsdl(Location)
        BY <2>1, <2>2, Imported, WsdlsAreKnown DEF Refused
      <3>2. Location \notin DOMAIN documents.says
        BY <3>1, WsdlsAreKnown DEF WsdlsKnown
      <3> QED BY <3>1, <3>2 DEF Missing, Reason
    <2> QED BY <1>2, <2>1, <2>2 DEF PassedOver, Entered
  <1>4. CASE ResolveInlineSchema
    <2>1. outcome = "running" /\ Top.schemas # <<>> /\ schemaState = "idle"
      BY <1>4 DEF ResolveInlineSchema
    <2>2. CASE Reparses(Head(Top.schemas))
      <3>1. schemaState' # "failed" /\ outcome' = outcome
        BY <1>4, <2>2 DEF ResolveInlineSchema, BeginSchema
      <3> QED BY <2>1, <3>1
    <2>3. CASE ~Reparses(Head(Top.schemas))
      BY <2>1, <2>3, HeadSchema DEF Garbled, Reason
    <2> QED BY <2>2, <2>3
  <1>5. CASE SchemaStep
    <2>1. outcome = "running" /\ outcome' = outcome
      BY <1>5, SchemaStates DEF wsdlVars
    <2>2. CASE FollowPending
      <3>1. PICK x : x = Head(pending)
        OBVIOUS
      <3>2. pending # <<>> /\ x # Absent /\ ~Loadable(x)
        BY <2>1, <2>2, <3>1 DEF FollowPending
      <3>3. x \in documents.xsds
        BY <3>1, <3>2, TailList DEF CollectedInv
      <3> QED BY <3>2, <3>3 DEF Missing, Reason
    <2>3. ASSUME NEW base, ResolveBase(base) PROVE Reason
      <3>1. base \in Awaited /\ base \in ToSet(chain)
        BY <2>1, <2>3 DEF ResolveBase
      <3>2. chain # <<>> /\ base \in BaseIn(flat, Last(chain))
        BY <3>1 DEF Awaited
      <3>3. PICK i \in DOMAIN chain : base = chain[i]
        BY <3>1, ListEntries DEF ChainInv
      <3>4. <<Last(chain), base>> \in Here.edge /\ Last(chain) \in Reached(Here, {base})
        BY <3>2, <3>3, Reaches
      <3>5. Cyclic(Here)
        <4>1. <<Last(chain), base>>[1] \in Reached(Here, {<<Last(chain), base>>[2]})
          BY <3>4
        <4> QED BY <3>4, <4>1 DEF Cyclic
      <3> QED BY <3>5, CycleDocumented DEF Reason
    <2>4. CASE CollectSchema \/ EndCollecting \/ CompleteType \/ FinishSchema \/ \E q : StartType(q)
      <3>1. schemaState' # "failed"
        BY <2>4 DEF CollectSchema, EndCollecting, CompleteType, FinishSchema, StartType
      <3> QED BY <2>1, <3>1
    <2> QED BY <1>5, <2>2, <2>3, <2>4 DEF SchemaStep, SchemaNext
  <1>6. CASE AbsorbSchema
    <2>1. schemaState' # "failed" /\ outcome' = outcome /\ outcome = "running"
      BY <1>6 DEF AbsorbSchema
    <2> QED BY <2>1
  <1>7. CASE FailSchema
    <2>1. schemaState = "failed"
      BY <1>7 DEF FailSchema
    <2> QED BY <2>1 DEF FailureInv, Reason
  <1>8. CASE ReturnFrame
    <2>1. outcome = "running" /\ schemaState' = schemaState
      BY <1>8, Returns DEF schemaVars
    <2>2. Completed \/ Returned
      BY <1>8, Returns
    <2>3. outcome' # "failed"
      BY <2>1, <2>2 DEF Completed, Returned
    <2> QED BY <2>1, <2>3 DEF FailureInv, Reason
  <1>9. CASE UNCHANGED vars
    <2>1. UNCHANGED <<schemaState, outcome>>
      BY <1>9 DEF vars, schemaVars, wsdlVars
    <2> QED BY <1>2, <2>1
  <1> QED BY <1>3, <1>4, <1>5, <1>6, <1>7, <1>8, <1>9 DEF Next

-----------------------------------------------------------------------------
(* The theorems.                                                           *)

(* What InitDocuments makes the documents, part by part.                   *)
DocumentsAre(imports, wsdls, says, inline, uses, xsds) ==
    documents = [imports |-> imports, wsdls |-> wsdls, says |-> says,
                 inline |-> inline, uses |-> uses, xsds |-> xsds,
                 schemas |-> inline \cup {DocumentAt(l) : l \in {x \in xsds : Loadable(x)}}]
SaysOf(wsdls) == [l \in {w \in wsdls : ReadableWsdl(w)} |-> Says(l)]
InlineOf(says) == UNION {ToSet(says[l].schemas) : l \in DOMAIN says}
XsdsOf(uses, inline) == Reached(uses, UNION {Uses(ReadSchema(s)) : s \in inline})

(* The documents are those of the files, from the beginning.               *)
LEMMA DocumentsStart == Init => DocumentsInv
  <1> SUFFICES ASSUME Init PROVE DocumentsInv
    OBVIOUS
  <1>1. files \in Worlds
    BY DEF Init
  <1>2. \E imports \in {WsdlImports} :
        \E wsdls \in {Reached(imports, {Root})} :
        \E says \in {SaysOf(wsdls)} :
        \E inline \in {InlineOf(says)} :
        \E uses \in {SchemaUses(inline)} :
        \E xsds \in {XsdsOf(uses, inline)} :
            DocumentsAre(imports, wsdls, says, inline, uses, xsds)
    BY Zenon DEF Init, InitDocuments, SaysOf, InlineOf, XsdsOf, DocumentsAre
  <1>3. PICK imports, wsdls, says, inline, uses, xsds :
            /\ imports = WsdlImports
            /\ wsdls = Reached(imports, {Root})
            /\ says = SaysOf(wsdls)
            /\ inline = InlineOf(says)
            /\ uses = SchemaUses(inline)
            /\ xsds = XsdsOf(uses, inline)
            /\ DocumentsAre(imports, wsdls, says, inline, uses, xsds)
    BY <1>2
  <1>4. /\ documents.imports = imports /\ documents.wsdls = wsdls /\ documents.says = says
        /\ documents.inline = inline /\ documents.uses = uses /\ documents.xsds = xsds
        /\ documents.schemas = inline \cup {DocumentAt(l) : l \in {x \in xsds : Loadable(x)}}
    BY <1>3 DEF DocumentsAre
  <1> QED BY <1>1, <1>3, <1>4 DEF DocumentsInv, SaysOf, InlineOf, XsdsOf

(* The invariant holds at first.                                           *)
LEMMA InitSound == Init => IInv
  <1> SUFFICES ASSUME Init PROVE IInv
    OBVIOUS
  <1>1. DocumentsInv /\ WsdlsKnown
    BY DocumentsStart, WsdlsAreKnown
  <1>2. /\ fetched = <<>> /\ already = {} /\ schemaState = "idle" /\ queue = <<>> /\ pending = <<>>
        /\ flat = EmptyFlat /\ chain = <<>> /\ memo = EmptyMap /\ visited = {} /\ types = EmptyMap
        /\ results = <<>> /\ origin = EmptyMap
        /\ outcome = IF ReadableWsdl(Root) THEN "running" ELSE "failed"
        /\ stack = IF ReadableWsdl(Root) THEN <<Frame(Root, Says(Root))>> ELSE <<>>
    BY DEF Init, InitSchema
  <1>3. /\ DOMAIN flat.types = {} /\ DOMAIN flat.elements = {} /\ DOMAIN types = {} /\ DOMAIN origin = {}
    BY <1>2 DEF EmptyFlat, EmptyMap
  <1>4. FetchedInv /\ LoadedOnce
    BY <1>2, EmptyList DEF FetchedInv, LoadedOnce
  <1>5. CollectedInv
    BY <1>2, <1>3, EmptyList DEF CollectedInv
  <1>6. ChainInv
    BY <1>2, EmptyList DEF ChainInv
  <1>7. ResultsInv
    BY <1>2, <1>3, EmptyList DEF ResultsInv
  <1>8. CASE ReadableWsdl(Root)
    <2>1. outcome = "running" /\ stack = <<Frame(Root, Says(Root))>> /\ Root \in DOMAIN documents.says
      BY <1>1, <1>2, <1>8 DEF WsdlsKnown
    <2> DEFINE f == Frame(Root, Says(Root))
    <2>2. /\ FrameInv(f) /\ f.at = Root /\ f.def = documents.says[Root]
          /\ f.imports = documents.says[Root].imports /\ f.schemas = documents.says[Root].schemas
      BY <1>1, <2>1, FirstFrame
    <2> HIDE DEF f
    <2>3. /\ IsList(stack) /\ DOMAIN stack = {1} /\ stack[1] = f /\ stack # <<>>
      BY <2>1, SingleList DEF f
    <2>4. IsStack(stack)
      BY <2>2, <2>3 DEF IsStack
    <2>5. StackInv
      BY <1>2, <2>1, <2>2, <2>3, <2>4 DEF StackInv
    <2>6. Seen = {Root}
      BY <1>2 DEF Seen
    <2>7. VisitedInv
      BY <2>1, <2>2, <2>3, <2>6 DEF VisitedInv, ToFollow
    <2>8. MergeInv
      <3>1. AllMerged(stack)
        BY <1>1, <2>1, <2>2, <2>3, MergedAtFirst DEF AllMerged
      <3>2. \A l \in Seen : \A c \in Merged : \A name \in DOMAIN documents.says[l][c] : Held(c, name)
        BY <2>2, <2>3, <2>6 DEF Held
      <3> QED BY <2>1, <3>1, <3>2 DEF MergeInv
    <2>9. CoverInv
      BY <1>2, <1>3, <2>2, <2>3, <2>6 DEF CoverInv, ToResolve
    <2>10. FailureInv
      BY <1>2, <2>1 DEF FailureInv
    <2> QED BY <1>1, <1>4, <1>5, <1>6, <1>7, <2>5, <2>7, <2>8, <2>9, <2>10 DEF IInv
  <1>9. CASE ~ReadableWsdl(Root)
    <2>1. outcome = "failed" /\ stack = <<>>
      BY <1>2, <1>9
    <2>2. Missing
      BY <1>1, <1>9 DEF WsdlsKnown, Missing
    <2>3. StackInv /\ VisitedInv /\ MergeInv /\ CoverInv /\ FailureInv
      BY <1>2, <2>1, <2>2, EmptyList
         DEF StackInv, IsStack, VisitedInv, MergeInv, AllMerged, CoverInv, FailureInv
    <2> QED BY <1>1, <1>4, <1>5, <1>6, <1>7, <2>3 DEF IInv
  <1> QED BY <1>8, <1>9

(* What the documents are, for any files.                                  *)
TextIn(fs, l) == fs[PathOf(l)]
LoadableIn(fs, l) == PathOf(l) \in DOMAIN fs /\ TextIn(fs, l).tag # "malformed"
ReadableIn(fs, l) == LoadableIn(fs, l) /\ ReadWsdl(TextIn(fs, l)) # Bad
MentionedIn(fs) ==
    ({Root} \cup UNION {ToSet(def.imports) : def \in {ReadWsdl(fs[p]) : p \in DOMAIN fs} \ {Bad}})
    \ {Absent}
ImportsIn(fs) ==
    [node |-> MentionedIn(fs),
     edge |-> UNION {{<<l, m>> : m \in ToSet(ReadWsdl(TextIn(fs, l)).imports) \ {Absent}} :
                        l \in {x \in MentionedIn(fs) : ReadableIn(fs, x)}}]
UsedIn(fs, inline) ==
    UNION {Uses(s) : s \in {ReadSchema(fs[p]) : p \in DOMAIN fs} \cup {ReadSchema(s) : s \in inline}}
UsesIn(fs, inline) ==
    [node |-> UsedIn(fs, inline),
     edge |-> UNION {{<<l, m>> : m \in Uses(ReadSchema(TextIn(fs, l)))} :
                        l \in {x \in UsedIn(fs, inline) : LoadableIn(fs, x)}}]
DocumentsOf(fs, docs) ==
    /\ fs \in Worlds
    /\ docs.imports = ImportsIn(fs)
    /\ docs.wsdls = Reached(docs.imports, {Root})
    /\ docs.says = [l \in {w \in docs.wsdls : ReadableIn(fs, w)} |-> ReadWsdl(TextIn(fs, l))]
    /\ docs.inline = UNION {ToSet(docs.says[l].schemas) : l \in DOMAIN docs.says}
    /\ docs.uses = UsesIn(fs, docs.inline)
    /\ docs.xsds = Reached(docs.uses, UNION {Uses(ReadSchema(s)) : s \in docs.inline})
    /\ docs.schemas = docs.inline \cup {TextIn(fs, l) : l \in {x \in docs.xsds : LoadableIn(fs, x)}}

(* The files do not change while they are loaded.                          *)
LEMMA DocumentsSound == DocumentsInv /\ [Next]_vars => DocumentsInv'
  <1> SUFFICES ASSUME DocumentsInv, [Next]_vars PROVE DocumentsInv'
    OBVIOUS
  <1>1. UNCHANGED <<files, documents>>
    BY SchemaStates, Followed, Returns DEF Next, ResolveInlineSchema, AbsorbSchema, FailSchema, vars, schemaVars, wsdlVars
  <1>2. DocumentsInv <=> DocumentsOf(files, documents)
    BY Zenon DEF DocumentsInv, WsdlImports, SchemaUses, ReadableWsdl, Says, Loadable, DocumentAt,
           DocumentsOf, ImportsIn, UsesIn, MentionedIn, UsedIn, ReadableIn, LoadableIn, TextIn
  <1>3. DocumentsInv' <=> DocumentsOf(files', documents')
    BY Zenon DEF DocumentsInv, WsdlImports, SchemaUses, ReadableWsdl, Says, Loadable, DocumentAt,
           DocumentsOf, ImportsIn, UsesIn, MentionedIn, UsedIn, ReadableIn, LoadableIn, TextIn
  <1> QED BY <1>1, <1>2, <1>3

(* A step keeps the invariant.                                             *)
LEMMA StepSound == IInv /\ [Next]_vars => IInv'
  <1> SUFFICES ASSUME IInv, [Next]_vars PROVE IInv'
    OBVIOUS
  <1>1. /\ DocumentsInv /\ FetchedInv /\ LoadedOnce /\ StackInv /\ VisitedInv /\ MergeInv
        /\ CollectedInv /\ CoverInv /\ ChainInv /\ ResultsInv /\ FailureInv
    BY DEF IInv
  <1>2. WsdlsKnown
    BY <1>1, WsdlsAreKnown
  <1>3. DocumentsInv'
    BY <1>1, DocumentsSound
  <1>4. FetchedInv' /\ LoadedOnce'
    BY <1>1, FetchedSound
  <1>5. StackInv'
    BY <1>1, <1>2, StackSound
  <1>6. VisitedInv'
    BY <1>1, <1>2, VisitedSound
  <1>7. MergeInv'
    BY <1>1, <1>2, MergeSound
  <1>8. CollectedInv'
    BY <1>1, CollectedSound
  <1>9. CoverInv'
    BY <1>1, <1>2, CoverSound
  <1>10. ChainInv'
    BY <1>1, ChainSound
  <1>11. ResultsInv'
    BY <1>1, ResultsSound
  <1>12. FailureInv'
    BY <1>1, FailureSound
  <1> QED BY <1>3, <1>4, <1>5, <1>6, <1>7, <1>8, <1>9, <1>10, <1>11, <1>12 DEF IInv

(* A load always satisfies the invariant (wsdl/resolver.rs, xsd/resolver.rs*)
(* as a whole).                                                            *)
THEOREM Invariant == Spec => []IInv
  BY InitSound, StepSound, PTL DEF Spec

(* Whatever the imports form, no location is asked of the loader twice     *)
(* (wsdl/resolver.rs:80, xsd/resolver.rs:135).                             *)
THEOREM LoadsOnce == Spec => []LoadedOnce
  <1>1. IInv => LoadedOnce
    BY DEF IInv
  <1> QED BY <1>1, Invariant, PTL

(* When the load is over, all the root imports has been seen, and all that *)
(* the schemas use.                                                        *)
LEMMA AllSeen ==
    ASSUME IInv, outcome = "ok"
    PROVE  /\ documents.wsdls = Seen /\ documents.wsdls = DOMAIN documents.says
           /\ documents.xsds \subseteq already
           /\ \A x \in already : Loadable(x) /\ Covered(ReadSchema(DocumentAt(x)))
           /\ \A s \in documents.inline : Resolved(s)
  <1>1. WsdlsKnown /\ SchemasKnown
    BY WsdlsAreKnown, SchemasAreKnown DEF IInv
  <1>2. stack = <<>> /\ schemaState = "idle" /\ DOMAIN stack = {}
    BY EmptyList DEF IInv, StackInv
  <1>3. Seen \subseteq DOMAIN documents.says /\ DOMAIN documents.says \subseteq documents.wsdls
    BY <1>1 DEF IInv, VisitedInv, WsdlsKnown
  <1>4. ClosedUnderImports(Seen)
    <2> SUFFICES ASSUME NEW l \in Seen, NEW m \in ToSet(Says(l).imports) \ {Absent} PROVE m \in Seen
      BY DEF ClosedUnderImports
    <2>1. documents.says[l] = Says(l)
      BY <1>1, <1>3 DEF WsdlsKnown
    <2>2. m \in visited
      BY <1>2, <2>1 DEF IInv, VisitedInv, ToFollow
    <2> QED BY <2>2 DEF Seen
  <1>5. documents.wsdls \subseteq Seen
    BY <1>1, <1>4 DEF WsdlsKnown, Seen
  <1>6. /\ \A x \in already : Loadable(x) /\ Covered(ReadSchema(DocumentAt(x)))
        /\ \A l \in Seen : \A s \in ToSet(documents.says[l].schemas) : Resolved(s)
    BY <1>2 DEF IInv, CoverInv, ToResolve
  <1>7. \A s \in documents.inline : Resolved(s)
    BY <1>1, <1>3, <1>5, <1>6 DEF SchemasKnown
  <1>8. \A schema : Covered(schema) => Uses(schema) \subseteq already
    <2>1. ToSet(queue) = {} /\ ToSet(pending) = {}
      BY <1>2, EmptyList DEF IInv, CollectedInv
    <2> QED BY <2>1 DEF Covered
  <1>9. ClosedUnderUses(already)
    BY <1>6, <1>7, <1>8 DEF ClosedUnderUses, Resolved
  <1>10. documents.xsds \subseteq already
    BY <1>1, <1>9 DEF SchemasKnown
  <1> QED BY <1>3, <1>5, <1>6, <1>7, <1>10

(* The merged definition has what every imported file defines, and of what *)
(* several define what no importing file hides (wsdl/resolver.rs:99-112).  *)
THEOREM NothingOverruled == Spec => []VisibleDefinitionWins
  <1>1. ASSUME IInv PROVE VisibleDefinitionWins
    <2> SUFFICES ASSUME outcome = "ok", NEW c \in Merged
                 PROVE  /\ DOMAIN definition[c] = UNION {DOMAIN documents.says[l][c] : l \in documents.wsdls}
                        /\ \A name \in DOMAIN definition[c] :
                               \E l \in VisibleDefiners(Root, c, name) :
                                   definition[c][name] = documents.says[l][c][name]
      BY DEF VisibleDefinitionWins
    <2>1. documents.wsdls = Seen /\ documents.wsdls = DOMAIN documents.says
      BY <1>1, AllSeen
    <2>2. MergedFor(Root, definition) /\ \A l \in Seen : DOMAIN documents.says[l][c] \subseteq DOMAIN definition[c]
      BY <1>1 DEF IInv, MergeInv
    <2>3. \A name \in DOMAIN definition[c] : \E l \in VisibleDefiners(Root, c, name) :
              definition[c][name] = documents.says[l][c][name]
      BY <2>2 DEF MergedFor
    <2>4. \A name : \A l \in VisibleDefiners(Root, c, name) :
              l \in documents.wsdls /\ name \in DOMAIN documents.says[l][c]
      BY <2>1 DEF VisibleDefiners, Defines
    <2> QED BY <2>1, <2>2, <2>3, <2>4
  <1> QED BY <1>1, Invariant, PTL

(* A load fails for a reason, and one that succeeds has seen every         *)
(* document and every type, and no circle of types (xsd/resolver.rs:178).  *)
THEOREM FailsForAReason == Spec => []LoadDecision
  <1>1. ASSUME IInv PROVE LoadDecision
    <2>1. outcome = "failed" => Missing \/ Garbled \/ Cyclic(Extends)
      BY <1>1 DEF IInv, FailureInv
    <2>2. ASSUME outcome = "ok"
          PROVE  /\ ~Missing /\ ~Garbled /\ DeclaredTypes \subseteq DOMAIN types
                 /\ \A n \in DOMAIN results : ~Cyclic(ExtendsIn(results[n].flat))
      <3>1. /\ documents.wsdls = DOMAIN documents.says /\ documents.xsds \subseteq already
            /\ \A x \in already : Loadable(x) /\ Covered(ReadSchema(DocumentAt(x)))
            /\ \A s \in documents.inline : Resolved(s)
        BY <1>1, <2>2, AllSeen
      <3>2. ~Missing /\ ~Garbled
        BY <3>1 DEF Missing, Garbled, Resolved
      <3>3. \A schema \in Schemas : Covered(schema)
        <4>1. SchemasKnown
          BY <1>1, SchemasAreKnown DEF IInv
        <4> QED BY <3>1, <4>1 DEF SchemasKnown, Resolved
      <3>4. /\ schemaState = "idle" /\ ToSet(queue) = {} /\ DOMAIN flat.types \subseteq DOMAIN types
        BY <1>1, <2>2, EmptyList DEF IInv, StackInv, CollectedInv, CoverInv
      <3>5. \A schema \in Schemas : DOMAIN schema.types \subseteq DOMAIN types
        BY <3>3, <3>4 DEF Covered
      <3>6. DeclaredTypes \subseteq DOMAIN types
        BY <3>5 DEF DeclaredTypes, Complex
      <3>7. \A n \in DOMAIN results : ~Cyclic(ExtendsIn(results[n].flat))
        BY <1>1 DEF IInv, ResultsInv, CallSound
      <3> QED BY <3>2, <3>6, <3>7
    <2> QED BY <2>1, <2>2 DEF LoadDecision
  <1> QED BY <1>1, Invariant, PTL

(* Every complex type of the registry is what some document says, with the *)
(* elements of the types it extends before its own (xsd/resolver.rs:236).  *)
THEOREM ExtensionsAreFlattened == Spec => []ExtensionsFlattened
  <1>1. ASSUME IInv PROVE ExtensionsFlattened
    <2> SUFFICES ASSUME NEW q \in DOMAIN types, types[q].kind = "complex"
                 PROVE  \E def \in DefinitionsOf(q) : types[q].content = Flattened(def, results[origin[q]])
      BY DEF ExtensionsFlattened
    <2>1. PICK call : call = results[origin[q]]
      OBVIOUS
    <2>2. CallSound(call) /\ q \in DOMAIN call.registry /\ types[q] = call.registry[q]
      BY <1>1, <2>1 DEF IInv, ResultsInv
    <2> QED BY <2>1, <2>2 DEF CallSound
  <1> QED BY <1>1, Invariant, PTL

=============================================================================
