----------------------------- MODULE Normalizer -----------------------------
(***************************************************************************)
(* crossref/src/normalize.rs: what is done to a response before it is      *)
(* compared.  Each function reads the events of a document and writes      *)
(* those of another.  Layer 1 (Normalize) compares with a frozen baseline, *)
(* layer 2 (MaskOnly, MaskOnlyWithDrops) hands its output to the oracle    *)
(* for exclusive C14N (OracleC14n, external).                              *)
(*                                                                         *)
(* Masks are sets of paths, a path being the sequence of the local names   *)
(* from the root; an attribute mask is a pair <<path, attribute>>.         *)
(*                                                                         *)
(* canonicalize_prefixes gives every namespace of the document a prefix of *)
(* its own, declared on the root; here an element is written under the     *)
(* namespace itself, which tells the same documents apart.                 *)
(***************************************************************************)
EXTENDS XmlEvents

CONSTANT Failed        \* Err(String), of any of these functions

Sentinel == [kind |-> "text", value |-> <<"__MASKED__">>]

Written(s, e) == [s EXCEPT !.out = Append(@, e)]

-----------------------------------------------------------------------------
(* Layer 1.                                                                *)

(* The sentinel stands for every piece of a masked text; entity references *)
(* go with the other events that are copied.                               *)
Normalize(events, masks) ==
    LET Step(s, e) ==
            CASE e.kind = "start" -> [Written(s, e) EXCEPT !.path = Append(@, e.local)]
              [] e.kind = "end" -> [Written(s, e) EXCEPT !.path = Front(@)]
              [] e.kind \in {"text", "cdata"} ->
                     Written(s, IF s.path \in masks THEN Sentinel ELSE e)
              [] OTHER -> Written(s, e)
    IN  IF ReadError(events) THEN Failed
        ELSE Loop(Step, [out |-> <<>>, path |-> <<>>], events).out

-----------------------------------------------------------------------------
(* Layer 2.                                                                *)

(* depth is that of the dropped element that is being read, 0 for None.    *)
DropSubtrees(events, dropPaths) ==
    LET Step(s, e) ==
            CASE e.kind = "start" ->
                     LET path == Append(s.path, e.local) IN
                     IF s.depth > 0 THEN [s EXCEPT !.path = path]
                     ELSE IF path \in dropPaths THEN [s EXCEPT !.path = path, !.depth = Len(path)]
                     ELSE [Written(s, e) EXCEPT !.path = path]
              [] e.kind = "empty" ->
                     IF s.depth > 0 \/ Append(s.path, e.local) \in dropPaths THEN s
                     ELSE Written(s, e)
              [] e.kind = "end" ->
                     [IF s.depth > 0 THEN s ELSE Written(s, e)
                        EXCEPT !.path = Front(@), !.depth = IF @ = Len(s.path) THEN 0 ELSE @]
              [] OTHER -> IF s.depth > 0 THEN s ELSE Written(s, e)
    IN  IF ReadError(events) THEN Failed
        ELSE Loop(Step, [out |-> <<>>, path |-> <<>>, depth |-> 0], events).out

(* Every element takes the attributes of the masked one with it.           *)
MutantWriteMaskedStart(e, path, attrMasks) == e

WriteMaskedStart(e, path, attrMasks) ==
    [e EXCEPT !.attrs = [a \in {b \in DOMAIN e.attrs : <<path, b>> \notin attrMasks} |-> e.attrs[a]]]

(* Any tag starts a new content, with no sentinel in it yet.               *)
AfterTag(s, path) == [s EXCEPT !.path = path, !.sentinel = FALSE]

(* One sentinel for the content of a masked element, none where all of it  *)
(* is entity references.                                                   *)
MaskContent(s, e) ==
    IF s.sentinel \/ e.kind = "ref" THEN s ELSE [Written(s, Sentinel) EXCEPT !.sentinel = TRUE]

ApplyMasks(events, textMasks, attrMasks) ==
    LET Step(s, e) ==
            CASE Tag(e) ->
                     LET path == Append(s.path, e.local) IN
                     AfterTag(Written(s, WriteMaskedStart(e, path, attrMasks)),
                              IF e.kind = "start" THEN path ELSE s.path)
              [] e.kind = "end" -> AfterTag(Written(s, e), Front(s.path))
              [] Chars(e) /\ s.path \in textMasks -> MaskContent(s, e)
              [] OTHER -> Written(s, e)
    IN  IF events = Failed \/ ReadError(events) THEN Failed
        ELSE Loop(Step, [out |-> <<>>, path |-> <<>>, sentinel |-> FALSE], events).out

(* The value is escaped as if it were text, though it is what the document *)
(* has between the quotes: a reference in it is no reference any more.     *)
WriteAttrValue(value) ==
    LET written(token) ==
            CASE token \in DOMAIN References -> <<"&amp;", References[token].rest>>
              [] token = "\"" -> <<"&quot;">>
              [] OTHER -> <<token>>
    IN  FlattenSeq([i \in DOMAIN value |-> written(value[i])])

(* An attribute's prefix is rewritten too, if it is declared (one that is  *)
(* not is taken to be none of the prefixes that are generated); comments   *)
(* are not copied.  The end tag repeats the name its start tag was given.  *)
EmitCanonStart(e, scope) ==
    [kind |-> e.kind, ns |-> Resolve(scope, e.prefix), local |-> e.local,
     attrs |-> MapAttrs(WriteAttrValue, ResolvedAttrs(scope, e.attrs))]

(* What an element declares holds for what follows it, too.                *)
MutantScopesAfter(scopes, e) ==
    CASE e.kind = "start" -> Append(scopes, e.declares @@ Last(scopes))
      [] e.kind = "end" -> Append(Front(Front(scopes)), Last(scopes))
      [] OTHER -> scopes

(* The declarations in force, one entry for each open element.             *)
ScopesAfter(scopes, e) ==
    CASE e.kind = "start" -> Append(scopes, e.declares @@ Last(scopes))
      [] e.kind = "end" -> Front(scopes)
      [] OTHER -> scopes

CanonicalizePrefixes(events) ==
    LET Step(s, e) ==
            LET next == [s EXCEPT !.scopes = ScopesAfter(s.scopes, e)] IN
            CASE Tag(e) -> Written(next, EmitCanonStart(e, e.declares @@ Last(s.scopes)))
              [] e.kind = "end" -> Written(next, [kind |-> "end"])
              [] Chars(e) -> Written(next, e)
              [] OTHER -> next
        out == Loop(Step, [out |-> <<>>, scopes |-> <<RootScope>>], events).out
    IN  IF events = Failed \/ ReadError(events) \/ \E i \in DOMAIN out : Tag(out[i]) /\ out[i].ns = Undeclared
        THEN Failed ELSE out

MaskOnly(events, textMasks, attrMasks) ==
    CanonicalizePrefixes(ApplyMasks(events, textMasks, attrMasks))

MaskOnlyWithDrops(events, textMasks, attrMasks, dropPaths) ==
    CanonicalizePrefixes(ApplyMasks(DropSubtrees(events, dropPaths), textMasks, attrMasks))

-----------------------------------------------------------------------------
(* The oracle: it refuses what is not one element with every tag closed    *)
(* and every prefix declared, and writes what it accepts in one form, the  *)
(* values of attributes by what they say.                                  *)

(* outside counts what stands outside every element.                       *)
OneElement(events) ==
    LET Step(s, e) ==
            [depth |-> CASE e.kind = "start" -> s.depth + 1 [] e.kind = "end" -> s.depth - 1 [] OTHER -> s.depth,
             outside |-> IF s.depth = 0 THEN s.outside + 1 ELSE s.outside]
    IN  /\ events # <<>> /\ Tag(Head(events))
        /\ Loop(Step, [depth |-> 0, outside |-> 0], events) = [depth |-> 0, outside |-> 1]

OracleC14n(events) ==
    LET Said(e) == IF Tag(e) THEN [e EXCEPT !.attrs = MapAttrs(Unescaped, @)] ELSE e
        Closed(e) == IF e.kind = "empty" THEN <<[e EXCEPT !.kind = "start"], [kind |-> "end"]>> ELSE <<e>>
        Step(out, e) ==
            IF ~Chars(e) THEN out \o Closed(Said(e))
            ELSE IF Last(out).kind = "chars"
            THEN [out EXCEPT ![Len(out)].value = @ \o e.value]
            ELSE Append(out, [kind |-> "chars", value |-> e.value])
        declared(e) == Tag(e) => \A a \in DOMAIN e.attrs : a[1] # Undeclared
    IN  IF events = Failed \/ ~OneElement(events) \/ ~\A i \in DOMAIN events : declared(events[i])
        THEN Failed ELSE Loop(Step, <<>>, events)

-----------------------------------------------------------------------------
(* What a document says, read off its tree, apart from what the masks      *)
(* leave out of the comparison: prefixes, the kind of a piece of text, the *)
(* form of an empty element, comments, and whether a character of an       *)
(* attribute is written as a reference make no difference.                 *)

RECURSIVE Meaning(_, _, _, _)
Meaning(nodes, scope, path, masks) ==
    IF nodes = <<>> THEN <<>>
    ELSE LET node == Head(nodes)
             inner == node.declares @@ scope
             here == Append(path, node.local)
             shown == {a \in DOMAIN node.attrs : <<here, a>> \notin masks.attr}
             own == CASE node.kind = "other" -> <<>>
                      [] Chars(node) ->
                             IF path \in masks.text THEN <<>>
                             ELSE [i \in DOMAIN node.value |-> [char |-> node.value[i]]]
                      [] node.kind = "elem" /\ here \in masks.drop -> <<>>
                      [] OTHER ->
                             << [ns |-> Resolve(inner, node.prefix), local |-> node.local,
                                 attrs |-> ResolvedAttrs(inner, [a \in shown |-> Unescaped(node.attrs[a])]),
                                 content |-> Meaning(node.kids, inner, here, masks)] >>
         IN  own \o Meaning(Tail(nodes), scope, path, masks)

(* Every element whose text is masked has some, so that every comparison   *)
(* meets a sentinel.                                                       *)
RECURSIVE MaskedHaveText(_, _, _)
MaskedHaveText(node, path, masks) ==
    node.kind # "elem" \/
        LET here == Append(path, node.local) IN
        /\ here \in masks.text =>
               /\ \E i \in DOMAIN node.kids : node.kids[i].kind \in {"text", "cdata"}
               /\ \A i \in DOMAIN node.kids : node.kids[i].kind # "elem"
        /\ \A i \in DOMAIN node.kids : MaskedHaveText(node.kids[i], here, masks)

(* No attribute of the document is written with a reference.               *)
RECURSIVE AttrsLiteral(_)
AttrsLiteral(node) ==
    node.kind = "elem" =>
        /\ \A a \in DOMAIN node.attrs : Literal(node.attrs[a])
        /\ \A i \in DOMAIN node.kids : AttrsLiteral(node.kids[i])

=============================================================================
