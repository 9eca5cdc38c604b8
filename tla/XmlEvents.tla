----------------------------- MODULE XmlEvents -----------------------------
(***************************************************************************)
(* XML documents as trees, and the sequence of events quick_xml (external) *)
(* reports while it reads one.  The code under src/ works on the events;   *)
(* the properties are stated on the trees.                                 *)
(*                                                                         *)
(* A tree is an element                                                    *)
(*   [kind |-> "elem", prefix, local, declares, attrs, kids, closed]       *)
(* declares maps the prefixes it declares to namespaces, attrs its         *)
(* attributes <<prefix, local>> to values as they are written, sequences   *)
(* of tokens some of which may be references; closed says that it is       *)
(* written as an empty-element tag.  Any other node is a piece of content  *)
(*   [kind |-> "text" | "cdata" | "ref" | "other", value]                  *)
(* whose value is a sequence of tokens, "other" being a comment or a       *)
(* processing instruction.                                                 *)
(***************************************************************************)
EXTENDS Naturals, Sequences, SequencesExt, TLC

NoNamespace == "no namespace"
Undeclared == "undeclared"
XmlNamespace == "http://www.w3.org/XML/1998/namespace"

Elem(prefix, local, declares, attrs, kids) ==
    [kind |-> "elem", prefix |-> prefix, local |-> local, declares |-> declares,
     attrs |-> attrs, kids |-> kids, closed |-> FALSE]
AsEmptyTag(node) == [node EXCEPT !.closed = TRUE]
Text(value) == [kind |-> "text", value |-> value]
NoAttrs == <<>>

(* What stands for any error the reader reports, a wrong end tag say.      *)
ErrorEvent == [kind |-> "error"]

(* A loop over seq, which goes through its first half and then through its *)
(* second: FoldLeft, with each state evaluated once, however often the     *)
(* next step refers to it.                                                 *)
Loop(Step(_, _), start, seq) ==
    LET RECURSIVE Run(_, _)
        Run(from, over) ==
            CHOOSE end \in {
                IF Len(items) > 1
                THEN LET half == Len(items) \div 2
                     IN  Run(Run(state, SubSeq(items, 1, half)), SubSeq(items, half + 1, Len(items)))
                ELSE IF items = <<>> THEN state ELSE Step(state, items[1]) :
                    state \in {from}, items \in {over}} : TRUE
    IN  Run(start, seq)

RECURSIVE EventsOf(_)
EventsOf(nodes) ==
    IF nodes = <<>> THEN <<>>
    ELSE LET node == Head(nodes)
             tag(kind) == [kind |-> kind, prefix |-> node.prefix, local |-> node.local,
                           declares |-> node.declares, attrs |-> node.attrs]
             own == CASE node.kind # "elem" -> <<node>>
                      [] node.kind = "elem" /\ node.closed -> <<tag("empty")>>
                      [] OTHER -> <<tag("start")>> \o EventsOf(node.kids)
                                  \o <<[kind |-> "end", prefix |-> node.prefix, local |-> node.local]>>
         IN  own \o EventsOf(Tail(nodes))

Events(tree) == EventsOf(<<tree>>)

(* A document that is not whole: it breaks off before the last event, or   *)
(* its last end tag is the wrong one.                                      *)
BrokenOff(events) == Front(events)
WrongEnd(events) == Append(Front(events), ErrorEvent)

Tag(e) == e.kind \in {"start", "empty"}
Chars(e) == e.kind \in {"text", "cdata", "ref"}
ReadError(events) == Contains(events, ErrorEvent)

(* What a loop reads that stops at the first error without reporting it.   *)
UntilError(events) == SelectInSeq(events, LAMBDA e : e = ErrorEvent)
ReadableEvents(events) ==
    IF UntilError(events) = 0 THEN events ELSE SubSeq(events, 1, UntilError(events) - 1)

-----------------------------------------------------------------------------
(* The value of an attribute is reported as it is written.  A reference is *)
(* a token of its own, and stands for a character; rest is what it is      *)
(* written as, apart from the "&".                                         *)

References ==
    ("&amp;" :> [char |-> "&", rest |-> "amp;"]) @@ ("&lt;" :> [char |-> "<", rest |-> "lt;"])
    @@ ("&quot;" :> [char |-> "\"", rest |-> "quot;"]) @@ ("&apos;" :> [char |-> "'", rest |-> "apos;"])
    @@ ("&#39;" :> [char |-> "'", rest |-> "#39;"])

Literal(value) == \A i \in DOMAIN value : value[i] \notin DOMAIN References

(* What a written value says.                                              *)
Unescaped(value) ==
    [i \in DOMAIN value |-> IF value[i] \in DOMAIN References THEN References[value[i]].char ELSE value[i]]

(* Op applied to each of the attributes.                                   *)
MapAttrs(Op(_), attrs) == [a \in DOMAIN attrs |-> Op(attrs[a])]

-----------------------------------------------------------------------------
(* Namespaces, as NsReader resolves them.                                  *)

RootScope == "xml" :> XmlNamespace

Resolve(scope, prefix) ==
    CASE prefix \in DOMAIN scope -> scope[prefix]
      [] prefix \notin DOMAIN scope -> IF prefix = "" THEN NoNamespace ELSE Undeclared

(* A default namespace is not that of an attribute.                        *)
AttributeName(scope, name) ==
    <<IF name[1] = "" THEN NoNamespace ELSE Resolve(scope, name[1]), name[2]>>

(* The attributes under their resolved names.                              *)
ResolvedAttrs(scope, attrs) ==
    LET names == {AttributeName(scope, a) : a \in DOMAIN attrs}
    IN  [n \in names |-> attrs[CHOOSE a \in DOMAIN attrs : AttributeName(scope, a) = n]]

=============================================================================
