---------------------------- MODULE EnvelopeParser ----------------------------
(***************************************************************************)
(* parse_envelope (src/envelope.rs): one pass over the events of an XML    *)
(* reader that finds the Envelope, cuts the children of its Header and the *)
(* first child of its Body out as fragments, and repeats on the root of    *)
(* each fragment the namespace declarations it inherits.                   *)
(*                                                                         *)
(* The document is produced one event at a time, and may break off at any. *)
(* What the code goes by is its phase and a depth; open and children are   *)
(* the elements as XML has them.                                           *)
(***************************************************************************)
EXTENDS Integers, Sequences, SequencesExt, FiniteSets

CONSTANTS
    Roots,        \* start tags up to the Envelope
    Tags,         \* start tags inside it: [prefix, local, declares],
                  \* declares is a sequence of <<prefix, namespace>>
    SoapNs,       \* the namespaces of SOAP 1.1 and 1.2
    Absent,       \* Option::None
    MaxEvents     \* bound of the model: tags and character data

VARIABLES
    phase,        \* which loop the code is in
    depth,        \* depth, of the loop that has one
    version,      \* soap_version
    envelopeNs,   \* envelope_ns_bindings
    inherited,    \* ns_bindings, what a fragment's root is given
    buffer,       \* the fragment being copied
    headers,      \* header_children
    body,         \* body_element
    outcome,      \* "reading", "ok" or the kind of fault
    open,         \* the open elements, outermost first
    events,       \* how many events were bounded by MaxEvents
    children,     \* history: the children of the Header and of the Body
    odd           \* history: in what ways the document is unusual

Parts == {"Header", "Body"}

(* None is not the name of a part; what a tag declares is a sequence.      *)
ASSUME ParserAssumption ==
    /\ Absent \notin Parts
    /\ \A tag \in Roots \cup Tags : tag.declares \in Seq(ToSet(tag.declares))

result == <<version, headers, body, outcome>>
code == <<phase, depth, envelopeNs, inherited, buffer, result>>
vars == <<code, open, events, children, odd>>

-----------------------------------------------------------------------------
(* The declarations in scope below the elements of a stack, innermost      *)
(* first, and what the first of them for a prefix binds it to.             *)
Scope(stack) == FlattenSeq(Reverse([i \in DOMAIN stack |-> stack[i].declares]))

Declares(bindings, prefix) == \E i \in DOMAIN bindings : bindings[i][1] = prefix

FirstBinding(bindings, prefix) ==
    LET i == SelectInSeq(bindings, LAMBDA b : b[1] = prefix)
    IN  IF i = 0 THEN Absent ELSE bindings[i][2]

Element(tag) ==
    [local |-> tag.local, declares |-> tag.declares,
     ns |-> FirstBinding(tag.declares \o Scope(open), tag.prefix)]

IsPart(e) == e.local \in Parts /\ e.ns \in SoapNs

(* What is open from the first Envelope on.                                *)
InEnvelope ==
    LET i == SelectInSeq(open, LAMBDA e : e.local = "Envelope")
    IN  IF i = 0 THEN <<>> ELSE SubSeq(open, i, Len(open))

(* The part whose child an event belongs to, as XML has it.                *)
Part == IF Len(InEnvelope) >= 2 /\ IsPart(InEnvelope[2]) THEN InEnvelope[2].local ELSE Absent

(* An event is added to a fragment.                                        *)
Longer(fragment, item) == [fragment EXCEPT !.items = Append(@, item)]

Grown(item) == [children EXCEPT ![Part] = Append(Front(@), Longer(Last(@), item))]

(* An element begins in the document.                                      *)
Node(tag, item) ==
    LET part == Len(InEnvelope) = 1 /\ IsPart(Element(tag))
    IN  /\ outcome = "reading" /\ events < MaxEvents
        /\ tag \in IF InEnvelope = <<>> THEN Roots ELSE Tags
        /\ events > 0 => open # <<>>
        /\ events' = events + 1
        /\ children' =
              IF part THEN [children EXCEPT ![tag.local] = <<>>]
              ELSE IF Part = Absent THEN children
              ELSE IF Len(InEnvelope) = 2 THEN
                  [children EXCEPT ![Part] =
                      Append(@, [scope |-> tag.declares \o Scope(open), items |-> <<item>>])]
              ELSE Grown(item)
        /\ odd' = odd \cup (IF part /\ children[tag.local] # Absent THEN {"repeated"} ELSE {})
                      \cup (IF events = 0 /\ tag.local # "Envelope" THEN {"wrapped"} ELSE {})

Opening(tag) == Node(tag, <<"start", tag>>) /\ open' = Append(open, Element(tag))
EmptyNode(tag) == Node(tag, <<"empty", tag>>) /\ UNCHANGED open

Content(item) == IF Part # Absent /\ Len(InEnvelope) > 2 THEN Grown(item) ELSE children

Closing ==
    /\ outcome = "reading" /\ open # <<>>
    /\ open' = Front(open) /\ children' = Content(<<"end">>)
    /\ UNCHANGED <<events, odd>>

Data ==
    /\ outcome = "reading" /\ open # <<>> /\ events < MaxEvents
    /\ events' = events + 1 /\ children' = Content(<<"text">>)
    /\ UNCHANGED open

-----------------------------------------------------------------------------
Init ==
    /\ phase = "envelope" /\ depth = 0
    /\ version = Absent /\ envelopeNs = <<>> /\ inherited = <<>>
    /\ buffer = Absent /\ headers = <<>> /\ body = Absent /\ outcome = "reading"
    /\ open = <<>> /\ events = 0
    /\ children = [p \in Parts |-> Absent] /\ odd = {}

Return(value) ==
    /\ outcome' = value /\ buffer' = Absent
    /\ UNCHANGED <<phase, depth, version, envelopeNs, inherited, headers, body>>

(* Step 1, up to the Envelope.                                             *)
BeforeEnvelope(tag) ==
    /\ phase = "envelope" /\ tag.local # "Envelope"
    /\ Opening(tag)
    /\ UNCHANGED code

RefuseEnvelope(tag) ==
    /\ phase = "envelope" /\ tag.local = "Envelope" /\ Element(tag).ns \notin SoapNs
    /\ Opening(tag) /\ Return("no envelope")

Envelope(tag) ==
    /\ phase = "envelope" /\ tag.local = "Envelope" /\ Element(tag).ns \in SoapNs
    /\ Opening(tag)
    /\ version' = Element(tag).ns /\ envelopeNs' = tag.declares /\ phase' = "children"
    /\ UNCHANGED <<depth, inherited, buffer, headers, body, outcome>>

(* The element's own declarations go last.                                 *)
MutantInherit(tag) == inherited' = envelopeNs \o tag.declares

(* collect_ns_from_attrs: the element's own declarations go first.         *)
Inherit(tag) == inherited' = tag.declares \o envelopeNs

(* Step 2, among the children of the Envelope.                             *)
Header(tag) ==
    /\ phase = "children" /\ IsPart(Element(tag)) /\ tag.local = "Header"
    /\ Opening(tag) /\ Inherit(tag)
    /\ phase' = "header" /\ depth' = 0 /\ headers' = <<>>
    /\ UNCHANGED <<version, envelopeNs, buffer, body, outcome>>

Body(tag) ==
    /\ phase = "children" /\ IsPart(Element(tag)) /\ tag.local = "Body"
    /\ Opening(tag) /\ Inherit(tag)
    /\ phase' = "body"
    /\ UNCHANGED <<depth, version, envelopeNs, buffer, headers, body, outcome>>

(* skip_element.                                                           *)
OtherChild(tag) ==
    /\ phase = "children" /\ ~IsPart(Element(tag))
    /\ Opening(tag)
    /\ phase' = "skip" /\ depth' = 1
    /\ UNCHANGED <<version, envelopeNs, inherited, buffer, headers, body, outcome>>

-----------------------------------------------------------------------------
(* The next element is the root of a fragment; a fragment is being copied. *)
AtRoot == phase = "body" \/ (phase = "header" /\ depth = 0)
Copying == phase \in {"header", "child"} /\ depth > 0

(* The inherited declarations that a tag does not make itself.             *)
Undeclared(tag) ==
    LET kept[i \in 0 .. Len(inherited)] ==
          IF i = 0 THEN <<>>
          ELSE IF Declares(tag.declares, inherited[i][1]) THEN kept[i - 1]
          ELSE Append(kept[i - 1], inherited[i])
    IN  kept[Len(inherited)]

(* The root of a fragment is given those, before its own.                  *)
Root(tag, item) == [declares |-> Undeclared(tag) \o tag.declares, items |-> <<item>>]

Copied(item) == Longer(buffer, item)

(* The rest of the Body is not skipped.                                    *)
MutantKeep(fragment) ==
    /\ headers' = IF phase = "header" THEN Append(headers, fragment) ELSE headers
    /\ body' = IF phase = "header" THEN body ELSE fragment
    /\ phase' = IF phase = "header" THEN "header" ELSE "children"
    /\ depth' = 0
    /\ buffer' = Absent

(* The first child of the Body is returned; skip_to_end follows.           *)
Keep(fragment) ==
    /\ headers' = IF phase = "header" THEN Append(headers, fragment) ELSE headers
    /\ body' = IF phase = "header" THEN body ELSE fragment
    /\ phase' = IF phase = "header" THEN "header" ELSE "skip"
    /\ depth' = IF phase = "header" THEN 0 ELSE 1
    /\ buffer' = Absent

BeginFragment(tag) ==
    /\ AtRoot /\ Opening(tag)
    /\ buffer' = Root(tag, <<"start", tag>>)
    /\ depth' = 1 /\ phase' = IF phase = "body" THEN "child" ELSE phase
    /\ UNCHANGED <<envelopeNs, inherited, result>>

EmptyFragment(tag) ==
    /\ AtRoot /\ EmptyNode(tag)
    /\ Keep(Root(tag, <<"empty", tag>>))
    /\ UNCHANGED <<version, envelopeNs, inherited, outcome>>

CopyStart(tag) ==
    /\ Copying /\ Opening(tag)
    /\ buffer' = Copied(<<"start", tag>>) /\ depth' = depth + 1
    /\ UNCHANGED <<phase, envelopeNs, inherited, result>>

CopyEmpty(tag) ==
    /\ Copying /\ EmptyNode(tag)
    /\ buffer' = Copied(<<"empty", tag>>)
    /\ UNCHANGED <<phase, depth, envelopeNs, inherited, result>>

CopyEnd ==
    /\ Copying /\ Closing
    /\ IF depth > 1
       THEN buffer' = Copied(<<"end">>) /\ depth' = depth - 1 /\ UNCHANGED <<phase, headers, body>>
       ELSE Keep(Copied(<<"end">>))
    /\ UNCHANGED <<version, envelopeNs, inherited, outcome>>

(* Text, and entity references, which are written out again.               *)
CopyText ==
    /\ Copying /\ Data
    /\ buffer' = Copied(<<"text">>)
    /\ UNCHANGED <<phase, depth, envelopeNs, inherited, result, odd>>

-----------------------------------------------------------------------------
(* skip_to_end.                                                            *)
SkipStart(tag) ==
    /\ phase = "skip" /\ Opening(tag)
    /\ depth' = depth + 1
    /\ UNCHANGED <<phase, envelopeNs, inherited, buffer, result>>

SkipEnd ==
    /\ phase = "skip" /\ Closing
    /\ depth' = depth - 1 /\ phase' = IF depth = 1 THEN "children" ELSE "skip"
    /\ UNCHANGED <<envelopeNs, inherited, buffer, result>>

(* Empty elements and text are passed over elsewhere, CDATA everywhere.    *)
PassOverEmpty(tag) ==
    /\ phase \in {"envelope", "children", "skip"} /\ EmptyNode(tag)
    /\ UNCHANGED code

PassOverText == ~Copying /\ Data /\ UNCHANGED <<code, odd>>

CData ==
    /\ Data
    /\ odd' = IF children' = children THEN odd ELSE odd \cup {"cdata"}
    /\ UNCHANGED code

EndBeforeEnvelope == phase = "envelope" /\ Closing /\ UNCHANGED code

EndOfHeader ==
    /\ phase = "header" /\ depth = 0 /\ Closing
    /\ phase' = "children"
    /\ UNCHANGED <<depth, envelopeNs, inherited, buffer, result>>

EndOfBody == phase = "body" /\ Closing /\ Return("no body")

Finish == Return(IF body = Absent THEN "no body" ELSE "ok")

EndOfEnvelope == phase = "children" /\ Closing /\ Finish

(* The input ends, be it well-formed or not.                               *)
Eof ==
    /\ outcome = "reading"
    /\ \/ phase = "envelope" /\ Return("no envelope")
       \/ phase = "children" /\ Finish
       \/ phase \notin {"envelope", "children"} /\ Return("truncated")
    /\ UNCHANGED <<open, events, children, odd>>

Malformed ==
    /\ outcome = "reading" /\ Return("malformed")
    /\ UNCHANGED <<open, events, children, odd>>

Next ==
    \/ \E tag \in Roots \cup Tags :
          \/ BeforeEnvelope(tag) \/ RefuseEnvelope(tag) \/ Envelope(tag)
          \/ Header(tag) \/ Body(tag) \/ OtherChild(tag)
          \/ BeginFragment(tag) \/ EmptyFragment(tag)
          \/ CopyStart(tag) \/ CopyEmpty(tag) \/ SkipStart(tag) \/ PassOverEmpty(tag)
    \/ CopyEnd \/ SkipEnd \/ EndBeforeEnvelope \/ EndOfHeader \/ EndOfBody \/ EndOfEnvelope
    \/ CopyText \/ PassOverText \/ CData
    \/ Eof \/ Malformed

Spec == Init /\ [][Next]_vars

-----------------------------------------------------------------------------
(* Properties.                                                             *)

Items(fragments) == [i \in DOMAIN fragments |-> fragments[i].items]
ChildrenOf(part) == IF children[part] = Absent THEN <<>> ELSE children[part]

(* An envelope with one Body and at most one Header, without CDATA.        *)
Usual == odd \cap {"repeated", "cdata"} = {}

(* An envelope with one Body and at most one Header is accepted only with  *)
(* a Body that has a child, whose markup and text is body_element: nothing *)
(* of a sibling, of the Header, or of elements that are merely called Body *)
(* at another depth gets in, and nothing is cut short; header_children     *)
(* holds the children of the Header in the same way.  It is refused for    *)
(* its missing Body only if the Body has no child.                         *)
FragmentsAsXml ==
    Usual =>
        /\ outcome = "ok" =>
              /\ ChildrenOf("Body") # <<>>
              /\ body.items = ChildrenOf("Body")[1].items
              /\ Items(headers) = Items(ChildrenOf("Header"))
        /\ outcome = "no body" => ChildrenOf("Body") = <<>>

(* An Envelope that is the document, with one Body and at most one Header. *)
Plain == odd \cap {"repeated", "wrapped"} = {}

(* A prefix in scope at a fragment's root is declared on it, and, where it *)
(* is declared again between the Envelope and the fragment, the innermost  *)
(* declaration comes first, as collect_ns_from_attrs has it.               *)
Declared(fragment, child) ==
    \A i \in DOMAIN child.scope :
        LET p == child.scope[i][1]
        IN  FirstBinding(fragment.declares, p) = FirstBinding(child.scope, p)

ScopeKept ==
    outcome = "ok" /\ Plain =>
        /\ Declared(body, ChildrenOf("Body")[1])
        /\ \A i \in DOMAIN headers : Declared(headers[i], ChildrenOf("Header")[i])

(* The body is "self-contained XML" (README.md:74), in which an attribute  *)
(* occurs once on a tag.  A prefix redeclared on the Body is declared      *)
(* twice on the fragment, so a run shows this one violated.                *)
SelfContained ==
    outcome = "ok" =>
        \A i, j \in DOMAIN body.declares :
            body.declares[i][1] = body.declares[j][1] => i = j

(* "Text content ... round-trips faithfully" (envelope.rs:37-40).  CDATA   *)
(* is dropped: this one does not hold, and no run checks it.               *)
TextPreserved ==
    outcome = "ok" /\ "repeated" \notin odd => body.items = ChildrenOf("Body")[1].items

-----------------------------------------------------------------------------
(* Why FragmentsAsXml holds.                                               *)

(* How deep inside the Envelope the document is, which itself is level 1.  *)
Level == Len(InEnvelope)

(* A part that is open is noted, and so is a child of it that is.          *)
Noted ==
    /\ Part # Absent => Part \in Parts /\ children[Part] # Absent
    /\ Part # Absent /\ Level > 2 => children[Part] # <<>>

(* The phase and the depth tell where in the document the code is.         *)
Position ==
    /\ depth \in Nat /\ phase \in {"envelope", "children", "header", "body", "child", "skip"}
    /\ phase = "envelope" => Level = 0
    /\ phase = "children" => Level = 1
    /\ phase = "header" => Part = "Header" /\ Level = depth + 2
    /\ phase = "body" => Part = "Body" /\ Level = 2
    /\ phase = "child" => Part = "Body" /\ Level = depth + 2 /\ depth >= 1
    /\ phase = "skip" => Part # "Header" /\ Level = depth + 1 /\ depth >= 1

(* The children of the Header have been kept, but for the last one while   *)
(* it is being copied.                                                     *)
HeadersKept ==
    LET c == ChildrenOf("Header")
    IN  /\ \A i \in DOMAIN headers : headers[i].items = c[i].items
        /\ IF phase = "header" /\ depth > 0
           THEN Len(c) = Len(headers) + 1 /\ buffer.items = c[Len(c)].items
           ELSE Len(c) = Len(headers)

(* The first child of the Body has been kept or is being copied; while the *)
(* rest of the Body is skipped, what grows is another child.               *)
BodyKept ==
    LET c == ChildrenOf("Body")
    IN  /\ phase = "child" => body = Absent /\ Len(c) = 1 /\ buffer.items = c[1].items
        /\ phase # "child" => (body = Absent <=> c = <<>>)
        /\ phase = "body" => c = <<>>
        /\ body # Absent => body.items = c[1].items
        /\ phase = "skip" /\ Part = "Body" => c # <<>> /\ (depth > 1 => Len(c) > 1)

Progress ==
    outcome = "reading" => Noted /\ Position /\ (Usual => HeadersKept /\ BodyKept)

-----------------------------------------------------------------------------
(* Why ScopeKept holds.                                                    *)

(* The Envelope is outermost, and the code has its declarations; those of  *)
(* the part it is in come before them.                                     *)
Nested ==
    /\ events \in Nat /\ (events = 0 => open = <<>>)
    /\ "wrapped" \notin odd =>
          /\ open # <<>> => open[1].local = "Envelope"
          /\ phase # "envelope" => open # <<>> /\ open[1].declares = envelopeNs
          /\ phase \in {"header", "body", "child"} =>
                Len(open) > 1 /\ inherited = open[2].declares \o envelopeNs

(* A fragment of the Header has its scope, also the one being copied.      *)
HeadersScoped ==
    LET c == ChildrenOf("Header")
    IN  /\ \A i \in DOMAIN headers : Declared(headers[i], c[i])
        /\ IF phase = "header" /\ depth > 0
           THEN Len(c) = Len(headers) + 1 /\ Declared(buffer, c[Len(c)])
           ELSE Len(c) = Len(headers)

(* So does the first child of the Body.                                    *)
BodyScoped ==
    LET c == ChildrenOf("Body")
    IN  /\ phase = "child" => body = Absent /\ Len(c) = 1 /\ Declared(buffer, c[1])
        /\ phase # "child" => (body = Absent <=> c = <<>>)
        /\ phase = "body" => c = <<>>
        /\ body # Absent => Declared(body, c[1])
        /\ phase = "skip" /\ Part = "Body" => c # <<>>

Scoped == outcome = "reading" => Nested /\ (Plain => HeadersScoped /\ BodyScoped)
=============================================================================
