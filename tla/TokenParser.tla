----------------------------- MODULE TokenParser -----------------------------
(***************************************************************************)
(* parse_username_token (src/wssec/username_token.rs): the loop over the   *)
(* events of an XML reader that picks the fields of a UsernameToken out of *)
(* a <wsse:Security> header, with one action per kind of event.            *)
(*                                                                         *)
(* The header is produced one event at a time; what is open and what the   *)
(* fields contain as XML has it are kept next to what the loop remembers   *)
(* (its flags and the prefixes it has ever seen).                          *)
(***************************************************************************)
EXTENDS Integers, Sequences, SequencesExt, FiniteSets

CONSTANTS
    Roots,         \* the start tags of the header itself
    Tags,          \* the start tags inside it: [prefix, local, declares, type],
                   \* declares the namespaces the tag binds, by prefix
    Chunks,        \* pieces of character data
    Wsse, Wsu,     \* the two namespaces of WS-Security
    Absent,        \* Option::None
    MaxEvents      \* bound of the model: start tags and character data

VARIABLES
    nsMap,         \* ns_map: the last binding of every prefix seen
    inToken,       \* in_username_token
    expecting,     \* the fields whose in_..._elem flag is set
    fields,        \* username, password, nonce, created
    passwordType,
    foundToken,
    outcome,       \* "reading", "ok" or the fault returned
    open,          \* the open elements, outermost first
    events,        \* how many events were bounded by MaxEvents
    content,       \* history: the character data of each field, or Absent
    odd            \* history: in what ways the header is unusual

parser == <<nsMap, inToken, expecting, fields, passwordType, foundToken, outcome>>
vars == <<parser, open, events, content, odd>>

(* In the order in which character data is offered to them.                *)
FieldOrder == <<"Username", "Password", "Nonce", "Created">>
Fields == ToSet(FieldOrder)
FieldNs(f) == IF f = "Created" THEN Wsu ELSE Wsse

-----------------------------------------------------------------------------
(* collect_ns_attrs.                                                       *)
Bind(map, declares) ==
    [p \in DOMAIN map \cup DOMAIN declares |->
        IF p \in DOMAIN declares THEN declares[p] ELSE map[p]]

(* resolve_ns; "" is the default namespace.                                *)
ResolveNs(map, prefix) == IF prefix \in DOMAIN map THEN map[prefix] ELSE Absent

(* The namespace XML gives a prefix below the elements of a stack.         *)
ScopedNs(stack, prefix) ==
    LET i == SelectLastInSeq(stack, LAMBDA e : prefix \in DOMAIN e.declares)
    IN  IF i = 0 THEN Absent ELSE stack[i].declares[prefix]

Element(tag) ==
    [local |-> tag.local, declares |-> tag.declares,
     ns |-> ScopedNs(Append(open, [declares |-> tag.declares]), tag.prefix)]

IsToken(e) == e.local = "UsernameToken" /\ e.ns = Wsse

(* The innermost element is a field of a token, as XML has it.             *)
AtField(stack) ==
    /\ Len(stack) = 3 /\ IsToken(stack[2])
    /\ stack[3].local \in Fields /\ stack[3].ns = FieldNs(stack[3].local)

(* What takes a header out of the form WS-Security gives it, with prefixes *)
(* that mean one thing: a prefix bound twice or used out of scope, markup  *)
(* within a field, a second token, a repeated or stray field.              *)
Unusual(tag) ==
    LET e == Element(tag)
    IN  \/ \E p \in DOMAIN tag.declares \cap DOMAIN nsMap : nsMap[p] # tag.declares[p]
        \/ e.ns = Absent
        \/ AtField(open)
        \/ e.local = "UsernameToken" /\ (foundToken \/ Len(open) # 1)
        \/ /\ e.local \in Fields /\ e.ns = FieldNs(e.local)
           /\ ~AtField(Append(open, e)) \/ content[e.local] # Absent

-----------------------------------------------------------------------------
Init ==
    /\ nsMap = <<>> /\ inToken = FALSE /\ foundToken = FALSE
    /\ expecting = {} /\ fields = [f \in Fields |-> Absent]
    /\ passwordType = "Digest" /\ outcome = "reading"
    /\ open = <<>> /\ events = 0
    /\ content = [f \in Fields |-> Absent] /\ odd = {}

(* The next start tag; the header is one element.                          *)
Begin(tag) ==
    /\ outcome = "reading" /\ events < MaxEvents
    /\ tag \in IF events = 0 THEN Roots ELSE Tags
    /\ events > 0 => open # <<>>
    /\ events' = events + 1
    /\ nsMap' = Bind(nsMap, tag.declares)
    /\ odd' = IF Unusual(tag) THEN odd \cup {"form"} ELSE odd

TypeAttribute(tag) ==
    IF tag.type = Absent THEN passwordType ELSE IF tag.type = "text" THEN "Text" ELSE "Digest"

StartTag(tag) ==
    LET ns == ResolveNs(nsMap', tag.prefix)
        token == tag.local = "UsernameToken" /\ ns = Wsse
        field == tag.local \in Fields /\ ns = FieldNs(tag.local) /\ inToken
    IN  /\ Begin(tag)
        /\ inToken' = (inToken \/ token)
        /\ foundToken' = (foundToken \/ token)
        /\ expecting' = IF field THEN expecting \cup {tag.local} ELSE expecting
        /\ passwordType' = IF field /\ tag.local = "Password" THEN TypeAttribute(tag) ELSE passwordType
        /\ open' = Append(open, Element(tag))
        /\ content' = IF AtField(open') THEN [content EXCEPT ![tag.local] = <<>>] ELSE content
        /\ UNCHANGED <<fields, outcome>>

(* An empty element is only asked whether it is a token.                   *)
EmptyTag(tag) ==
    LET e == Element(tag)
    IN  /\ Begin(tag)
        /\ foundToken' = (foundToken \/ (tag.local = "UsernameToken" /\ ResolveNs(nsMap', tag.prefix) = Wsse))
        /\ content' = IF AtField(Append(open, e)) THEN [content EXCEPT ![tag.local] = <<>>] ELSE content
        /\ UNCHANGED <<inToken, expecting, fields, passwordType, outcome, open>>

Data(c) ==
    /\ outcome = "reading" /\ events < MaxEvents /\ open # <<>>
    /\ events' = events + 1
    /\ content' = IF AtField(open) THEN [content EXCEPT ![Last(open).local] = Append(@, c)] ELSE content

(* Text goes to the first field expecting some, which then expects none.   *)
Text(c) ==
    LET i == SelectInSeq(FieldOrder, LAMBDA f : f \in expecting)
    IN  /\ Data(c)
        /\ fields' = IF i = 0 THEN fields ELSE [fields EXCEPT ![FieldOrder[i]] = c]
        /\ expecting' = IF i = 0 THEN expecting ELSE expecting \ {FieldOrder[i]}
        /\ odd' = IF AtField(open) /\ content[Last(open).local] # <<>> THEN odd \cup {"pieces"} ELSE odd
        /\ UNCHANGED <<nsMap, inToken, passwordType, foundToken, outcome, open>>

(* Character data in an event of another kind, an entity reference or a    *)
(* CDATA section, is passed over.                                          *)
PassedOver(c) ==
    /\ Data(c)
    /\ odd' = IF AtField(open) THEN odd \cup {"pieces"} ELSE odd
    /\ UNCHANGED <<parser, open>>

(* A flag is only lowered by text.                                         *)
MutantEndTag ==
    /\ outcome = "reading" /\ open # <<>>
    /\ open' = Front(open)
    /\ inToken' = (inToken /\ Last(open).local # "UsernameToken")
    /\ UNCHANGED <<nsMap, expecting, fields, passwordType, foundToken, outcome, events, content, odd>>

(* End tags are told apart by their local names.                           *)
EndTag ==
    /\ outcome = "reading" /\ open # <<>>
    /\ open' = Front(open)
    /\ inToken' = (inToken /\ Last(open).local # "UsernameToken")
    /\ expecting' = expecting \ {Last(open).local}
    /\ UNCHANGED <<nsMap, fields, passwordType, foundToken, outcome, events, content, odd>>

Return(value) ==
    /\ outcome' = value
    /\ UNCHANGED <<nsMap, inToken, expecting, fields, passwordType, foundToken, open, events, content, odd>>

Malformed == outcome = "reading" /\ Return("malformed")

Eof ==
    /\ outcome = "reading" /\ events > 0 /\ open = <<>>
    /\ Return(IF ~foundToken THEN "no token"
              ELSE IF fields["Username"] = Absent THEN "no username"
              ELSE IF fields["Password"] = Absent THEN "no password"
              ELSE "ok")

Next ==
    \/ \E tag \in Roots \cup Tags : StartTag(tag) \/ EmptyTag(tag)
    \/ \E c \in Chunks : Text(c) \/ PassedOver(c)
    \/ EndTag
    \/ Eof
    \/ Malformed

Spec == Init /\ [][Next]_vars

-----------------------------------------------------------------------------
(* Properties.                                                             *)

(* Character data is only expected inside an open element of the field's   *)
(* name inside an open UsernameToken, whatever else the header holds: the  *)
(* flags outlive neither, so that text elsewhere is never read.            *)
ExpectingInside ==
    /\ inToken => \E i \in DOMAIN open : open[i].local = "UsernameToken"
    /\ \A f \in expecting :
          \E i, j \in DOMAIN open :
              i < j /\ open[i].local = "UsernameToken" /\ open[j].local = f

(* The character data of a field as XML has it.                            *)
Value(f) == IF content[f] \in {Absent, <<>>} THEN Absent ELSE content[f]

(* A header of the usual form, whose fields are each one piece of text, is *)
(* read as XML has it, with the reader's prefixes that are never taken out *)
(* of scope and its flags in place of a stack.                             *)
ReadAsXml ==
    odd = {} =>
        \A f \in Fields :
            fields[f] = IF Value(f) = Absent THEN Absent ELSE Value(f)[1]

(* validate_username_token looks up the password of "the username from the *)
(* token" (username_token.rs:229): all of it.  A username with an entity   *)
(* reference in it is cut off there: this one does not hold, and no run    *)
(* checks it.                                                              *)
UsernameWhole ==
    outcome = "ok" /\ "form" \notin odd =>
        Value("Username") = <<fields["Username"]>>

-----------------------------------------------------------------------------
(* Why ReadAsXml holds of a header of the usual form.                      *)

(* The prefixes ever seen agree with those in scope.                       *)
PrefixesAgree ==
    \A i \in DOMAIN open : \A p \in DOMAIN open[i].declares :
        p \in DOMAIN nsMap /\ nsMap[p] = open[i].declares[p]

(* A token is a child of the header, and in_username_token is up inside it.*)
TokenPlaced ==
    /\ \A i \in DOMAIN open : open[i].local = "UsernameToken" => i = 2
    /\ inToken <=> Len(open) >= 2 /\ IsToken(open[2])

(* Nothing is open inside a field.                                         *)
FieldsInnermost ==
    Len(open) > 3 =>
        ~ (IsToken(open[2]) /\ open[3].local \in Fields /\ open[3].ns = FieldNs(open[3].local))

(* Text is expected in a field that has none yet, and nowhere else.        *)
Expected ==
    expecting = IF AtField(open) /\ content[Last(open).local] = <<>>
                THEN {Last(open).local} ELSE {}

Progress ==
    outcome = "reading" /\ odd = {} =>
        PrefixesAgree /\ TokenPlaced /\ FieldsInnermost /\ Expected
=============================================================================
