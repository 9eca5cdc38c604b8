------------------------------ MODULE Answers ------------------------------
(***************************************************************************)
(* The documents the server answers with: src/fault.rs and                 *)
(* serialize_envelope of src/envelope.rs.  A fault is                      *)
(*   [code, reason, detail, detailXml]                                     *)
(* where the last two are sequences of at most one value (Option): a text  *)
(* is a sequence of tokens, raw XML a sequence of nodes.                   *)
(***************************************************************************)
EXTENDS XmlEvents

EnvelopeNs(version) ==
    IF version = "1.2" THEN "http://www.w3.org/2003/05/soap-envelope"
    ELSE "http://schemas.xmlsoap.org/soap/envelope/"

(* escape_text: a character of markup is written as a reference, which a   *)
(* reader reports apart from the text around it.                           *)
Markup == {"<", ">", "&", "\"", "'"}

EscapeText(value) ==
    LET Step(nodes, c) ==
            IF c \in Markup THEN Append(nodes, [kind |-> "ref", value |-> <<c>>])
            ELSE IF nodes # <<>> /\ Last(nodes).kind = "text"
            THEN [nodes EXCEPT ![Len(nodes)].value = Append(@, c)]
            ELSE Append(nodes, Text(<<c>>))
    IN  FoldLeft(Step, <<>>, value)

New(code, reason, detail) == [code |-> code, reason |-> reason, detail |-> detail, detailXml |-> <<>>]
WithDetailXml(fault, nodes) == [fault EXCEPT !.detailXml = <<nodes>>]
Sender(reason) == New("Sender", reason, <<>>)
Receiver(reason) == New("Receiver", reason, <<>>)

(* A code of 1.2 goes by its own name; SOAP 1.1 has no DataEncodingUnknown. *)
Soap11Code(code) ==
    CASE code = "Sender" -> "Client"
      [] code \in {"Receiver", "DataEncodingUnknown"} -> "Server"
      [] OTHER -> code

(* Detail of a 1.2 fault takes elements only: a text is not written.       *)
Fault12(f) ==
    LET Env(local, kids) == Elem("env", local, <<>>, NoAttrs, kids) IN
    Env("Fault",
        << Env("Code", <<Env("Value", <<Text(<<"env", ":", f.code>>)>>)>>),
           Env("Reason", <<Elem("env", "Text", <<>>, <<"xml", "lang">> :> <<"en">>, EscapeText(f.reason))>>) >>
        \o (IF f.detailXml = <<>> THEN <<>> ELSE <<Env("Detail", f.detailXml[1])>>))

Fault11(f) ==
    LET Plain(local, kids) == Elem("", local, <<>>, NoAttrs, kids) IN
    Elem("SOAP-ENV", "Fault", <<>>, NoAttrs,
        << Plain("faultcode", <<Text(<<"SOAP-ENV", ":", Soap11Code(f.code)>>)>>),
           Plain("faultstring", EscapeText(f.reason)) >>
        \o (IF f.detailXml # <<>> THEN <<Plain("detail", f.detailXml[1])>>
            ELSE IF f.detail # <<>> THEN <<Plain("detail", EscapeText(f.detail[1]))>>
            ELSE <<>>))

Enveloped(prefix, version, kids) ==
    Elem(prefix, "Envelope", prefix :> EnvelopeNs(version), NoAttrs,
         <<Elem(prefix, "Body", <<>>, NoAttrs, kids)>>)

ToXmlBytes(f, version) ==
    IF version = "1.2" THEN Enveloped("env", version, <<Fault12(f)>>)
    ELSE Enveloped("SOAP-ENV", version, <<Fault11(f)>>)

SerializeEnvelope(body, version) == Enveloped("env", version, <<body>>)

=============================================================================
