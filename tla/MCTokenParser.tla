---------------------------- MODULE MCTokenParser ----------------------------
(* Start tags for TokenParser: those of a usual header, and those that make *)
(* it unusual.                                                              *)
EXTENDS TokenParser

CONSTANTS other

Tag(prefix, local, declares) ==
    [prefix |-> prefix, local |-> local, declares |-> declares, type |-> Absent]

Binds(prefix, ns) == [p \in {prefix} |-> ns]
NoBinding == <<>>

(* The header itself binds both prefixes, or the default namespace too.    *)
MCRoots == {
    Tag("w", "Security", [p \in {"w", "u"} |-> IF p = "w" THEN Wsse ELSE Wsu]),
    Tag("", "Security", [p \in {"", "u"} |-> IF p = "" THEN Wsse ELSE Wsu]) }

MCTags == {
    Tag("w", "UsernameToken", NoBinding),
    Tag("", "UsernameToken", Binds("", Wsse)),
    Tag("w", "Username", NoBinding),
    Tag("", "Username", NoBinding),
    [Tag("w", "Password", NoBinding) EXCEPT !.type = "text"],
    Tag("q", "Username", Binds("q", other)),
    Tag("u", "Created", NoBinding),
    Tag("u", "Timestamp", Binds("u", other)) }
=============================================================================
