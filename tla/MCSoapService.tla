---------------------------- MODULE MCSoapService ----------------------------
(* SoapService for TLC: one service with a protected operation X, whose     *)
(* body must have a child c, and an operation Y that bypasses               *)
(* authentication; messages that differ in where the pipeline stops them.   *)
EXTENDS SoapService

CONSTANTS alice, secret, guess, n1, bytes1

MCStoredPassword == [u \in {alice} |-> secret]
MCDecode == [n \in {n1} |-> bytes1]
MCNonces == {n1}

Signed(created, password) ==
    [username |-> alice, type |-> "Digest", nonce |-> n1, created |-> created,
     password |-> [nonce |-> bytes1, created |-> created, password |-> password]]

Plain == [username |-> alice, type |-> "Text", nonce |-> Absent, created |-> 2, password |-> secret]

MCTokens == {Signed(2, secret), Signed(2, guess), Plain}

Op(name, action) == [name |-> name, action |-> action, style |-> "document", rpcNs |-> Absent]
X == <<"tns", "X">>
Y == <<"tns", "Y">>

MCTable ==
    LET entry(h, auth, input, type) ==
          [handler |-> h, authRequired |-> auth, input |-> input, validation |-> type]
    IN  Dispatch!Enter(Dispatch!Enter(Dispatch!EmptyTable, Op("X", "actX"), entry("X", TRUE, X, "typeX")),
                       Op("Y", NoAction), entry("Y", FALSE, Y, Absent))

(* Two routes with the same operations; they share the nonce cache.         *)
MCTables == [p \in {"/a", "/b"} |-> MCTable]
MCRegistry == [t \in {"typeX"} |-> {"c"}]

Message(body, security) ==
    [path |-> "/a", contentType |-> "soap12", envelope |-> "soap11", body |-> body,
     action |-> Absent, security |-> security, children |-> {"c"}]

(* The messages that meet at the cache.                                    *)
Contending == {
    Message(X, Signed(2, secret)),
    [Message(X, Signed(2, secret)) EXCEPT !.path = "/b", !.children = {}],
    Message(X, Signed(2, guess)),
    Message(X, Plain),
    Message(Y, Absent) }

(* The messages that are refused before it, and one routed by its action.  *)
Refused == {
    [Message(X, Absent) EXCEPT !.contentType = "other"],
    [Message(X, Absent) EXCEPT !.envelope = "unreadable"],
    [Message(X, Absent) EXCEPT !.body = Absent],
    [Message(X, Absent) EXCEPT !.body = <<"tns", "Z">>],
    Message(X, Absent),
    [Message(X, Signed(2, secret)) EXCEPT !.body = <<"tns", "Z">>, !.action = "actX"] }

MCMessages == Contending \cup Refused
=============================================================================
