--------------------------- MODULE MCUsernameToken ---------------------------
(* The constants of UsernameToken for TLC: one known user, tokens of both   *)
(* types that differ in what can go wrong with them.                        *)
EXTENDS UsernameToken

CONSTANTS alice, mallory, secret, guess, n1, n2, bad, bytes1, bytes2

MCStoredPassword == [u \in {alice} |-> secret]
MCDecode == [n \in {n1, n2} |-> IF n = n1 THEN bytes1 ELSE bytes2]

Signed(nonce, created, password) ==
    [username |-> alice, type |-> "Digest", nonce |-> nonce, created |-> created,
     password |-> [nonce |-> MCDecode[nonce], created |-> created, password |-> password]]

Plain(username, nonce, created, password) ==
    [username |-> username, type |-> "Text", nonce |-> nonce, created |-> created,
     password |-> password]

MCTokens == {
    Signed(n1, 2, secret),
    Signed(n1, 2, guess),
    Signed(n2, 3, secret),
    Plain(alice, n2, 4, secret),
    Plain(alice, bad, 2, secret),
    Plain(alice, Absent, 4, secret),
    Plain(alice, n1, Garbled, secret),
    Plain(mallory, n1, 2, secret),
    [Signed(n1, 2, secret) EXCEPT !.nonce = Absent],
    [Signed(n1, 2, secret) EXCEPT !.nonce = bad],
    [Signed(n1, 2, secret) EXCEPT !.created = Absent],
    [Plain(alice, n1, 2, secret) EXCEPT !.username = Absent] }
=============================================================================
