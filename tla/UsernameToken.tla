---------------------------- MODULE UsernameToken ----------------------------
(***************************************************************************)
(* validate_username_token (src/wssec/username_token.rs) and the freshness *)
(* check it calls (src/wssec/timestamp.rs), on top of the nonce cache of   *)
(* module NonceCache.                                                      *)
(*                                                                         *)
(* The function takes the cache by exclusive reference, so one call is one *)
(* action here; module SoapService shows that the server's mutex indeed    *)
(* makes concurrent requests behave like this sequential module.           *)
(*                                                                         *)
(* Two clocks tick: the monotonic one (Instant::now) drives the cache, the *)
(* wall clock (Utc::now) drives the freshness check.  Their difference,    *)
(* skew, changes when the wall clock is adjusted.                          *)
(***************************************************************************)
EXTENDS Integers, FiniteSets

CONSTANTS
    Tokens,      \* the <wsse:UsernameToken> elements clients send
    StoredPassword, \* the .auth closure: a function on the known users
    Decode,      \* base64: a function from the decodable nonces to bytes
    Absent,      \* Option::None
    Garbled,     \* a Created text that is not RFC 3339
    Tolerance,   \* timestamp_tolerance_secs, in ticks
    MaxSkew,     \* how far the wall clock strays from the monotonic one
    Nonces, HalfWindow, MaxEntries, MaxTime    \* see NonceCache

ValidationConstants ==
    /\ \A t \in Tokens : t.nonce \in Nonces \cup {Absent}
    /\ \A t \in Tokens : t.created \in Int \cup {Absent, Garbled}
    /\ Absent \notin Nonces /\ Absent \notin Int /\ Garbled \notin Int
    /\ Tolerance \in Int
    /\ MaxSkew \in Nat
    /\ HalfWindow \in Nat \ {0} /\ MaxEntries \in Nat /\ MaxTime \in Nat

ASSUME TokenAssumption == ValidationConstants

VARIABLES
    clock, cache, accepted, acceptedAt, acceptedAfter,  \* see NonceCache
    skew,        \* wall clock minus monotonic clock
    verdict,     \* what the last call returned
    admitted     \* history: the tokens accepted so far

cacheVars == <<clock, cache, accepted, acceptedAt, acceptedAfter>>
vars == <<clock, cache, accepted, acceptedAt, acceptedAfter, skew, verdict, admitted>>

Cache == INSTANCE NonceCache

WallClock == clock + skew

Verdicts == {"none", "ok", "authentication failed", "missing nonce", "missing created",
             "undecodable nonce", "invalid timestamp", "expired", "in the future", "replay",
             "unreadable token"}

TypeOK ==
    /\ Cache!TypeOK
    /\ skew \in -MaxSkew .. MaxSkew
    /\ verdict \in Verdicts
    /\ admitted \subseteq Tokens

-----------------------------------------------------------------------------
(* The checks made before the cache is consulted, in their order.  "ok"    *)
(* stands for passing.                                                     *)

(* The freshness bound applied to the age of old tokens only.              *)
MutantFreshness(now, created) ==
    IF now - created > Tolerance THEN "expired" ELSE "ok"

(* check_freshness: a token exactly Tolerance old, or exactly Tolerance    *)
(* ahead of the wall clock, is fresh.                                      *)
Freshness(now, created) ==
    IF now - created > Tolerance THEN "expired"
    ELSE IF now - created < -Tolerance THEN "in the future"
    ELSE "ok"

(* parse_created followed by check_freshness.                              *)
CreatedFresh(now, created) ==
    IF created = Garbled THEN "invalid timestamp" ELSE Freshness(now, created)

(* compute_digest.  SHA-1 is taken to be injective on what it is given: a  *)
(* digest is the triple that was hashed.                                   *)
ComputeDigest(nonce, created, password) ==
    [nonce |-> Decode[nonce], created |-> created, password |-> password]

DigestCheck(token, stored, now) ==
    IF token.nonce = Absent THEN "missing nonce"
    ELSE IF token.created = Absent THEN "missing created"
    ELSE IF token.nonce \notin DOMAIN Decode THEN "undecodable nonce"
    ELSE IF token.password # ComputeDigest(token.nonce, token.created, stored)
         THEN "authentication failed"
    ELSE CreatedFresh(now, token.created)

TextCheck(token, stored, now) ==
    IF token.created = Absent THEN "missing created"
    ELSE IF CreatedFresh(now, token.created) # "ok" THEN CreatedFresh(now, token.created)
    ELSE IF token.password # stored THEN "authentication failed"
    ELSE "ok"

(* An unknown user is told apart.                                          *)
MutantCredentials(token, now) ==
    IF token.username \notin DOMAIN StoredPassword THEN "unknown user"
    ELSE IF token.type = "Digest"
         THEN DigestCheck(token, StoredPassword[token.username], now)
         ELSE TextCheck(token, StoredPassword[token.username], now)

(* Everything validate_username_token does before the replay check.        *)
Credentials(token, now) ==
    IF token.username = Absent \/ token.password = Absent THEN "unreadable token"
    ELSE IF token.username \notin DOMAIN StoredPassword THEN "authentication failed"
    ELSE IF token.type = "Digest"
         THEN DigestCheck(token, StoredPassword[token.username], now)
         ELSE TextCheck(token, StoredPassword[token.username], now)

-----------------------------------------------------------------------------
Init ==
    /\ Cache!Init
    /\ skew = 0
    /\ verdict = "none"
    /\ admitted = {}

Tick == Cache!Tick /\ UNCHANGED <<skew, verdict, admitted>>

(* The operator or NTP sets the wall clock.                                *)
AdjustWallClock ==
    /\ skew' \in -MaxSkew .. MaxSkew
    /\ UNCHANGED <<cacheVars, verdict, admitted>>

(* The nonce of a token is entered in the cache whatever its credentials.  *)
MutantRefuse(token) ==
    /\ Credentials(token, WallClock) # "ok"
    /\ verdict' = Credentials(token, WallClock)
    /\ IF token.nonce = Absent THEN UNCHANGED cacheVars ELSE Cache!CheckAndInsert(token.nonce)
    /\ UNCHANGED <<skew, admitted>>

(* The credentials do not hold: the cache is not even rotated.             *)
Refuse(token) ==
    /\ Credentials(token, WallClock) # "ok"
    /\ verdict' = Credentials(token, WallClock)
    /\ UNCHANGED <<cacheVars, skew, admitted>>

(* The credentials hold, but the nonce is remembered.                      *)
RefuseReplay(token) ==
    /\ Credentials(token, WallClock) = "ok"
    /\ token.nonce # Absent
    /\ Cache!Reject(token.nonce)
    /\ verdict' = "replay"
    /\ UNCHANGED <<skew, admitted>>

(* The username is returned.  A text token without a nonce bypasses the    *)
(* cache.                                                                  *)
Admit(token) ==
    /\ Credentials(token, WallClock) = "ok"
    /\ \/ token.nonce # Absent /\ Cache!Accept(token.nonce)
       \/ token.nonce = Absent /\ UNCHANGED cacheVars
    /\ verdict' = "ok"
    /\ admitted' = admitted \cup {token}
    /\ UNCHANGED skew

ValidateUsernameToken(token) == Refuse(token) \/ RefuseReplay(token) \/ Admit(token)

Next ==
    \/ Tick
    \/ AdjustWallClock
    \/ \E token \in Tokens : ValidateUsernameToken(token)

Spec == Init /\ [][Next]_vars

-----------------------------------------------------------------------------
(* Properties.                                                             *)

(* The nonces outlive the tokens that carry them.                          *)
WindowCoversTolerance == HalfWindow > 2 * (Tolerance + MaxSkew)

(* A token that carries a nonce is admitted at most once -- not just once  *)
(* per window: by the time the cache forgets the nonce the token is no     *)
(* longer fresh, provided the half window covers the freshness interval    *)
(* and the cache was not flooded.  It relates check_freshness, the         *)
(* rotation of the cache and the two clocks.                               *)
AdmittedOnce ==
    [][WindowCoversTolerance =>
        \A t \in Tokens :
            Admit(t) /\ t \in admitted /\ t.nonce # Absent
            => Cardinality(acceptedAfter[t.nonce]) >= MaxEntries]_vars

(* A replay fault is always the doing of a token that was itself admitted, *)
(* with the same nonce, less than two half windows ago: refused tokens     *)
(* never burn a nonce, and an idle server never refuses a fresh one.       *)
ReplayJustified ==
    [][\A t \in Tokens :
        RefuseReplay(t) =>
            /\ \E u \in admitted : u.nonce = t.nonce
            /\ clock - acceptedAt[t.nonce] < 2 * HalfWindow]_vars

-----------------------------------------------------------------------------
(* Why AdmittedOnce holds: the nonce of an admitted token was accepted no  *)
(* earlier than the token's Created allows, and every accepted nonce came  *)
(* with an admitted token.                                                 *)
AdmissionsDated ==
    \A t \in admitted : t.nonce # Absent =>
        /\ t.nonce \in accepted
        /\ t.created \in Int
        /\ t.created <= acceptedAt[t.nonce] + MaxSkew + Tolerance

AcceptedAdmitted == \A n \in accepted : \E t \in admitted : t.nonce = n

IInv == TypeOK /\ Cache!IInv /\ AdmissionsDated /\ AcceptedAdmitted
=============================================================================
