------------------------ MODULE UsernameTokenProofs ------------------------
(***************************************************************************)
(* Proofs of the safety properties of UsernameToken, for every set of      *)
(* tokens, every half window and capacity of the cache, every tolerance    *)
(* and every bound on the skew of the clocks.  What a call does to the     *)
(* cache is taken from NonceCacheProofs.                                   *)
(***************************************************************************)
EXTENDS UsernameToken, TLAPS

(* A call of the cache is one step here: none is ever in progress.          *)
CacheProofs == INSTANCE NonceCacheProofs WITH argument <- Absent, before <- cache

(* What NonceCacheProofs assumes of the constants.                         *)
LEMMA CacheAssumed == CacheProofs!CacheAssumption
  BY TokenAssumption DEF ValidationConstants, CacheProofs!CacheAssumption

(* Every instance of FiniteSets speaks of the same finite sets.            *)
LEMMA SameFiniteSets ==
    ASSUME NEW S
    PROVE  /\ CacheProofs!IsFiniteSet(S) <=> IsFiniteSet(S)
           /\ Cache!IsFiniteSet(S) <=> IsFiniteSet(S)
           /\ CacheProofs!Cardinality(S) = Cardinality(S)
           /\ Cache!Cardinality(S) = Cardinality(S)
  BY DEF Cache!IsFiniteSet, CacheProofs!IsFiniteSet, IsFiniteSet,
         Cache!Cardinality, CacheProofs!Cardinality, Cardinality

(* The actions of the cache are those that NonceCacheProofs is about.      *)
LEMMA SameActions ==
    ASSUME NEW n
    PROVE  /\ Cache!Init <=> CacheProofs!Init
           /\ Cache!Tick <=> CacheProofs!Tick
           /\ Cache!Accept(n) <=> CacheProofs!Accept(n)
           /\ Cache!Reject(n) <=> CacheProofs!Reject(n)
  <1>1. Cache!Init <=> CacheProofs!Init
    BY DEF Cache!Init, CacheProofs!Init, Cache!NewCache, CacheProofs!NewCache
  <1>2. Cache!Tick <=> CacheProofs!Tick
    BY DEF Cache!Tick, CacheProofs!Tick, Cache!history, CacheProofs!history
  <1>3. \A c, now : Cache!RotateIfNeeded(c, now) = CacheProofs!RotateIfNeeded(c, now)
    BY DEF Cache!RotateIfNeeded, CacheProofs!RotateIfNeeded, Cache!RotateTo,
           CacheProofs!RotateTo, Cache!NewCache, CacheProofs!NewCache
  <1>4. \A c : Cache!Remembered(c) = CacheProofs!Remembered(c)
    BY DEF Cache!Remembered, CacheProofs!Remembered
  <1>5. \A c, now : Cache!Insert(Cache!MakeRoom(c, now), n)
                    = CacheProofs!Insert(CacheProofs!MakeRoom(c, now), n)
    BY SameFiniteSets
       DEF Cache!Insert, CacheProofs!Insert, Cache!MakeRoom, CacheProofs!MakeRoom,
           Cache!RotateTo, CacheProofs!RotateTo, Cache!Full, CacheProofs!Full
  <1>6. Cache!Reject(n) <=> CacheProofs!Reject(n)
    BY <1>3, <1>4 DEF Cache!Reject, CacheProofs!Reject, Cache!history, CacheProofs!history
  <1>7. Cache!RecordAcceptance(n) <=> CacheProofs!RecordAcceptance(n)
    BY DEF Cache!RecordAcceptance, CacheProofs!RecordAcceptance
  <1>8. Cache!Accept(n) <=> CacheProofs!Accept(n)
    BY <1>3, <1>4, <1>5, <1>7 DEF Cache!Accept, CacheProofs!Accept
  <1> QED BY <1>1, <1>2, <1>6, <1>8

(* So is its invariant.                                                    *)
LEMMA SameInvariant == Cache!IInv <=> CacheProofs!IInv
  <1>1. Cache!TypeOK <=> CacheProofs!TypeOK
    BY DEF Cache!TypeOK, CacheProofs!TypeOK, Cache!Caches, CacheProofs!Caches
  <1>2. Cache!HistorySound <=> CacheProofs!HistorySound
    BY SameFiniteSets DEF Cache!HistorySound, CacheProofs!HistorySound
  <1>3. Cache!BucketTimes(cache) <=> CacheProofs!BucketTimes(cache)
    BY DEF Cache!BucketTimes, CacheProofs!BucketTimes
  <1>4. Cache!BucketOrder(cache) <=> CacheProofs!BucketOrder(cache)
    BY DEF Cache!BucketOrder, CacheProofs!BucketOrder, Cache!Remembered, CacheProofs!Remembered
  <1>5. Cache!ForgottenReacceptable(cache) <=> CacheProofs!ForgottenReacceptable(cache)
    BY SameFiniteSets
       DEF Cache!ForgottenReacceptable, CacheProofs!ForgottenReacceptable, Cache!Reacceptable,
           CacheProofs!Reacceptable, Cache!Remembered, CacheProofs!Remembered
  <1>6. /\ Cache!BucketsFinite(cache) <=> CacheProofs!BucketsFinite(cache)
        /\ Cache!CapacityRespected(cache) <=> CacheProofs!CapacityRespected(cache)
    BY SameFiniteSets DEF Cache!BucketsFinite, CacheProofs!BucketsFinite,
                          Cache!CapacityRespected, CacheProofs!CapacityRespected
  <1> QED BY <1>1, <1>2, <1>3, <1>4, <1>5, <1>6
          DEF Cache!IInv, CacheProofs!IInv, Cache!Sound, CacheProofs!Sound,
              Cache!Caches, CacheProofs!Caches

(* Also after a step.                                                      *)
LEMMA SameInvariantPrimed == Cache!IInv' <=> CacheProofs!IInv'
  BY SameInvariant, PTL

(* A token whose credentials hold is fresh by the wall clock.              *)
LEMMA CredentialsFresh ==
    ASSUME NEW t \in Tokens, TypeOK, Credentials(t, WallClock) = "ok"
    PROVE  /\ t.created \in Int
           /\ WallClock - t.created <= Tolerance
           /\ t.created - WallClock <= Tolerance
  <1>1. t.created \in Int \cup {Absent, Garbled}
    BY TokenAssumption DEF ValidationConstants
  <1>2. CreatedFresh(WallClock, t.created) = "ok" /\ t.created # Absent
    BY DEF Credentials, DigestCheck, TextCheck
  <1>3. t.created \in Int /\ Freshness(WallClock, t.created) = "ok"
    BY <1>1, <1>2 DEF CreatedFresh
  <1>4. WallClock \in Int /\ Tolerance \in Int
    BY TokenAssumption DEF ValidationConstants, TypeOK, Cache!TypeOK, WallClock
  <1> QED BY <1>3, <1>4 DEF Freshness

(* Every outcome of the checks is a verdict.                               *)
LEMMA CredentialsVerdict == ASSUME NEW t, NEW now PROVE Credentials(t, now) \in Verdicts
  BY DEF Credentials, DigestCheck, TextCheck, CreatedFresh, Freshness, Verdicts

(* A new server, with an empty cache and nobody admitted, is sound.        *)
LEMMA InitSound == Init => IInv
  <1> SUFFICES ASSUME Init PROVE IInv
    OBVIOUS
  <1>1. Cache!IInv
    BY CacheAssumed, CacheProofs!InitSound, SameActions, SameInvariant DEF Init
  <1>2. TypeOK
    BY <1>1, TokenAssumption DEF ValidationConstants, Init, TypeOK, Verdicts, Cache!IInv
  <1>3. AdmissionsDated /\ AcceptedAdmitted
    BY DEF Init, Cache!Init, AdmissionsDated, AcceptedAdmitted
  <1> QED BY <1>1, <1>2, <1>3 DEF IInv

(* Steps that neither accept a nonce nor admit a token.                    *)
LEMMA QuietSound ==
    ASSUME IInv, Cache!IInv', skew' \in -MaxSkew .. MaxSkew, verdict' \in Verdicts,
           UNCHANGED <<accepted, acceptedAt, admitted>>
    PROVE  IInv'
  <1>1. TypeOK'
    BY DEF IInv, TypeOK, Cache!IInv
  <1>2. AdmissionsDated' /\ AcceptedAdmitted'
    BY DEF IInv, AdmissionsDated, AcceptedAdmitted
  <1> QED BY <1>1, <1>2 DEF IInv

(* A call in the middle of which other code runs has a cache in hand.      *)
LEMMA RotatedTyped == IInv => Cache!RotateIfNeeded(cache, clock) \in Cache!Caches
  <1>1. CacheProofs!IInv => CacheProofs!Sound(CacheProofs!RotateIfNeeded(cache, clock))
    BY CacheAssumed, CacheProofs!RotationSound DEF CacheProofs!IInv
  <1>2. Cache!RotateIfNeeded(cache, clock) = CacheProofs!RotateIfNeeded(cache, clock)
    BY DEF Cache!RotateIfNeeded, CacheProofs!RotateIfNeeded, Cache!RotateTo,
           CacheProofs!RotateTo, Cache!NewCache, CacheProofs!NewCache
  <1> QED BY <1>1, <1>2, SameInvariant DEF IInv, CacheProofs!Sound, Cache!Caches, CacheProofs!Caches

(* The passage of time keeps the invariant.                                *)
LEMMA TickSound == IInv /\ Tick => IInv'
  <1> SUFFICES ASSUME IInv, Tick PROVE IInv'
    OBVIOUS
  <1>1. Cache!IInv'
    BY CacheAssumed, CacheProofs!TickSound, SameActions, SameInvariant,
       SameInvariantPrimed DEF IInv, Tick
  <1>2. UNCHANGED <<accepted, acceptedAt, skew, verdict, admitted>>
    BY DEF Tick, Cache!Tick, Cache!history
  <1> QED BY <1>1, <1>2, QuietSound DEF IInv, TypeOK

(* So does setting the wall clock.                                         *)
LEMMA AdjustSound == IInv /\ AdjustWallClock => IInv'
  <1> SUFFICES ASSUME IInv, AdjustWallClock PROVE IInv'
    OBVIOUS
  <1>1. UNCHANGED <<clock, cache, accepted, acceptedAt, acceptedAfter, verdict, admitted>>
    BY DEF AdjustWallClock, cacheVars
  <1>2. Cache!IInv'
    BY <1>1 DEF IInv, Cache!IInv, Cache!TypeOK, Cache!HistorySound, Cache!Sound,
                Cache!BucketTimes, Cache!BucketOrder, Cache!Remembered,
                Cache!ForgottenReacceptable, Cache!Reacceptable, Cache!BucketsFinite,
                Cache!CapacityRespected
  <1> QED BY <1>1, <1>2, QuietSound DEF AdjustWallClock, IInv, TypeOK

(* A step that leaves the cache alone leaves it sound.                     *)
LEMMA CacheUntouched == ASSUME Cache!IInv, UNCHANGED cacheVars PROVE Cache!IInv'
  BY DEF cacheVars, Cache!IInv, Cache!TypeOK, Cache!HistorySound, Cache!Sound,
         Cache!BucketTimes, Cache!BucketOrder, Cache!Remembered,
         Cache!ForgottenReacceptable, Cache!Reacceptable, Cache!BucketsFinite,
         Cache!CapacityRespected

(* A token refused for its credentials leaves everything as it is.         *)
LEMMA RefuseSound == ASSUME NEW t \in Tokens PROVE IInv /\ Refuse(t) => IInv'
  <1> SUFFICES ASSUME IInv, Refuse(t) PROVE IInv'
    OBVIOUS
  <1>1. UNCHANGED <<cacheVars, skew, admitted>> /\ verdict' \in Verdicts
    BY CredentialsVerdict DEF Refuse
  <1>2. Cache!IInv'
    BY <1>1, CacheUntouched DEF IInv
  <1> QED BY <1>1, <1>2, QuietSound DEF cacheVars, IInv, TypeOK

(* A replay only rotates the cache.                                        *)
LEMMA RefuseReplaySound == ASSUME NEW t \in Tokens PROVE IInv /\ RefuseReplay(t) => IInv'
  <1> SUFFICES ASSUME IInv, RefuseReplay(t) PROVE IInv'
    OBVIOUS
  <1>1. t.nonce \in Nonces /\ Cache!Reject(t.nonce)
    BY TokenAssumption DEF ValidationConstants, RefuseReplay
  <1>2. Cache!IInv'
    BY <1>1, CacheAssumed, CacheProofs!RejectSound, SameActions, SameInvariant,
       SameInvariantPrimed DEF IInv
  <1>3. UNCHANGED <<accepted, acceptedAt, skew, admitted>> /\ verdict' \in Verdicts
    BY <1>1 DEF RefuseReplay, Cache!Reject, Cache!history, Verdicts
  <1> QED BY <1>2, <1>3, QuietSound DEF IInv, TypeOK

(* An admitted token leaves its nonce behind, if it has one.               *)
LEMMA AdmitSound == ASSUME NEW t \in Tokens PROVE IInv /\ Admit(t) => IInv'
  <1> SUFFICES ASSUME IInv, Admit(t) PROVE IInv'
    OBVIOUS
  <1>0. /\ TypeOK /\ Cache!IInv /\ AdmissionsDated /\ AcceptedAdmitted
        /\ admitted' = admitted \cup {t} /\ skew' = skew /\ verdict' = "ok"
        /\ clock \in Nat /\ skew \in Int /\ skew <= MaxSkew
        /\ acceptedAt \in [Nonces -> Nat] /\ Tolerance \in Int /\ MaxSkew \in Nat
        /\ accepted \subseteq Nonces /\ admitted \subseteq Tokens
    BY TokenAssumption DEF ValidationConstants, IInv, Admit, TypeOK, Cache!TypeOK
  <1>1. t.created \in Int /\ t.created - WallClock <= Tolerance
    BY <1>0, CredentialsFresh DEF Admit
  <1>2. CASE t.nonce = Absent
    <2>1. UNCHANGED cacheVars
      BY <1>2 DEF Admit
    <2>2. Cache!IInv'
      BY <1>0, <2>1, CacheUntouched
    <2>3. TypeOK'
      BY <1>0, <2>2 DEF TypeOK, Cache!IInv, Verdicts
    <2>4. AdmissionsDated' /\ AcceptedAdmitted'
      BY <1>0, <1>2, <2>1 DEF AdmissionsDated, AcceptedAdmitted, cacheVars
    <2> QED BY <2>2, <2>3, <2>4 DEF IInv
  <1>3. CASE t.nonce # Absent
    <2> DEFINE n == t.nonce
    <2>1. n \in Nonces /\ Cache!Accept(n)
      BY <1>3, TokenAssumption DEF ValidationConstants, Admit
    <2>2. Cache!IInv'
      BY <1>0, <2>1, CacheAssumed, CacheProofs!AcceptSound, SameActions, SameInvariant,
         SameInvariantPrimed
    <2>3. TypeOK'
      BY <1>0, <2>2 DEF TypeOK, Cache!IInv, Verdicts
    <2>4. accepted' = accepted \cup {n} /\ acceptedAt' = [acceptedAt EXCEPT ![n] = clock]
      BY <2>1 DEF Cache!Accept, Cache!RecordAcceptance
    <2>5. \A k \in Nonces : acceptedAt[k] <= acceptedAt'[k] /\ acceptedAt'[k] \in Nat
      BY <1>0, <2>1, <2>4 DEF Cache!IInv, Cache!HistorySound
    <2>6. acceptedAt'[n] = clock
      BY <1>0, <2>1, <2>4
    <2>7. AdmissionsDated'
      <3>1. SUFFICES ASSUME NEW u \in admitted', u.nonce # Absent
                     PROVE  /\ u.nonce \in accepted'
                            /\ u.created \in Int
                            /\ u.created <= acceptedAt'[u.nonce] + MaxSkew + Tolerance
        BY DEF AdmissionsDated
      <3>2. CASE u = t
        BY <1>0, <1>1, <2>4, <2>6, <3>2 DEF WallClock
      <3>3. CASE u \in admitted
        <4>1. /\ u.nonce \in accepted /\ u.nonce \in Nonces /\ u.created \in Int
              /\ u.created <= acceptedAt[u.nonce] + MaxSkew + Tolerance
          BY <1>0, <3>1, <3>3 DEF AdmissionsDated
        <4>2. acceptedAt[u.nonce] \in Nat /\ acceptedAt'[u.nonce] \in Nat
              /\ acceptedAt[u.nonce] <= acceptedAt'[u.nonce]
          BY <1>0, <2>5, <4>1
        <4> QED BY <1>0, <2>4, <4>1, <4>2
      <3> QED BY <1>0, <3>1, <3>2, <3>3
    <2>8. AcceptedAdmitted'
      BY <1>0, <2>4 DEF AcceptedAdmitted
    <2> QED BY <2>2, <2>3, <2>7, <2>8 DEF IInv
  <1> QED BY <1>2, <1>3

(* Every step keeps the invariant.                                         *)
LEMMA StepSound == IInv /\ [Next]_vars => IInv'
  <1> SUFFICES ASSUME IInv, [Next]_vars PROVE IInv'
    OBVIOUS
  <1>1. CASE Tick
    BY <1>1, TickSound
  <1>2. CASE AdjustWallClock
    BY <1>2, AdjustSound
  <1>3. ASSUME NEW t \in Tokens, ValidateUsernameToken(t) PROVE IInv'
    BY <1>3, RefuseSound, RefuseReplaySound, AdmitSound DEF ValidateUsernameToken
  <1>4. CASE UNCHANGED vars
    <2>1. Cache!IInv'
      BY <1>4, CacheUntouched DEF IInv, vars, cacheVars
    <2> QED BY <1>4, <2>1, QuietSound DEF vars, IInv, TypeOK
  <1> QED BY <1>1, <1>2, <1>3, <1>4 DEF Next

(* The invariant of token validation holds throughout every behaviour: the *)
(* cache stays sound under validate_username_token, and an admitted token  *)
(* has left its nonce and the time of it there.                            *)
THEOREM ValidationInvariant == Spec => []IInv
  BY InitSound, StepSound, PTL DEF Spec

(* Every variable keeps its type; every outcome is one of the verdicts.    *)
THEOREM TypeCorrect == Spec => []TypeOK
  <1>1. IInv => TypeOK
    BY DEF IInv
  <1> QED BY ValidationInvariant, <1>1, PTL

(* A token that is admitted again has been followed by a bucketful of      *)
(* other nonces.                                                           *)
LEMMA ReadmittedAfterFlood ==
    ASSUME NEW t \in Tokens,
           IInv, WindowCoversTolerance, Admit(t), t \in admitted, t.nonce # Absent
    PROVE  Cardinality(acceptedAfter[t.nonce]) >= MaxEntries
  <1> DEFINE n == t.nonce
  <1>1. n \in Nonces /\ Cache!Accept(n)
    BY TokenAssumption DEF Admit, ValidationConstants
  <1>2. CacheProofs!Reacceptable(n)
    BY <1>1, CacheAssumed, CacheProofs!AcceptedReacceptable, SameActions, SameInvariant DEF IInv
  <1>3. /\ t.created \in Int /\ n \in accepted
        /\ t.created <= acceptedAt[n] + MaxSkew + Tolerance
    BY DEF IInv, AdmissionsDated
  <1>4. WallClock - t.created <= Tolerance
    BY CredentialsFresh DEF IInv, Admit
  <1>5. /\ clock \in Nat /\ acceptedAt[n] \in Nat /\ skew \in Int /\ -MaxSkew <= skew
        /\ Tolerance \in Int /\ MaxSkew \in Nat /\ HalfWindow \in Nat
    BY <1>1, TokenAssumption DEF IInv, TypeOK, Cache!TypeOK, ValidationConstants
  <1>6. clock - acceptedAt[n] < HalfWindow
    BY <1>3, <1>4, <1>5 DEF WallClock, WindowCoversTolerance
  <1> QED BY <1>2, <1>3, <1>5, <1>6, SameFiniteSets DEF CacheProofs!Reacceptable

(* Where the half window covers the freshness interval, a token with a     *)
(* nonce is admitted once and for all, unless a bucketful of other nonces  *)
(* came after it: whatever the clocks do within their skew.                *)
THEOREM TokensAdmittedOnce == Spec => AdmittedOnce
  <1>1. IInv /\ [Next]_vars =>
          [WindowCoversTolerance =>
             \A t \in Tokens : Admit(t) /\ t \in admitted /\ t.nonce # Absent
                               => Cardinality(acceptedAfter[t.nonce]) >= MaxEntries]_vars
    BY ReadmittedAfterFlood
  <1> QED BY ValidationInvariant, <1>1, PTL DEF Spec, AdmittedOnce

(* A replay fault is the doing of an admitted token with the same nonce,   *)
(* less than two half windows ago.                                         *)
THEOREM ReplaysJustified == Spec => ReplayJustified
  <1>1. ASSUME IInv, NEW t \in Tokens, RefuseReplay(t)
        PROVE  /\ \E u \in admitted : u.nonce = t.nonce
               /\ clock - acceptedAt[t.nonce] < 2 * HalfWindow
    <2>1. t.nonce \in CacheProofs!Remembered(CacheProofs!RotateIfNeeded(cache, clock))
      BY <1>1, SameActions DEF RefuseReplay, CacheProofs!Reject
    <2>2. CacheProofs!NoSpuriousReplay
      BY <1>1, CacheAssumed, CacheProofs!RememberedRecent, SameInvariant DEF IInv
    <2>3. t.nonce \in accepted /\ clock - acceptedAt[t.nonce] < 2 * HalfWindow
      BY <2>1, <2>2 DEF CacheProofs!NoSpuriousReplay
    <2> QED BY <1>1, <2>3 DEF IInv, AcceptedAdmitted
  <1>2. IInv /\ [Next]_vars =>
          [\A t \in Tokens : RefuseReplay(t) =>
              /\ \E u \in admitted : u.nonce = t.nonce
              /\ clock - acceptedAt[t.nonce] < 2 * HalfWindow]_vars
    BY <1>1
  <1> QED BY ValidationInvariant, <1>2, PTL DEF Spec, ReplayJustified
=============================================================================
