------------------------- MODULE SoapServiceProofs -------------------------
(***************************************************************************)
(* Proofs of the safety properties of SoapService, for every number of     *)
(* concurrent requests, all messages they may carry, every dispatch table  *)
(* and registry, and the parameters of token validation.  What a           *)
(* validation does is taken from UsernameTokenProofs: the pipeline is      *)
(* shown to validate tokens one after the other.                           *)
(***************************************************************************)
EXTENDS SoapService, TLAPS, FiniteSetTheorems

AuthProofs == INSTANCE UsernameTokenProofs

(* What UsernameTokenProofs assumes of the constants.                      *)
LEMMA ValidationAssumed == AuthProofs!TokenAssumption
  BY ServiceAssumption DEF AuthProofs!TokenAssumption, AuthProofs!ValidationConstants,
                           Auth!ValidationConstants

(* Every instance of FiniteSets speaks of the same finite sets.            *)
LEMMA SameFiniteSets ==
    ASSUME NEW S
    PROVE  /\ AuthProofs!IsFiniteSet(S) <=> IsFiniteSet(S)
           /\ AuthProofs!Cardinality(S) = Cardinality(S)
           /\ Auth!Cache!IsFiniteSet(S) <=> IsFiniteSet(S)
           /\ AuthProofs!Cache!IsFiniteSet(S) <=> IsFiniteSet(S)
           /\ Auth!Cache!Cardinality(S) = Cardinality(S)
           /\ AuthProofs!Cache!Cardinality(S) = Cardinality(S)
  BY DEF AuthProofs!IsFiniteSet, Auth!Cache!IsFiniteSet, AuthProofs!Cache!IsFiniteSet, IsFiniteSet,
         AuthProofs!Cardinality, Auth!Cache!Cardinality, AuthProofs!Cache!Cardinality, Cardinality

(* The checks made before the cache is consulted are those that            *)
(* UsernameTokenProofs is about.                                           *)
LEMMA SameChecks ==
    /\ \A t, now : Auth!Credentials(t, now) = AuthProofs!Credentials(t, now)
    /\ Auth!WallClock = AuthProofs!WallClock
    /\ Auth!WindowCoversTolerance <=> AuthProofs!WindowCoversTolerance
  BY DEF Auth!Credentials, AuthProofs!Credentials, Auth!DigestCheck, AuthProofs!DigestCheck,
         Auth!TextCheck, AuthProofs!TextCheck, Auth!CreatedFresh, AuthProofs!CreatedFresh,
         Auth!Freshness, AuthProofs!Freshness, Auth!ComputeDigest, AuthProofs!ComputeDigest,
         Auth!WallClock, AuthProofs!WallClock,
         Auth!WindowCoversTolerance, AuthProofs!WindowCoversTolerance

(* So are the operations of the cache.                                     *)
LEMMA SameCache ==
    ASSUME NEW n
    PROVE  /\ Auth!Cache!Init <=> AuthProofs!Cache!Init
           /\ Auth!Cache!Tick <=> AuthProofs!Cache!Tick
           /\ Auth!Cache!Accept(n) <=> AuthProofs!Cache!Accept(n)
           /\ Auth!Cache!Reject(n) <=> AuthProofs!Cache!Reject(n)
  <1>1. Auth!Cache!Init <=> AuthProofs!Cache!Init
    BY DEF Auth!Cache!Init, AuthProofs!Cache!Init, Auth!Cache!NewCache, AuthProofs!Cache!NewCache
  <1>2. Auth!Cache!Tick <=> AuthProofs!Cache!Tick
    BY DEF Auth!Cache!Tick, AuthProofs!Cache!Tick, Auth!Cache!history, AuthProofs!Cache!history
  <1>3. \A c, now : Auth!Cache!RotateIfNeeded(c, now) = AuthProofs!Cache!RotateIfNeeded(c, now)
    BY DEF Auth!Cache!RotateIfNeeded, AuthProofs!Cache!RotateIfNeeded, Auth!Cache!RotateTo,
           AuthProofs!Cache!RotateTo, Auth!Cache!NewCache, AuthProofs!Cache!NewCache
  <1>4. \A c : Auth!Cache!Remembered(c) = AuthProofs!Cache!Remembered(c)
    BY DEF Auth!Cache!Remembered, AuthProofs!Cache!Remembered
  <1>5. \A c, now : Auth!Cache!Insert(Auth!Cache!MakeRoom(c, now), n)
                    = AuthProofs!Cache!Insert(AuthProofs!Cache!MakeRoom(c, now), n)
    BY SameFiniteSets
       DEF Auth!Cache!Insert, AuthProofs!Cache!Insert, Auth!Cache!MakeRoom,
           AuthProofs!Cache!MakeRoom, Auth!Cache!RotateTo, AuthProofs!Cache!RotateTo,
           Auth!Cache!Full, AuthProofs!Cache!Full
  <1>6. Auth!Cache!Reject(n) <=> AuthProofs!Cache!Reject(n)
    BY <1>3, <1>4 DEF Auth!Cache!Reject, AuthProofs!Cache!Reject, Auth!Cache!history,
                      AuthProofs!Cache!history
  <1>7. Auth!Cache!RecordAcceptance(n) <=> AuthProofs!Cache!RecordAcceptance(n)
    BY DEF Auth!Cache!RecordAcceptance, AuthProofs!Cache!RecordAcceptance
  <1>8. Auth!Cache!Accept(n) <=> AuthProofs!Cache!Accept(n)
    BY <1>3, <1>4, <1>5, <1>7 DEF Auth!Cache!Accept, AuthProofs!Cache!Accept
  <1> QED BY <1>1, <1>2, <1>6, <1>8

(* And the actions of the sequential validator.                            *)
LEMMA SameValidation ==
    /\ Auth!Init <=> AuthProofs!Init
    /\ Auth!Next <=> AuthProofs!Next
    /\ Auth!vars = AuthProofs!vars
    /\ \A t : Auth!Admit(t) <=> AuthProofs!Admit(t)
  <1>1. Auth!Init <=> AuthProofs!Init
    BY SameCache DEF Auth!Init, AuthProofs!Init
  <1>2. Auth!Tick <=> AuthProofs!Tick
    BY SameCache DEF Auth!Tick, AuthProofs!Tick
  <1>3. Auth!AdjustWallClock <=> AuthProofs!AdjustWallClock
    BY DEF Auth!AdjustWallClock, AuthProofs!AdjustWallClock, Auth!cacheVars, AuthProofs!cacheVars
  <1>4. ASSUME NEW t
        PROVE  /\ Auth!Refuse(t) <=> AuthProofs!Refuse(t)
               /\ Auth!RefuseReplay(t) <=> AuthProofs!RefuseReplay(t)
               /\ Auth!Admit(t) <=> AuthProofs!Admit(t)
    BY SameChecks, SameCache
       DEF Auth!Refuse, AuthProofs!Refuse, Auth!RefuseReplay, AuthProofs!RefuseReplay,
           Auth!Admit, AuthProofs!Admit, Auth!cacheVars, AuthProofs!cacheVars
  <1>5. Auth!Next <=> AuthProofs!Next
    BY <1>2, <1>3, <1>4 DEF Auth!Next, AuthProofs!Next, Auth!ValidateUsernameToken,
                            AuthProofs!ValidateUsernameToken
  <1>6. Auth!vars = AuthProofs!vars
    BY DEF Auth!vars, AuthProofs!vars
  <1> QED BY <1>1, <1>4, <1>5, <1>6

(* No request waits twice.                                                 *)
Distinct(q) == \A i, j \in DOMAIN q : q[i] = q[j] => i = j

(* A newcomer at the end of a queue.                                       *)
LEMMA QueueAppend ==
    ASSUME NEW q \in Seq(Requests), Distinct(q), NEW r \in Requests, r \notin ToSet(q)
    PROVE  /\ Append(q, r) \in Seq(Requests)
           /\ ToSet(Append(q, r)) = ToSet(q) \cup {r}
           /\ Distinct(Append(q, r))
  <1> DEFINE a == Append(q, r)
  <1>1. /\ a \in Seq(Requests) /\ DOMAIN a = 1 .. Len(q) + 1 /\ DOMAIN q = 1 .. Len(q)
        /\ Len(q) \in Nat /\ a[Len(q) + 1] = r
        /\ \A i \in DOMAIN q : a[i] = q[i]
    OBVIOUS
  <1> HIDE DEF a
  <1>2. ToSet(a) = ToSet(q) \cup {r}
    <2>1. ASSUME NEW x \in ToSet(a) PROVE x \in ToSet(q) \cup {r}
      BY <1>1, <2>1 DEF ToSet
    <2>2. ASSUME NEW x \in ToSet(q) PROVE x \in ToSet(a)
      <3>1. PICK i \in DOMAIN q : x = q[i]
        BY <2>2 DEF ToSet
      <3> QED BY <1>1, <3>1 DEF ToSet
    <2>3. r \in ToSet(a)
      BY <1>1 DEF ToSet
    <2> QED BY <2>1, <2>2, <2>3
  <1>3. Distinct(a)
    <2>1. SUFFICES ASSUME NEW i \in DOMAIN a, NEW j \in DOMAIN a, a[i] = a[j] PROVE i = j
      BY DEF Distinct
    <2>2. \A k \in DOMAIN q : q[k] # r
      BY DEF ToSet
    <2> QED BY <1>1, <2>1, <2>2 DEF Distinct
  <1> QED BY <1>1, <1>2, <1>3 DEF a

(* The first of a queue leaves it.                                         *)
LEMMA QueueTail ==
    ASSUME NEW q \in Seq(Requests), Distinct(q), q # <<>>
    PROVE  /\ Head(q) \in ToSet(q)
           /\ Tail(q) \in Seq(Requests)
           /\ ToSet(Tail(q)) = ToSet(q) \ {Head(q)}
           /\ Distinct(Tail(q))
  <1> DEFINE a == Tail(q)
  <1>1. /\ a \in Seq(Requests) /\ DOMAIN a = 1 .. Len(q) - 1 /\ DOMAIN q = 1 .. Len(q)
        /\ Len(q) \in Nat \ {0} /\ Head(q) = q[1]
        /\ \A i \in DOMAIN a : a[i] = q[i + 1] /\ i + 1 \in DOMAIN q /\ i \in Nat \ {0}
    OBVIOUS
  <1> HIDE DEF a
  <1>2. ToSet(a) = ToSet(q) \ {Head(q)}
    <2>1. ASSUME NEW x \in ToSet(a) PROVE x \in ToSet(q) \ {Head(q)}
      <3>1. PICK i \in DOMAIN a : x = q[i + 1] /\ i + 1 \in DOMAIN q /\ i + 1 # 1 /\ 1 \in DOMAIN q
        BY <1>1, <2>1 DEF ToSet
      <3> QED BY <1>1, <3>1 DEF ToSet, Distinct
    <2>2. ASSUME NEW x \in ToSet(q), x # Head(q) PROVE x \in ToSet(a)
      <3>1. PICK i \in DOMAIN q : x = q[i]
        BY <2>2 DEF ToSet
      <3>2. i - 1 \in DOMAIN a /\ a[i - 1] = x
        BY <1>1, <2>2, <3>1
      <3> QED BY <3>2 DEF ToSet
    <2> QED BY <2>1, <2>2
  <1>3. Distinct(a)
    BY <1>1 DEF Distinct
  <1>4. Head(q) \in ToSet(q)
    BY <1>1 DEF ToSet
  <1> QED BY <1>1, <1>2, <1>3, <1>4 DEF a

(* One in the middle of a queue leaves it.                                 *)
LEMMA QueueRemove ==
    ASSUME NEW q \in Seq(Requests), Distinct(q), NEW k \in DOMAIN q
    PROVE  /\ RemoveAt(q, k) \in Seq(Requests)
           /\ ToSet(RemoveAt(q, k)) = ToSet(q) \ {q[k]}
           /\ Distinct(RemoveAt(q, k))
  <1> DEFINE a == RemoveAt(q, k)
  <1>1. /\ a \in Seq(Requests) /\ DOMAIN a = 1 .. Len(q) - 1 /\ DOMAIN q = 1 .. Len(q)
        /\ Len(q) \in Nat \ {0} /\ k \in Nat
        /\ \A i \in DOMAIN a : /\ i \in Nat
                               /\ i < k => i \in DOMAIN q /\ a[i] = q[i]
                               /\ i >= k => i + 1 \in DOMAIN q /\ a[i] = q[i + 1]
    <2> DEFINE before == SubSeq(q, 1, k - 1)
               after == SubSeq(q, k + 1, Len(q))
    <2>1. k \in 1 .. Len(q) /\ Len(q) \in Nat
      OBVIOUS
    <2>2. /\ before \in Seq(Requests) /\ Len(before) = k - 1
          /\ \A i \in 1 .. k - 1 : before[i] = q[i]
      BY <2>1
    <2>3. /\ after \in Seq(Requests) /\ Len(after) = Len(q) - k
          /\ \A i \in 1 .. Len(q) - k : after[i] = q[k + i]
      BY <2>1
    <2>4. a = before \o after
      BY DEF RemoveAt
    <2> HIDE DEF a, before, after
    <2>5. a \in Seq(Requests) /\ Len(a) = Len(q) - 1
      BY <2>1, <2>2, <2>3, <2>4
    <2>6. \A i \in 1 .. Len(q) - 1 :
             a[i] = IF i <= k - 1 THEN before[i] ELSE after[i - (k - 1)]
      BY <2>1, <2>2, <2>3, <2>4
    <2>7. ASSUME NEW i \in 1 .. Len(q) - 1, i >= k
          PROVE  a[i] = q[i + 1]
      <3>1. i - (k - 1) \in 1 .. Len(q) - k /\ k + (i - (k - 1)) = i + 1
        BY <2>1, <2>7
      <3> QED BY <2>1, <2>3, <2>6, <2>7, <3>1
    <2> QED BY <2>1, <2>2, <2>5, <2>6, <2>7
  <1> HIDE DEF a
  <1>2. ToSet(a) = ToSet(q) \ {q[k]}
    <2>1. ASSUME NEW x \in ToSet(a) PROVE x \in ToSet(q) \ {q[k]}
      <3>1. PICK i \in DOMAIN a : x = a[i]
        BY <2>1 DEF ToSet
      <3>2. PICK j \in DOMAIN q : x = q[j] /\ j # k
        BY <1>1, <3>1
      <3> QED BY <3>2 DEF ToSet, Distinct
    <2>2. ASSUME NEW x \in ToSet(q), x # q[k] PROVE x \in ToSet(a)
      <3>1. PICK i \in DOMAIN q : x = q[i]
        BY <2>2 DEF ToSet
      <3>2. CASE i < k
        BY <1>1, <3>1, <3>2 DEF ToSet
      <3>3. CASE i > k
        <4>1. i - 1 \in DOMAIN a /\ a[i - 1] = x
          BY <1>1, <3>1, <3>3
        <4> QED BY <4>1 DEF ToSet
      <3> QED BY <1>1, <2>2, <3>1, <3>2, <3>3
    <2> QED BY <2>1, <2>2
  <1>3. Distinct(a)
    BY <1>1 DEF Distinct
  <1> QED BY <1>1, <1>2, <1>3 DEF a

(* What the first steps of the pipeline return is a fault, or nothing.     *)
LEMMA RefusalTyped == ASSUME NEW m \in Messages PROVE Refusal(m) \in Responses \cup {Absent}
  BY ServiceAssumption DEF Refusal, Fault, Responses, Versions

(* A message they let pass was read, and has a token if it needs one.      *)
LEMMA PassedOn ==
    ASSUME NEW m \in Messages, Refusal(m) = Absent
    PROVE  /\ m.envelope \in Versions
           /\ NeedsAuth(m) => m.security \in Tokens
  <1>1. /\ m.contentType \in Versions \cup {"other"} /\ m.security \in Tokens \cup {Absent}
        /\ Absent \notin Responses
    BY ServiceAssumption
  <1>2. ASSUME NEW v \in Versions, NEW step \in {"content type", "envelope", "body", "route", "security header"}
        PROVE  Fault(v, step) # Absent
    <2>1. Fault(v, step) \in Responses
      BY <1>2 DEF Fault, Responses
    <2> QED BY <1>1, <2>1
  <1>3. m.contentType \in Versions
    BY <1>1, <1>2 DEF Refusal, Versions
  <1>4. m.envelope \in Versions
    BY <1>2, <1>3 DEF Refusal, Versions
  <1>5. NeedsAuth(m) => m.security # Absent
    BY <1>2, <1>3, <1>4 DEF Refusal, Versions
  <1> QED BY <1>1, <1>4, <1>5

(* So a request that has come as far as the lock has a token to validate.  *)
LEMMA TokenPresent ==
    ASSUME IInv, NEW r \in Requests, pc[r] \in {"waiting", "locked", "inserting"}
    PROVE  Token(r) \in Tokens /\ message[r].envelope \in Versions
  BY PassedOn DEF IInv, StagesInOrder, Token

-----------------------------------------------------------------------------
(* The pipeline validates tokens as the sequential validator does.         *)

(* The insertion of a nonce, after the look-up made earlier, is as good as *)
(* one validation in one step.                                             *)
LEMMA InsertionAdmits == ASSUME IInv, NEW r \in Requests, InsertNonce(r) PROVE Auth!Admit(Token(r))
  <1>1. /\ rotated[r] = Auth!Cache!RotateIfNeeded(cache, clock)
        /\ Auth!Credentials(Token(r), Auth!WallClock) = "ok"
        /\ Token(r).nonce # Absent
        /\ Token(r).nonce \notin Auth!Cache!Remembered(rotated[r])
    BY DEF IInv, LookUpCurrent, InsertNonce
  <1>2. Auth!Cache!Accept(Token(r).nonce)
    BY <1>1 DEF InsertNonce, Auth!Cache!Accept
  <1> QED BY <1>1, <1>2 DEF InsertNonce, Auth!Admit

(* Every step of the pipeline validates a token, or none.                  *)
LEMMA StepValidates ==
    IInv /\ [Next]_vars => [AuthProofs!Next]_(AuthProofs!vars)
  <1>0. Auth!vars' = AuthProofs!vars'
    BY DEF Auth!vars, AuthProofs!vars
  <1> SUFFICES ASSUME IInv, [Next]_vars PROVE [Auth!Next]_(Auth!vars)
    BY <1>0, SameValidation
  <1> USE DEF Auth!Next, Auth!ValidateUsernameToken
  <1>1. ASSUME NEW r \in Requests, RefuseToken(r) PROVE Auth!Next
    BY <1>1, TokenPresent DEF RefuseToken
  <1>2. ASSUME NEW r \in Requests, RefuseReplay(r) PROVE Auth!Next
    BY <1>2, TokenPresent DEF RefuseReplay
  <1>3. ASSUME NEW r \in Requests, AdmitWithoutNonce(r) PROVE Auth!Next
    BY <1>3, TokenPresent DEF AdmitWithoutNonce
  <1>4. ASSUME NEW r \in Requests, InsertNonce(r) PROVE Auth!Next
    BY <1>4, TokenPresent, InsertionAdmits DEF InsertNonce
  <1>5. CASE Time
    BY <1>5 DEF Time
  <1>6. ASSUME UNCHANGED authVars PROVE UNCHANGED Auth!vars
    BY <1>6 DEF authVars, Auth!vars
  <1>7. ASSUME NEW r \in Requests, Arrive(r) \/ Acquire(r) \/ LookUpNonce(r) \/ HandlerReturns(r) \/ Drop(r)
        PROVE  UNCHANGED authVars
    BY <1>7 DEF Arrive, RefuseEarly, ProceedWithoutAuth, AwaitLock, Acquire, LookUpNonce,
                HandlerReturns, Drop
  <1>8. CASE UNCHANGED vars
    BY <1>6, <1>8 DEF vars, authVars
  <1> QED BY <1>1, <1>2, <1>3, <1>4, <1>5, <1>6, <1>7, <1>8 DEF Next, Validate

(* The invariants of the two copies of UsernameToken are one, before a     *)
(* step and after it.                                                      *)
LEMMA SameInvariant == Auth!IInv <=> AuthProofs!IInv
  <1>1. Auth!Cache!TypeOK <=> AuthProofs!Cache!TypeOK
    BY DEF Auth!Cache!TypeOK, AuthProofs!Cache!TypeOK, Auth!Cache!Caches, AuthProofs!Cache!Caches
  <1>2. Auth!TypeOK <=> AuthProofs!TypeOK
    BY <1>1 DEF Auth!TypeOK, AuthProofs!TypeOK, Auth!Verdicts, AuthProofs!Verdicts
  <1>3. Auth!Cache!HistorySound <=> AuthProofs!Cache!HistorySound
    BY SameFiniteSets DEF Auth!Cache!HistorySound, AuthProofs!Cache!HistorySound
  <1>4. /\ Auth!Cache!BucketTimes(cache) <=> AuthProofs!Cache!BucketTimes(cache)
        /\ Auth!Cache!BucketOrder(cache) <=> AuthProofs!Cache!BucketOrder(cache)
    BY DEF Auth!Cache!BucketTimes, AuthProofs!Cache!BucketTimes,
           Auth!Cache!BucketOrder, AuthProofs!Cache!BucketOrder,
           Auth!Cache!Remembered, AuthProofs!Cache!Remembered
  <1>5. Auth!Cache!ForgottenReacceptable(cache) <=> AuthProofs!Cache!ForgottenReacceptable(cache)
    BY SameFiniteSets
       DEF Auth!Cache!ForgottenReacceptable, AuthProofs!Cache!ForgottenReacceptable,
           Auth!Cache!Reacceptable, AuthProofs!Cache!Reacceptable,
           Auth!Cache!Remembered, AuthProofs!Cache!Remembered
  <1>6. /\ Auth!Cache!BucketsFinite(cache) <=> AuthProofs!Cache!BucketsFinite(cache)
        /\ Auth!Cache!CapacityRespected(cache) <=> AuthProofs!Cache!CapacityRespected(cache)
    BY SameFiniteSets
       DEF Auth!Cache!BucketsFinite, AuthProofs!Cache!BucketsFinite,
           Auth!Cache!CapacityRespected, AuthProofs!Cache!CapacityRespected
  <1>7. Auth!Cache!IInv <=> AuthProofs!Cache!IInv
    BY <1>1, <1>3, <1>4, <1>5, <1>6
       DEF Auth!Cache!IInv, AuthProofs!Cache!IInv, Auth!Cache!Sound, AuthProofs!Cache!Sound,
           Auth!Cache!Caches, AuthProofs!Cache!Caches
  <1> QED BY <1>2, <1>7 DEF Auth!IInv, AuthProofs!IInv, Auth!AdmissionsDated,
             AuthProofs!AdmissionsDated, Auth!AcceptedAdmitted, AuthProofs!AcceptedAdmitted

(* Also after a step.                                                      *)
LEMMA SameInvariantPrimed == Auth!IInv' <=> AuthProofs!IInv'
  BY SameInvariant, PTL

(* So the invariant of token validation is kept by the pipeline.           *)
LEMMA ValidationKept == IInv /\ [Next]_vars => Auth!IInv'
  BY StepValidates, ValidationAssumed, AuthProofs!StepSound, SameInvariant, SameInvariantPrimed
     DEF IInv

(* The cache a validating request has in hand is one.                      *)
LEMMA RotatedTyped == IInv => Auth!Cache!RotateIfNeeded(cache, clock) \in Auth!Cache!Caches
  <1>1. Auth!Cache!RotateIfNeeded(cache, clock) = AuthProofs!Cache!RotateIfNeeded(cache, clock)
    BY DEF Auth!Cache!RotateIfNeeded, AuthProofs!Cache!RotateIfNeeded, Auth!Cache!RotateTo,
           AuthProofs!Cache!RotateTo, Auth!Cache!NewCache, AuthProofs!Cache!NewCache
  <1> QED BY <1>1, ValidationAssumed, AuthProofs!RotatedTyped, SameInvariant
          DEF IInv, Auth!Cache!Caches, AuthProofs!Cache!Caches

-----------------------------------------------------------------------------
(* What the steps of a request do to the state of the pipeline.            *)

(* The last steps of the pipeline either call the handler or answer.       *)
LEMMA Proceeds ==
    ASSUME NEW r, NEW m, Proceed(r, m)
    PROVE  \/ /\ pc' = [pc EXCEPT ![r] = "handling"]
              /\ called' = called \cup {r} /\ response' = response
           \/ /\ pc' = [pc EXCEPT ![r] = "answered"]
              /\ called' = called
              /\ response' = [response EXCEPT ![r] = Fault(m.envelope, "schema")]
  BY DEF Proceed, Goto, Respond

(* A request that is validating holds the lock, and is alone in that.      *)
LEMMA Alone ==
    ASSUME IInv, NEW r \in Requests, pc[r] \in {"locked", "inserting"}
    PROVE  /\ holder = r
           /\ \A s \in Requests : pc[s] \in {"locked", "inserting"} => s = r
  BY ServiceAssumption DEF IInv, LockDiscipline

-----------------------------------------------------------------------------
(* Every step keeps each part of the invariant.                            *)

(* The types.                                                              *)
LEMMA TypesKept == IInv /\ [Next]_vars => TypeOK'
  <1> SUFFICES ASSUME IInv, [Next]_vars PROVE TypeOK'
    OBVIOUS
  <1> DEFINE Rest == /\ pc \in [Requests -> Stages]
                     /\ message \in [Requests -> Messages \cup {Absent}]
                     /\ response \in [Requests -> Responses \cup {Absent}]
                     /\ queue \in Seq(Requests)
                     /\ holder \in Requests \cup {Absent}
                     /\ rotated \in [Requests -> Auth!Cache!Caches]
                     /\ called \subseteq Requests
  <1>1. Auth!TypeOK'
    BY ValidationKept DEF Auth!IInv
  <1>0. SUFFICES Rest'
    BY <1>1 DEF TypeOK
  <1>2. Rest /\ IInv
    BY DEF IInv, TypeOK
  <1>3. ASSUME NEW v \in Versions, NEW step \in {"envelope", "body", "route", "security header", "token", "schema"}
        PROVE  Fault(v, step) \in Responses
    BY <1>3 DEF Fault, Responses
  <1>4. ASSUME NEW r \in Requests, NEW m, m.envelope \in Versions, Proceed(r, m)
        PROVE  pc' \in [Requests -> Stages] /\ called' \subseteq Requests
               /\ response' \in [Requests -> Responses \cup {Absent}]
    <2>1. Fault(m.envelope, "schema") \in Responses
      BY <1>3, <1>4
    <2>2. \/ /\ pc' = [pc EXCEPT ![r] = "handling"]
             /\ called' = called \cup {r} /\ response' = response
          \/ /\ pc' = [pc EXCEPT ![r] = "answered"]
             /\ called' = called
             /\ response' = [response EXCEPT ![r] = Fault(m.envelope, "schema")]
      BY <1>4, Proceeds
    <2> QED BY <1>2, <2>1, <2>2 DEF Stages
  <1>5. ASSUME NEW r \in Requests, NEW m \in Messages, RefuseEarly(r, m) PROVE Rest'
    BY <1>2, <1>5, RefusalTyped DEF RefuseEarly, Receive, Respond, Goto, Stages
  <1>6. ASSUME NEW r \in Requests, NEW m \in Messages, ProceedWithoutAuth(r, m) PROVE Rest'
    <2>1. m.envelope \in Versions
      BY <1>6, PassedOn DEF ProceedWithoutAuth
    <2> QED BY <1>2, <1>4, <1>6, <2>1 DEF ProceedWithoutAuth, Receive
  <1>7. ASSUME NEW r \in Requests, NEW m \in Messages, AwaitLock(r, m) PROVE Rest'
    BY <1>2, <1>7 DEF AwaitLock, Receive, Goto, Stages
  <1>8. ASSUME NEW r \in Requests, Acquire(r) PROVE Rest'
    BY <1>2, <1>8 DEF Acquire, Goto, Stages
  <1>9. ASSUME NEW r \in Requests, RefuseToken(r) \/ RefuseReplay(r) PROVE Rest'
    <2>1. message[r].envelope \in Versions
      BY <1>2, <1>9, TokenPresent DEF RefuseToken, RefuseReplay
    <2> QED BY <1>2, <1>3, <1>9, <2>1
            DEF RefuseToken, RefuseReplay, TokenFault, Respond, Goto, Stages
  <1>10. ASSUME NEW r \in Requests, AdmitWithoutNonce(r) \/ InsertNonce(r) PROVE Rest'
    <2>1. message[r].envelope \in Versions
      BY <1>2, <1>10, TokenPresent DEF AdmitWithoutNonce, InsertNonce
    <2> QED BY <1>2, <1>4, <1>10, <2>1 DEF AdmitWithoutNonce, InsertNonce
  <1>11. ASSUME NEW r \in Requests, LookUpNonce(r) PROVE Rest'
    BY <1>2, <1>11, RotatedTyped DEF LookUpNonce, Goto, Stages
  <1>12. ASSUME NEW r \in Requests, HandlerReturns(r) PROVE Rest'
    <2>1. message[r].envelope \in Versions
      BY <1>2, <1>12, PassedOn DEF IInv, StagesInOrder, HandlerReturns
    <2>2. PICK status \in {"ok", "fault"} :
             Respond(r, [status |-> status, version |-> message[r].envelope, step |-> "handler"])
      BY <1>12 DEF HandlerReturns
    <2>3. [status |-> status, version |-> message[r].envelope, step |-> "handler"] \in Responses
      BY <2>1 DEF Responses
    <2> QED BY <1>2, <1>12, <2>2, <2>3 DEF HandlerReturns, Respond, Goto, Stages
  <1>13. ASSUME NEW r \in Requests, Drop(r) PROVE Rest'
    <2>1. queue' \in Seq(Requests)
      BY <1>2, <1>13, QueueRemove DEF Drop, IInv, LockDiscipline, Distinct
    <2> QED BY <1>2, <1>13, <2>1 DEF Drop, Goto, Stages
  <1>14. CASE Time
    BY <1>2, <1>14 DEF Time
  <1>15. CASE UNCHANGED vars
    BY <1>2, <1>15 DEF vars
  <1> QED
    BY <1>5, <1>6, <1>7, <1>8, <1>9, <1>10, <1>11, <1>12, <1>13, <1>14, <1>15
       DEF Next, Arrive, Validate

(* The discipline of the lock.                                             *)
LEMMA LockKept == IInv /\ [Next]_vars => LockDiscipline'
  <1> SUFFICES ASSUME IInv, [Next]_vars PROVE LockDiscipline'
    OBVIOUS
  <1>1. /\ pc \in [Requests -> Stages] /\ queue \in Seq(Requests)
        /\ holder \in Requests \cup {Absent} /\ Absent \notin Requests
        /\ {r \in Requests : pc[r] \in {"locked", "inserting"}} = {holder} \ {Absent}
        /\ {r \in Requests : pc[r] = "waiting"} = ToSet(queue)
        /\ Distinct(queue) /\ IInv
    BY ServiceAssumption DEF IInv, TypeOK, LockDiscipline, Distinct
  <1>2. ASSUME NEW r \in Requests, NEW stage, pc' = [pc EXCEPT ![r] = stage],
               stage \notin {"waiting", "locked", "inserting"},
               pc[r] \notin {"waiting", "locked", "inserting"}, UNCHANGED <<queue, holder>>
        PROVE  LockDiscipline'
    BY <1>1, <1>2 DEF LockDiscipline, Distinct
  <1>3. ASSUME NEW r \in Requests, NEW stage, pc' = [pc EXCEPT ![r] = stage],
               stage \notin {"waiting", "locked", "inserting"},
               pc[r] \in {"locked", "inserting"}, holder' = Absent, UNCHANGED queue
        PROVE  LockDiscipline'
    <2>1. \A s \in Requests : pc[s] \in {"locked", "inserting"} => s = r
      BY <1>1, <1>3, Alone
    <2> QED BY <1>1, <1>3, <2>1 DEF LockDiscipline, Distinct
  <1>4. ASSUME NEW r \in Requests, NEW m \in Messages, RefuseEarly(r, m) \/ ProceedWithoutAuth(r, m)
        PROVE LockDiscipline'
    BY <1>2, <1>4, Proceeds DEF RefuseEarly, ProceedWithoutAuth, Receive, Respond, Goto
  <1>5. ASSUME NEW r \in Requests, NEW m \in Messages, AwaitLock(r, m) PROVE LockDiscipline'
    <2>1. /\ pc[r] = "idle" /\ pc' = [pc EXCEPT ![r] = "waiting"]
          /\ queue' = Append(queue, r) /\ holder' = holder
      BY <1>5 DEF AwaitLock, Receive, Goto
    <2>2. ToSet(queue') = ToSet(queue) \cup {r} /\ Distinct(queue')
      BY <1>1, <2>1, QueueAppend
    <2> QED BY <1>1, <2>1, <2>2 DEF LockDiscipline, Distinct
  <1>6. ASSUME NEW r \in Requests, Acquire(r) PROVE LockDiscipline'
    <2>1. /\ holder = Absent /\ queue # <<>> /\ Head(queue) = r
          /\ holder' = r /\ queue' = Tail(queue) /\ pc' = [pc EXCEPT ![r] = "locked"]
      BY <1>6 DEF Acquire, Goto
    <2>2. ToSet(queue') = ToSet(queue) \ {r} /\ Distinct(queue') /\ r \in ToSet(queue)
      BY <1>1, <2>1, QueueTail
    <2> QED BY <1>1, <2>1, <2>2 DEF LockDiscipline, Distinct
  <1>7. ASSUME NEW r \in Requests, Validate(r) PROVE LockDiscipline'
    <2>1. CASE RefuseToken(r) \/ RefuseReplay(r)
      BY <1>3, <2>1 DEF RefuseToken, RefuseReplay, TokenFault, Respond, Goto
    <2>2. CASE AdmitWithoutNonce(r) \/ InsertNonce(r)
      BY <1>3, <2>2, Proceeds DEF AdmitWithoutNonce, InsertNonce
    <2>3. CASE LookUpNonce(r)
      BY <1>1, <2>3 DEF LookUpNonce, Goto, LockDiscipline, Distinct
    <2> QED BY <1>7, <2>1, <2>2, <2>3 DEF Validate
  <1>8. ASSUME NEW r \in Requests, HandlerReturns(r) PROVE LockDiscipline'
    BY <1>2, <1>8 DEF HandlerReturns, Respond, Goto
  <1>9. ASSUME NEW r \in Requests, Drop(r) PROVE LockDiscipline'
    <2>1. /\ pc' = [pc EXCEPT ![r] = "dropped"]
          /\ holder' = IF holder = r THEN Absent ELSE holder
      BY <1>9 DEF Drop, Goto
    <2>2. CASE pc[r] = "waiting"
      <3>1. PICK i \in DOMAIN queue : queue[i] = r /\ queue' = RemoveAt(queue, i)
        BY <1>9, <2>2 DEF Drop
      <3>2. ToSet(queue') = ToSet(queue) \ {r} /\ Distinct(queue')
        BY <1>1, <3>1, QueueRemove
      <3> QED BY <1>1, <2>1, <2>2, <3>2 DEF LockDiscipline, Distinct
    <2>3. CASE pc[r] = "locked"
      BY <1>3, <1>9, <2>1, <2>3, Alone, <1>1 DEF Drop
    <2>4. CASE pc[r] = "handling"
      BY <1>1, <1>2, <1>9, <2>1, <2>4 DEF Drop
    <2> QED BY <1>9, <2>2, <2>3, <2>4 DEF Drop
  <1>10. CASE UNCHANGED <<pc, queue, holder>>
    BY <1>1, <1>10 DEF LockDiscipline, Distinct
  <1> QED BY <1>4, <1>5, <1>6, <1>7, <1>8, <1>9, <1>10 DEF Next, Arrive, Time, vars

(* The stages.                                                             *)
LEMMA StagesKept == IInv /\ [Next]_vars => StagesInOrder'
  <1> SUFFICES ASSUME IInv, [Next]_vars PROVE StagesInOrder'
    OBVIOUS
  <1>1. /\ pc \in [Requests -> Stages] /\ called \subseteq Requests
        /\ message \in [Requests -> Messages \cup {Absent}]
        /\ response \in [Requests -> Responses \cup {Absent}]
        /\ StagesInOrder /\ IInv
    BY DEF IInv, TypeOK
  <1>2. ASSUME NEW r \in Requests, NEW m \in Messages, RefuseEarly(r, m) PROVE StagesInOrder'
    BY <1>1, <1>2 DEF RefuseEarly, Receive, Respond, Goto, StagesInOrder
  <1>3. ASSUME NEW r \in Requests, NEW m \in Messages, ProceedWithoutAuth(r, m)
        PROVE  StagesInOrder'
    BY <1>1, <1>3, Proceeds DEF ProceedWithoutAuth, Receive, StagesInOrder
  <1>4. ASSUME NEW r \in Requests, NEW m \in Messages, AwaitLock(r, m) PROVE StagesInOrder'
    BY <1>1, <1>4 DEF AwaitLock, Receive, Goto, StagesInOrder
  <1>5. ASSUME NEW r \in Requests, Acquire(r) PROVE StagesInOrder'
    <2>1. pc[r] = "waiting"
      BY <1>5, QueueTail DEF Acquire, IInv, TypeOK, LockDiscipline, Distinct
    <2> QED BY <1>1, <1>5, <2>1 DEF Acquire, Goto, StagesInOrder
  <1>6. ASSUME NEW r \in Requests, RefuseToken(r) \/ RefuseReplay(r) PROVE StagesInOrder'
    BY <1>1, <1>6
       DEF RefuseToken, RefuseReplay, TokenFault, Respond, Goto, StagesInOrder
  <1>7. ASSUME NEW r \in Requests, AdmitWithoutNonce(r) \/ InsertNonce(r) PROVE StagesInOrder'
    BY <1>1, <1>7, Proceeds DEF AdmitWithoutNonce, InsertNonce, StagesInOrder
  <1>8. ASSUME NEW r \in Requests, LookUpNonce(r) PROVE StagesInOrder'
    BY <1>1, <1>8 DEF LookUpNonce, Goto, StagesInOrder
  <1>9. ASSUME NEW r \in Requests, HandlerReturns(r) PROVE StagesInOrder'
    BY <1>1, <1>9 DEF HandlerReturns, Respond, Goto, StagesInOrder
  <1>10. ASSUME NEW r \in Requests, Drop(r) PROVE StagesInOrder'
    BY <1>1, <1>10 DEF Drop, Goto, StagesInOrder
  <1>11. CASE UNCHANGED <<pc, message, response, called>>
    BY <1>1, <1>11 DEF StagesInOrder
  <1> QED BY <1>2, <1>3, <1>4, <1>5, <1>6, <1>7, <1>8, <1>9, <1>10, <1>11
          DEF Next, Arrive, Validate, Time, vars

(* What a look-up found: nobody else touches the cache until the nonce is  *)
(* entered, and the clocks stand still.                                    *)
LEMMA LookUpKept == IInv /\ [Next]_vars => LookUpCurrent'
  <1> SUFFICES ASSUME IInv, [Next]_vars, NEW s \in Requests, pc'[s] = "inserting"
               PROVE  /\ rotated'[s] = Auth!Cache!RotateIfNeeded(cache', clock')
                      /\ (Auth!Credentials(Token(s), Auth!WallClock) = "ok")'
                      /\ (Token(s).nonce # Absent)'
                      /\ (Token(s).nonce \notin Auth!Cache!Remembered(rotated[s]))'
    BY DEF LookUpCurrent
  <1> USE DEF LookUpCurrent
  <1>1. /\ pc \in [Requests -> Stages]
        /\ message \in [Requests -> Messages \cup {Absent}]
        /\ rotated \in [Requests -> Auth!Cache!Caches]
        /\ LookUpCurrent /\ IInv
    BY DEF IInv, TypeOK
  <1>2. ASSUME UNCHANGED <<cache, clock, skew>>, pc[s] = "inserting",
               message'[s] = message[s], rotated'[s] = rotated[s]
        PROVE  /\ rotated'[s] = Auth!Cache!RotateIfNeeded(cache', clock')
               /\ (Auth!Credentials(Token(s), Auth!WallClock) = "ok")'
               /\ (Token(s).nonce # Absent)'
               /\ (Token(s).nonce \notin Auth!Cache!Remembered(rotated[s]))'
    <2>1. Token(s)' = Token(s) /\ Auth!WallClock' = Auth!WallClock
      BY <1>2 DEF Token, Auth!WallClock
    <2> QED BY <1>1, <1>2, <2>1
  <1>3. ASSUME NEW r \in Requests, Arrive(r) \/ Acquire(r) \/ HandlerReturns(r) \/ Drop(r)
        PROVE  /\ UNCHANGED <<cache, clock, skew>> /\ pc[s] = "inserting"
               /\ message'[s] = message[s] /\ rotated'[s] = rotated[s]
    BY <1>1, <1>3, Proceeds
       DEF Arrive, RefuseEarly, ProceedWithoutAuth, AwaitLock, Receive, Acquire, HandlerReturns,
           Drop, Respond, Goto, authVars
  <1>4. ASSUME NEW r \in Requests, RefuseToken(r) \/ RefuseReplay(r) PROVE FALSE
    BY <1>1, <1>4, Alone DEF RefuseToken, RefuseReplay, TokenFault, Respond, Goto
  <1>5. ASSUME NEW r \in Requests, AdmitWithoutNonce(r) \/ InsertNonce(r) PROVE FALSE
    BY <1>1, <1>5, Alone, Proceeds DEF AdmitWithoutNonce, InsertNonce
  <1>6. ASSUME NEW r \in Requests, LookUpNonce(r)
        PROVE  /\ rotated'[s] = Auth!Cache!RotateIfNeeded(cache', clock')
               /\ (Auth!Credentials(Token(s), Auth!WallClock) = "ok")'
               /\ (Token(s).nonce # Absent)'
               /\ (Token(s).nonce \notin Auth!Cache!Remembered(rotated[s]))'
    <2>1. s = r /\ UNCHANGED <<cache, clock, skew, message>>
      BY <1>1, <1>6, Alone DEF LookUpNonce, Goto, authVars
    <2>2. Token(s)' = Token(s) /\ Auth!WallClock' = Auth!WallClock
      BY <2>1 DEF Token, Auth!WallClock
    <2> QED BY <1>1, <1>6, <2>1, <2>2 DEF LookUpNonce
  <1>7. CASE Time
    BY <1>7 DEF Time
  <1>8. CASE UNCHANGED vars
    BY <1>1, <1>2, <1>8 DEF vars, authVars
  <1> QED BY <1>2, <1>3, <1>4, <1>5, <1>6, <1>7, <1>8 DEF Next, Validate

(* The answers.                                                            *)
LEMMA AnswersKept == IInv /\ [Next]_vars => AnswerVersion'
  <1> SUFFICES ASSUME IInv, [Next]_vars PROVE AnswerVersion'
    OBVIOUS
  <1>1. /\ pc \in [Requests -> Stages] /\ called \subseteq Requests
        /\ message \in [Requests -> Messages \cup {Absent}]
        /\ response \in [Requests -> Responses \cup {Absent}]
        /\ AnswerVersion /\ StagesInOrder
    BY DEF IInv, TypeOK
  <1>2. ASSUME NEW r \in Requests, NEW answer, response' = [response EXCEPT ![r] = answer],
               called \subseteq called',
               \A s \in Requests \ {r} : message'[s] = message[s],
               answer.step \notin {"content type", "envelope"} =>
                   /\ answer.version = message'[r].envelope
                   /\ answer.status = "ok" => r \in called'
        PROVE  AnswerVersion'
    BY <1>1, <1>2 DEF AnswerVersion
  <1>3. ASSUME response' = response, called \subseteq called',
               \A s \in Requests : response[s] # Absent => message'[s] = message[s]
        PROVE  AnswerVersion'
    BY <1>1, <1>3 DEF AnswerVersion
  <1>4. ASSUME NEW r \in Requests, NEW m, Proceed(r, m), message'[r] = m,
               \A s \in Requests \ {r} : message'[s] = message[s], response[r] = Absent
        PROVE  AnswerVersion'
    <2>1. CASE response' = response /\ called' = called \cup {r}
      BY <1>3, <1>4, <2>1
    <2>2. CASE response' = [response EXCEPT ![r] = Fault(m.envelope, "schema")] /\ called' = called
      BY <1>2, <1>4, <2>2 DEF Fault
    <2> QED BY <1>4, <2>1, <2>2, Proceeds
  <1>5. ASSUME NEW r \in Requests, NEW m, Receive(r, m)
        PROVE  /\ message'[r] = m /\ response[r] = Absent
               /\ \A s \in Requests \ {r} : message'[s] = message[s]
    BY <1>1, <1>5 DEF Receive, StagesInOrder
  <1>6. ASSUME NEW r \in Requests, NEW m \in Messages, RefuseEarly(r, m) PROVE AnswerVersion'
    <2>1. \/ Refusal(m).step \in {"content type", "envelope"}
          \/ Refusal(m).version = m.envelope /\ Refusal(m).status = "fault"
      BY <1>6 DEF RefuseEarly, Refusal, Fault
    <2> QED BY <1>2, <1>5, <1>6, <2>1 DEF RefuseEarly, Respond
  <1>7. ASSUME NEW r \in Requests, NEW m \in Messages, ProceedWithoutAuth(r, m)
        PROVE  AnswerVersion'
    BY <1>4, <1>5, <1>7 DEF ProceedWithoutAuth
  <1>8. ASSUME NEW r \in Requests, NEW m \in Messages, AwaitLock(r, m) PROVE AnswerVersion'
    BY <1>3, <1>5, <1>8 DEF AwaitLock
  <1>9. ASSUME NEW r \in Requests, RefuseToken(r) \/ RefuseReplay(r) PROVE AnswerVersion'
    BY <1>2, <1>9 DEF RefuseToken, RefuseReplay, TokenFault, Respond, Fault
  <1>10. ASSUME NEW r \in Requests, AdmitWithoutNonce(r) \/ InsertNonce(r)
         PROVE  AnswerVersion'
    <2>1. response[r] = Absent /\ Proceed(r, message[r]) /\ message' = message
      BY <1>1, <1>10 DEF AdmitWithoutNonce, InsertNonce, StagesInOrder
    <2> QED BY <1>4, <2>1
  <1>11. ASSUME NEW r \in Requests, HandlerReturns(r) PROVE AnswerVersion'
    <2>1. r \in called
      BY <1>1, <1>11 DEF HandlerReturns, StagesInOrder
    <2> QED BY <1>2, <1>11, <2>1 DEF HandlerReturns, Respond
  <1>12. ASSUME NEW r \in Requests, Acquire(r) \/ LookUpNonce(r) \/ Drop(r)
         PROVE  AnswerVersion'
    BY <1>3, <1>12 DEF Acquire, LookUpNonce, Drop
  <1>13. CASE UNCHANGED <<message, response, called>>
    BY <1>3, <1>13
  <1> QED BY <1>6, <1>7, <1>8, <1>9, <1>10, <1>11, <1>12, <1>13
          DEF Next, Arrive, Validate, Time, vars

(* A request of a protected operation gets past authentication only by the *)
(* steps that admit its token.                                             *)
LEMMA GetsPastAuth ==
    ASSUME IInv, [Next]_vars, NEW s \in Requests, PastAuth(s)', NeedsAuth(message[s])'
    PROVE  \/ PastAuth(s) /\ message'[s] = message[s]
           \/ AdmitWithoutNonce(s) \/ InsertNonce(s)
  <1>1. /\ pc \in [Requests -> Stages] /\ called \subseteq Requests
        /\ message \in [Requests -> Messages \cup {Absent}]
        /\ response \in [Requests -> Responses \cup {Absent}]
        /\ StagesInOrder
    BY DEF IInv, TypeOK
  <1>2. ASSUME message'[s] = message[s], response'[s] = response[s], s \in called' => s \in called
        PROVE  PastAuth(s) /\ message'[s] = message[s]
    BY <1>2 DEF PastAuth
  <1>3. ASSUME NEW m \in Messages, RefuseEarly(s, m) PROVE FALSE
    <2>1. s \notin called /\ called' = called /\ response'[s] = Refusal(m) /\ Refusal(m) # Absent
      BY <1>1, <1>3 DEF RefuseEarly, Receive, Respond, StagesInOrder
    <2>2. Refusal(m).step \notin {"schema", "handler"}
      BY <2>1 DEF Refusal, Fault
    <2> QED BY <2>1, <2>2 DEF PastAuth
  <1>4. ASSUME NEW m \in Messages, ProceedWithoutAuth(s, m) PROVE FALSE
    <2>1. message'[s] = m /\ ~NeedsAuth(m)
      BY <1>1, <1>4 DEF ProceedWithoutAuth, Receive
    <2> QED BY <2>1 DEF NeedsAuth, Entry
  <1>5. ASSUME NEW m \in Messages, AwaitLock(s, m) PROVE FALSE
    BY <1>1, <1>5 DEF AwaitLock, Receive, StagesInOrder, PastAuth
  <1>6. ASSUME RefuseToken(s) \/ RefuseReplay(s) PROVE FALSE
    BY <1>1, <1>6
       DEF RefuseToken, RefuseReplay, TokenFault, Respond, Fault, StagesInOrder, PastAuth
  <1>7. ASSUME HandlerReturns(s) PROVE PastAuth(s) /\ message'[s] = message[s]
    BY <1>1, <1>7 DEF HandlerReturns, StagesInOrder, PastAuth
  <1>8. ASSUME NEW r \in Requests, r # s, Arrive(r) \/ Validate(r) \/ HandlerReturns(r)
        PROVE  PastAuth(s) /\ message'[s] = message[s]
    <2>1. ASSUME NEW m \in Messages, RefuseEarly(r, m) \/ ProceedWithoutAuth(r, m) \/ AwaitLock(r, m)
          PROVE  message'[s] = message[s] /\ response'[s] = response[s] /\ (s \in called' => s \in called)
      BY <1>1, <1>8, <2>1, Proceeds
         DEF RefuseEarly, ProceedWithoutAuth, AwaitLock, Receive, Respond
    <2>2. ASSUME Validate(r)
          PROVE  message'[s] = message[s] /\ response'[s] = response[s] /\ (s \in called' => s \in called)
      BY <1>1, <1>8, <2>2, Proceeds
         DEF Validate, RefuseToken, RefuseReplay, TokenFault, AdmitWithoutNonce, LookUpNonce,
             InsertNonce, Respond
    <2>3. ASSUME HandlerReturns(r)
          PROVE  message'[s] = message[s] /\ response'[s] = response[s] /\ (s \in called' => s \in called)
      BY <1>1, <1>8, <2>3 DEF HandlerReturns, Respond
    <2> QED BY <1>2, <1>8, <2>1, <2>2, <2>3 DEF Arrive
  <1>9. ASSUME NEW r \in Requests, Acquire(r) \/ LookUpNonce(r) \/ Drop(r)
        PROVE  PastAuth(s) /\ message'[s] = message[s]
    BY <1>2, <1>9 DEF Acquire, LookUpNonce, Drop
  <1>10. CASE UNCHANGED <<message, response, called>>
    BY <1>2, <1>10
  <1> QED BY <1>3, <1>4, <1>5, <1>6, <1>7, <1>8, <1>9, <1>10
          DEF Next, Arrive, Validate, Time, vars

(* The steps that admit a token admit it as the sequential validator does. *)
LEMMA AdmittedByAuth ==
    ASSUME IInv, NEW r \in Requests, AdmitWithoutNonce(r) \/ InsertNonce(r)
    PROVE  AuthProofs!Admit(Token(r)) /\ Token(r) \in Tokens
  <1>1. Token(r) \in Tokens
    BY TokenPresent DEF AdmitWithoutNonce, InsertNonce
  <1>2. CASE InsertNonce(r)
    BY <1>1, <1>2, InsertionAdmits, SameValidation
  <1>3. CASE AdmitWithoutNonce(r)
    BY <1>1, <1>3, SameValidation DEF AdmitWithoutNonce
  <1> QED BY <1>1, <1>2, <1>3

(* Whoever is past authentication was admitted.                            *)
LEMMA PastAuthKept == IInv /\ [Next]_vars => PastAuthAdmitted'
  <1> SUFFICES ASSUME IInv, [Next]_vars, NEW s \in Requests, PastAuth(s)', NeedsAuth(message[s])'
               PROVE  Token(s)' \in admitted'
    BY DEF PastAuthAdmitted
  <1>1. admitted \subseteq admitted'
    BY StepValidates, SameValidation
       DEF AuthProofs!Next, AuthProofs!vars, AuthProofs!Tick, AuthProofs!AdjustWallClock,
           AuthProofs!ValidateUsernameToken, AuthProofs!Refuse, AuthProofs!RefuseReplay,
           AuthProofs!Admit
  <1>2. CASE PastAuth(s) /\ message'[s] = message[s]
    <2>1. NeedsAuth(message[s]) /\ Token(s)' = Token(s)
      BY <1>2 DEF NeedsAuth, Entry, Token
    <2> QED BY <1>1, <1>2, <2>1 DEF IInv, PastAuthAdmitted
  <1>3. CASE AdmitWithoutNonce(s) \/ InsertNonce(s)
    <2>1. message' = message /\ admitted' = admitted \cup {Token(s)}
      BY <1>3 DEF AdmitWithoutNonce, InsertNonce, Auth!Admit
    <2> QED BY <2>1 DEF Token
  <1> QED BY <1>2, <1>3, GetsPastAuth

(* The nonces accepted since another one are others.                       *)
LEMMA OthersAfterKept == IInv /\ [Next]_vars => OthersAfter'
  <1> SUFFICES ASSUME IInv, [Auth!Next]_(Auth!vars) PROVE OthersAfter'
    BY StepValidates, SameValidation DEF Auth!vars, AuthProofs!vars
  <1>1. OthersAfter
    BY DEF IInv
  <1>2. CASE acceptedAfter' = acceptedAfter
    BY <1>1, <1>2 DEF OthersAfter
  <1>3. ASSUME NEW n, Auth!Cache!Accept(n) PROVE OthersAfter'
    BY <1>1, <1>3 DEF OthersAfter, Auth!Cache!Accept, Auth!Cache!RecordAcceptance
  <1> QED BY <1>2, <1>3
          DEF Auth!Next, Auth!vars, Auth!Tick, Auth!Cache!Tick, Auth!AdjustWallClock,
              Auth!ValidateUsernameToken, Auth!Refuse, Auth!RefuseReplay, Auth!Admit,
              Auth!cacheVars, Auth!Cache!Reject, Auth!Cache!history

(* An idle pipeline is sound.                                              *)
LEMMA InitSound == Init => IInv
  <1> SUFFICES ASSUME Init PROVE IInv
    OBVIOUS
  <1>1. Auth!IInv
    BY ValidationAssumed, AuthProofs!InitSound, SameValidation, SameInvariant DEF Init
  <1>2. TypeOK
    <2>1. cache \in Auth!Cache!Caches
      BY <1>1 DEF Auth!IInv, Auth!TypeOK, Auth!Cache!TypeOK
    <2> QED BY <1>1, <2>1 DEF Init, TypeOK, Auth!IInv, Stages
  <1>3. ToSet(queue) = {} /\ Distinct(queue)
    BY DEF Init, ToSet, Distinct
  <1>4. LockDiscipline
    BY <1>3 DEF Init, LockDiscipline, Distinct
  <1>5. StagesInOrder /\ LookUpCurrent
    BY DEF Init, StagesInOrder, LookUpCurrent
  <1>6. AnswerVersion /\ PastAuthAdmitted
    BY DEF Init, AnswerVersion, PastAuthAdmitted, PastAuth
  <1>7. OthersAfter
    BY DEF Init, OthersAfter, Auth!Init, Auth!Cache!Init
  <1> QED BY <1>1, <1>2, <1>4, <1>5, <1>6, <1>7 DEF IInv

(* Every step keeps the invariant.                                         *)
LEMMA StepSound == IInv /\ [Next]_vars => IInv'
  BY ValidationKept, TypesKept, LockKept, StagesKept, LookUpKept, AnswersKept, PastAuthKept,
     OthersAfterKept DEF IInv

-----------------------------------------------------------------------------
(* The invariant of the pipeline holds throughout every behaviour.         *)
THEOREM PipelineInvariant == Spec => []IInv
  BY InitSound, StepSound, PTL DEF Spec

(* Every variable of the pipeline keeps its type.                          *)
THEOREM TypeCorrect == Spec => []TypeOK
  <1>1. IInv => TypeOK
    BY DEF IInv
  <1> QED BY PipelineInvariant, <1>1, PTL

(* The mutex of the nonce cache is never held by two requests, nor by one  *)
(* that has gone away or gone on to its handler, and never forgets a       *)
(* waiter: however many requests there are.                                *)
THEOREM MutexSound == Spec => []LockDiscipline
  <1>1. IInv => LockDiscipline
    BY DEF IInv
  <1> QED BY PipelineInvariant, <1>1, PTL

(* Answers are in the version of the envelope, and successes come from the *)
(* application's handlers only.                                            *)
THEOREM AnswersInVersion == Spec => []AnswerVersion
  <1>1. IInv => AnswerVersion
    BY DEF IInv
  <1> QED BY PipelineInvariant, <1>1, PTL

(* Concurrent requests validate their tokens as if one after the other:    *)
(* the pipeline implements UsernameToken, the look-up of a nonce and its   *)
(* insertion being one step of it.                                         *)
THEOREM ValidationLinearizable == Spec => Linearizable
  <1>1. Init => Auth!Init
    BY DEF Init
  <1>2. IInv /\ [Next]_vars => [Auth!Next]_(Auth!vars)
    BY StepValidates, SameValidation DEF Auth!vars, AuthProofs!vars
  <1> QED BY PipelineInvariant, <1>1, <1>2, PTL DEF Spec, Linearizable, Auth!Spec

(* Fewer nonces than a bucket holds cannot fill one.                       *)
LEMMA NoFlood ==
    ASSUME IInv, IsFiniteSet(Nonces), Cardinality(Nonces) <= MaxEntries, NEW n \in Nonces
    PROVE  ~(Cardinality(acceptedAfter[n]) >= MaxEntries)
  <1>1. acceptedAfter[n] \subseteq Nonces \ {n} /\ MaxEntries \in Nat
    BY ServiceAssumption DEF IInv, OthersAfter, TypeOK, Auth!TypeOK, Auth!Cache!TypeOK, Auth!ValidationConstants
  <1>2. /\ IsFiniteSet(Nonces \ {n}) /\ Cardinality(Nonces \ {n}) = Cardinality(Nonces) - 1
        /\ Cardinality(Nonces) \in Nat
    BY FS_RemoveElement, FS_CardinalityType
  <1>3. /\ Cardinality(acceptedAfter[n]) <= Cardinality(Nonces \ {n})
        /\ Cardinality(acceptedAfter[n]) \in Nat
    BY <1>1, <1>2, FS_Subset, FS_CardinalityType
  <1> QED BY <1>1, <1>2, <1>3

(* Where the half window covers the freshness interval and no bucket can   *)
(* overflow, a token with a nonce takes one request past authentication    *)
(* and no other, whatever the interleaving of any number of requests.      *)
THEOREM TokensUsedOnce ==
    ASSUME IsFiniteSet(Nonces)
    PROVE  Spec => []TokenUsedOnce
  <1>1. Init => TokenUsedOnce
    BY DEF Init, TokenUsedOnce, PastAuth
  <1>2. IInv /\ TokenUsedOnce /\ [Next]_vars => TokenUsedOnce'
    <2>1. SUFFICES ASSUME IInv, TokenUsedOnce, [Next]_vars,
                          Auth!WindowCoversTolerance, Cardinality(Nonces) <= MaxEntries,
                          NEW r \in Requests, NEW s \in Requests, r # s,
                          PastAuth(r)', PastAuth(s)',
                          NeedsAuth(message[r])', NeedsAuth(message[s])',
                          Token(r)' = Token(s)', Token(r)'.nonce # Absent
                   PROVE  FALSE
      BY DEF TokenUsedOnce, Auth!WindowCoversTolerance
    <2>2. ASSUME NEW t \in Requests, message'[t] = message[t]
          PROVE  Token(t)' = Token(t) /\ (NeedsAuth(message[t])' <=> NeedsAuth(message[t]))
      BY <2>2 DEF Token, NeedsAuth, Entry
    <2>3. ASSUME NEW p \in Requests, NEW q \in Requests, p # q,
                 AdmitWithoutNonce(p) \/ InsertNonce(p),
                 Token(p)' = Token(q)', Token(p)'.nonce # Absent,
                 PastAuth(q)', NeedsAuth(message[q])'
          PROVE  FALSE
      <3>1. message' = message /\ (pc[p] = "locked" \/ pc[p] = "inserting")
        BY <2>3 DEF AdmitWithoutNonce, InsertNonce
      <3>2. ~AdmitWithoutNonce(q) /\ ~InsertNonce(q)
        BY <2>1, <2>3, <3>1, Alone DEF AdmitWithoutNonce, InsertNonce
      <3>3. PastAuth(q)
        BY <2>1, <2>3, <3>2, GetsPastAuth
      <3>4. NeedsAuth(message[q]) /\ Token(p) = Token(q) /\ Token(p).nonce # Absent
        BY <2>2, <2>3, <3>1
      <3>5. Token(p) \in admitted
        BY <2>1, <3>3, <3>4 DEF IInv, PastAuthAdmitted
      <3>6. AuthProofs!Admit(Token(p)) /\ Token(p) \in Tokens
        BY <2>1, <2>3, AdmittedByAuth
      <3>7. AuthProofs!Cardinality(acceptedAfter[Token(p).nonce]) >= MaxEntries
        BY <2>1, <3>4, <3>5, <3>6, ValidationAssumed, AuthProofs!ReadmittedAfterFlood,
           SameInvariant, SameChecks DEF IInv
      <3>8. Token(p).nonce \in Nonces
        BY <3>4, <3>6, ServiceAssumption DEF Auth!ValidationConstants
      <3>9. ~(Cardinality(acceptedAfter[Token(p).nonce]) >= MaxEntries)
        BY <2>1, <3>8, NoFlood
      <3> QED BY <3>7, <3>9, SameFiniteSets
    <2>4. PastAuth(r) /\ message'[r] = message[r]
      BY <2>1, <2>3, GetsPastAuth
    <2>5. PastAuth(s) /\ message'[s] = message[s]
      BY <2>1, <2>3, GetsPastAuth
    <2> QED BY <2>1, <2>2, <2>4, <2>5 DEF TokenUsedOnce
  <1> QED BY PipelineInvariant, <1>1, <1>2, PTL DEF Spec
=============================================================================
