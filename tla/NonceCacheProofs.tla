-------------------------- MODULE NonceCacheProofs --------------------------
(***************************************************************************)
(* Proofs of the safety properties of NonceCache, for every set of nonces, *)
(* every half window of at least one tick, every capacity and every bound  *)
(* on the clock; and that the loop of rotate_if_needed, with time passing  *)
(* between its iterations (NonceCacheLoop), implements NonceCache.         *)
(***************************************************************************)
EXTENDS NonceCacheLoop, TLAPS, FiniteSetTheorems

(* The remainder of a span of time by the half window is shorter than the  *)
(* half window, and is what is left after one half window when the span is *)
(* at least one and less than two of them.                                 *)
LEMMA Remainder ==
    ASSUME NEW elapsed \in Nat
    PROVE  /\ elapsed % HalfWindow \in 0 .. HalfWindow - 1
           /\ elapsed % HalfWindow <= elapsed
           /\ elapsed >= HalfWindow /\ elapsed < 2 * HalfWindow
              => elapsed % HalfWindow = elapsed - HalfWindow
  <1>0. HalfWindow \in Nat /\ HalfWindow > 0
    BY CacheAssumption
  <1> DEFINE q == elapsed \div HalfWindow
             r == elapsed % HalfWindow
  <1>1. q \in Int /\ r \in 0 .. HalfWindow - 1 /\ elapsed = HalfWindow * q + r
    BY <1>0, Z3
  <1> HIDE DEF q, r
  <1>2. q >= 0
    <2>1. CASE q <= -1
      <3>1. HalfWindow * q <= -HalfWindow
        BY <1>0, <1>1, <2>1, SMT
      <3> QED BY <1>0, <1>1, <3>1, SMT
    <2> QED BY <1>1, <2>1
  <1>3. HalfWindow * q >= 0
    BY <1>0, <1>1, <1>2, SMT
  <1>4. ASSUME elapsed >= HalfWindow, elapsed < 2 * HalfWindow
        PROVE  r = elapsed - HalfWindow
    <2>1. CASE q >= 2
      <3>1. HalfWindow * q >= 2 * HalfWindow
        BY <1>0, <1>1, <2>1, SMT
      <3> QED BY <1>0, <1>1, <1>4, <3>1, SMT
    <2>2. CASE q = 0
      BY <1>0, <1>1, <1>4, <2>2, SMT
    <2>3. CASE q = 1
      BY <1>0, <1>1, <2>3, SMT
    <2> QED BY <1>1, <1>2, <2>1, <2>2, <2>3
  <1> QED BY <1>0, <1>1, <1>3, <1>4 DEF r

(* Rotation keeps a sound cache sound, and brings its current bucket up to *)
(* date: afterwards less than one half window has elapsed in it.           *)
LEMMA RotationSound ==
    ASSUME TypeOK, HistorySound, NEW c, Sound(c)
    PROVE  /\ Sound(RotateIfNeeded(c, clock))
           /\ clock < RotateIfNeeded(c, clock).bucketStart + HalfWindow
  <1> DEFINE elapsed == clock - c.bucketStart
             left == elapsed % HalfWindow
             start == clock - left
             rotated == RotateIfNeeded(c, clock)
  <1>0. /\ HalfWindow \in Nat /\ HalfWindow > 0 /\ MaxEntries \in Nat
        /\ clock \in Nat /\ acceptedAt \in [Nonces -> Nat]
    BY CacheAssumption DEF TypeOK
  <1>1. c \in Caches /\ BucketTimes(c) /\ BucketOrder(c) /\ ForgottenReacceptable(c)
        /\ BucketsFinite(c) /\ CapacityRespected(c)
    BY DEF Sound
  <1>2. elapsed \in Nat /\ c.bucketStart \in Nat
    BY <1>0, <1>1 DEF Caches, BucketTimes
  <1>3. /\ left \in 0 .. HalfWindow - 1
        /\ left <= elapsed
        /\ elapsed >= HalfWindow /\ elapsed < 2 * HalfWindow => left = elapsed - HalfWindow
    BY <1>2, Remainder
  <1> HIDE DEF left
  <1>4. start \in Nat /\ start <= clock /\ clock < start + HalfWindow
    BY <1>0, <1>1, <1>2, <1>3 DEF Caches
  <1>5. IsFiniteSet({}) /\ Cardinality({}) = 0
    BY FS_EmptySet
  <1>6. CASE elapsed < HalfWindow
    <2>1. rotated = c
      BY <1>6, <1>2, <1>0 DEF RotateIfNeeded
    <2> QED BY <2>1, <1>6, <1>0, <1>1 DEF Caches
  <1>7. CASE elapsed >= HalfWindow /\ elapsed < 2 * HalfWindow
    <2>1. rotated = [current |-> {}, previous |-> c.current, bucketStart |-> start]
      BY <1>7, <1>0, <1>2 DEF RotateIfNeeded, RotateTo, left
    <2>2. start = c.bucketStart + HalfWindow
      BY <1>0, <1>2, <1>3, <1>7
    <2> HIDE DEF rotated, start
    <2>3. rotated \in Caches
      BY <2>1, <1>1, <1>4 DEF Caches
    <2>4. BucketTimes(rotated)
      BY <2>1, <2>2, <1>0, <1>1, <1>4, <1>2 DEF BucketTimes, Caches
    <2>5. BucketOrder(rotated)
      BY <2>1, <1>1 DEF BucketOrder, Remembered
    <2>6. ForgottenReacceptable(rotated)
      <3>1. SUFFICES ASSUME NEW n \in Nonces, n \notin c.current
                     PROVE  Reacceptable(n)
        BY <2>1 DEF ForgottenReacceptable, Remembered
      <3>2. CASE n \in c.previous
        <4>1. acceptedAt[n] <= c.bucketStart /\ acceptedAt[n] \in Nat
          BY <1>0, <1>1, <3>2 DEF BucketTimes
        <4> QED BY <4>1, <1>0, <1>2, <1>7 DEF Reacceptable
      <3>3. CASE n \notin c.previous
        BY <1>1, <3>1, <3>3 DEF ForgottenReacceptable, Remembered
      <3> QED BY <3>2, <3>3
    <2>7. BucketsFinite(rotated) /\ CapacityRespected(rotated)
      BY <2>1, <1>0, <1>1, <1>5 DEF BucketsFinite, CapacityRespected
    <2>8. clock < rotated.bucketStart + HalfWindow
      BY <2>1, <1>4
    <2> QED BY <2>3, <2>4, <2>5, <2>6, <2>7, <2>8 DEF Sound, rotated
  <1>8. CASE elapsed >= 2 * HalfWindow
    <2>1. rotated = [current |-> {}, previous |-> {}, bucketStart |-> start]
      <3>1. ~(elapsed < HalfWindow) /\ ~(elapsed < 2 * HalfWindow)
        BY <1>8, <1>0, <1>2
      <3> QED BY <3>1, <1>8 DEF RotateIfNeeded, NewCache, left
    <2> HIDE DEF rotated, start
    <2>2. rotated \in Caches
      BY <2>1, <1>4 DEF Caches
    <2>3. BucketTimes(rotated)
      BY <2>1, <1>4 DEF BucketTimes
    <2>4. BucketOrder(rotated)
      BY <2>1 DEF BucketOrder, Remembered
    <2>5. ForgottenReacceptable(rotated)
      <3>1. SUFFICES ASSUME NEW n \in Nonces
                     PROVE  Reacceptable(n)
        BY DEF ForgottenReacceptable
      <3>2. CASE n \in Remembered(c)
        <4>1. acceptedAt[n] <= c.bucketStart + HalfWindow /\ acceptedAt[n] \in Nat
          BY <1>0, <1>1, <1>2, <3>2 DEF BucketTimes, Remembered
        <4> QED BY <4>1, <1>0, <1>2, <1>8 DEF Reacceptable
      <3>3. CASE n \notin Remembered(c)
        BY <1>1, <3>3 DEF ForgottenReacceptable
      <3> QED BY <3>2, <3>3
    <2>6. BucketsFinite(rotated) /\ CapacityRespected(rotated)
      BY <2>1, <1>0, <1>5 DEF BucketsFinite, CapacityRespected
    <2>7. clock < rotated.bucketStart + HalfWindow
      BY <2>1, <1>4
    <2> QED BY <2>2, <2>3, <2>4, <2>5, <2>6, <2>7 DEF Sound, rotated
  <1> QED BY <1>0, <1>2, <1>6, <1>7, <1>8

(* Making room in a sound, freshly rotated cache keeps it sound, leaves    *)
(* less than one half window elapsed in its current bucket, and leaves     *)
(* that bucket empty or below its capacity.                                *)
LEMMA MakeRoomSound ==
    ASSUME TypeOK, HistorySound, NEW c, Sound(c), clock < c.bucketStart + HalfWindow
    PROVE  LET roomy == MakeRoom(c, clock)
           IN  /\ Sound(roomy)
               /\ clock < roomy.bucketStart + HalfWindow
               /\ roomy.current = {} \/ Cardinality(roomy.current) < MaxEntries
               /\ Remembered(roomy) \subseteq Remembered(c)
  <1>0. /\ HalfWindow \in Nat /\ HalfWindow > 0 /\ MaxEntries \in Nat
        /\ clock \in Nat /\ acceptedAt \in [Nonces -> Nat]
        /\ acceptedAfter \in [Nonces -> SUBSET Nonces]
    BY CacheAssumption DEF TypeOK
  <1>1. c \in Caches /\ BucketTimes(c) /\ BucketOrder(c) /\ ForgottenReacceptable(c)
        /\ BucketsFinite(c) /\ CapacityRespected(c)
    BY DEF Sound
  <1>2. c.bucketStart \in Nat /\ c.current \subseteq Nonces
    BY <1>1 DEF Caches
  <1>3. Cardinality(c.current) \in Nat
    BY <1>1, FS_CardinalityType DEF BucketsFinite
  <1>4. CASE ~Full(c)
    <2>1. MakeRoom(c, clock) = c
      BY <1>4 DEF MakeRoom
    <2>2. Cardinality(c.current) < MaxEntries
      BY <1>0, <1>3, <1>4 DEF Full
    <2> QED BY <2>1, <2>2
  <1>5. CASE Full(c)
    <2> DEFINE roomy == MakeRoom(c, clock)
    <2>1. roomy = [current |-> {}, previous |-> c.current, bucketStart |-> clock]
      BY <1>5 DEF MakeRoom, RotateTo
    <2> HIDE DEF roomy
    <2>2. roomy \in Caches
      BY <2>1, <1>0, <1>2 DEF Caches
    <2>3. BucketTimes(roomy)
      <3>1. ASSUME NEW n \in c.current
            PROVE  clock - HalfWindow <= acceptedAt[n] /\ acceptedAt[n] <= clock
        <4>1. c.bucketStart <= acceptedAt[n] /\ acceptedAt[n] \in Nat
          BY <1>0, <1>1, <1>2 DEF BucketTimes
        <4>2. acceptedAt[n] <= clock
          BY <1>2 DEF HistorySound
        <4> QED BY <4>1, <4>2, <1>0, <1>2
      <3> QED BY <2>1, <3>1, <1>0 DEF BucketTimes
    <2>4. BucketOrder(roomy)
      BY <2>1, <1>1 DEF BucketOrder, Remembered
    <2>5. ForgottenReacceptable(roomy)
      <3>1. SUFFICES ASSUME NEW n \in Nonces, n \notin c.current
                     PROVE  Reacceptable(n)
        BY <2>1 DEF ForgottenReacceptable, Remembered
      <3>2. CASE n \in accepted
        <4>1. c.current \subseteq acceptedAfter[n] /\ IsFiniteSet(acceptedAfter[n])
          BY <1>1, <3>1, <3>2 DEF BucketOrder, HistorySound
        <4>2. /\ Cardinality(c.current) <= Cardinality(acceptedAfter[n])
              /\ Cardinality(acceptedAfter[n]) \in Nat
          BY <4>1, FS_Subset, FS_CardinalityType
        <4>3. Cardinality(acceptedAfter[n]) >= MaxEntries
          BY <4>2, <1>0, <1>3, <1>5 DEF Full
        <4> QED BY <4>3 DEF Reacceptable
      <3>3. CASE n \notin accepted
        BY <3>3 DEF Reacceptable
      <3> QED BY <3>2, <3>3
    <2>6. BucketsFinite(roomy) /\ CapacityRespected(roomy)
      BY <2>1, <1>0, <1>1, FS_EmptySet DEF BucketsFinite, CapacityRespected
    <2>7. clock < roomy.bucketStart + HalfWindow
      BY <2>1, <1>0
    <2>8. roomy.current = {} /\ Remembered(roomy) \subseteq Remembered(c)
      BY <2>1 DEF Remembered
    <2> QED BY <2>2, <2>3, <2>4, <2>5, <2>6, <2>7, <2>8 DEF Sound, roomy
  <1> QED BY <1>4, <1>5

-----------------------------------------------------------------------------
(* The initial cache is sound.                                             *)
LEMMA InitSound == Init => IInv
  <1> SUFFICES ASSUME Init PROVE IInv
    OBVIOUS
  <1>0. HalfWindow \in Nat /\ HalfWindow > 0 /\ MaxEntries \in Nat
    BY CacheAssumption
  <1>1. TypeOK
    BY DEF Init, TypeOK, NewCache, Caches
  <1>2. HistorySound
    BY FS_EmptySet DEF Init, HistorySound
  <1>3. Sound(cache)
    <2>1. cache \in Caches /\ BucketTimes(cache) /\ BucketOrder(cache)
      BY DEF Init, NewCache, Caches, BucketTimes, BucketOrder, Remembered
    <2>2. ForgottenReacceptable(cache)
      BY DEF Init, ForgottenReacceptable, Reacceptable
    <2>3. BucketsFinite(cache) /\ CapacityRespected(cache)
      BY <1>0, FS_EmptySet DEF Init, NewCache, BucketsFinite, CapacityRespected
    <2> QED BY <2>1, <2>2, <2>3 DEF Sound
  <1> QED BY <1>1, <1>2, <1>3 DEF IInv

(* The passage of time keeps a sound cache sound.                          *)
LEMMA TickSound == IInv /\ Tick => IInv'
  <1> SUFFICES ASSUME IInv, Tick PROVE IInv'
    OBVIOUS
  <1>0. /\ HalfWindow \in Nat /\ MaxEntries \in Nat
        /\ TypeOK /\ HistorySound /\ Sound(cache)
    BY CacheAssumption DEF IInv
  <1>1. /\ clock \in Nat /\ clock' = clock + 1
        /\ UNCHANGED <<cache, accepted, acceptedAt, acceptedAfter>>
        /\ acceptedAt \in [Nonces -> Nat]
    BY <1>0 DEF Tick, history, TypeOK
  <1>2. TypeOK'
    BY <1>0, <1>1 DEF TypeOK
  <1>3. HistorySound'
    BY <1>0, <1>1 DEF HistorySound
  <1>4. Sound(cache)'
    <2>1. (cache \in Caches)' /\ BucketOrder(cache)' /\ BucketsFinite(cache)'
          /\ CapacityRespected(cache)'
      BY <1>0, <1>1 DEF Sound, BucketOrder, BucketsFinite, CapacityRespected, Remembered
    <2>2. BucketTimes(cache)'
      BY <1>0, <1>1 DEF Sound, BucketTimes, Caches
    <2>3. ForgottenReacceptable(cache)'
      BY <1>0, <1>1 DEF Sound, ForgottenReacceptable, Reacceptable, Remembered
    <2> QED BY <2>1, <2>2, <2>3 DEF Sound
  <1> QED BY <1>2, <1>3, <1>4 DEF IInv

(* A rejected call only rotates.                                           *)
LEMMA RejectSound == ASSUME NEW n \in Nonces PROVE IInv /\ Reject(n) => IInv'
  <1> SUFFICES ASSUME IInv, Reject(n) PROVE IInv'
    OBVIOUS
  <1> DEFINE rotated == RotateIfNeeded(cache, clock)
  <1>1. Sound(rotated)
    BY RotationSound DEF IInv
  <1> HIDE DEF rotated
  <1>2. cache' = rotated /\ UNCHANGED <<clock, accepted, acceptedAt, acceptedAfter>>
    BY DEF Reject, history, rotated
  <1>3. Sound(cache)'
    BY <1>1, <1>2 DEF Sound, Caches, BucketTimes, BucketOrder, Remembered,
                      ForgottenReacceptable, Reacceptable, BucketsFinite, CapacityRespected
  <1>4. TypeOK' /\ HistorySound'
    BY <1>2, <1>3 DEF IInv, TypeOK, HistorySound, Sound
  <1> QED BY <1>3, <1>4 DEF IInv

(* An accepted call rotates, makes room, and inserts.                      *)
LEMMA AcceptSound == ASSUME NEW n \in Nonces PROVE IInv /\ Accept(n) => IInv'
  <1> SUFFICES ASSUME IInv, Accept(n) PROVE IInv'
    OBVIOUS
  <1> DEFINE rotated == RotateIfNeeded(cache, clock)
             roomy == MakeRoom(rotated, clock)
  <1>0. /\ HalfWindow \in Nat /\ HalfWindow > 0 /\ MaxEntries \in Nat
        /\ TypeOK /\ HistorySound
        /\ clock \in Nat /\ acceptedAt \in [Nonces -> Nat]
        /\ acceptedAfter \in [Nonces -> SUBSET Nonces] /\ accepted \subseteq Nonces
    BY CacheAssumption DEF IInv, TypeOK
  <1>1. Sound(rotated) /\ clock < rotated.bucketStart + HalfWindow
    BY RotationSound DEF IInv
  <1>2. /\ n \notin Remembered(rotated)
        /\ cache' = Insert(roomy, n)
        /\ accepted' = accepted \cup {n}
        /\ acceptedAt' = [acceptedAt EXCEPT ![n] = clock]
        /\ acceptedAfter' = [m \in Nonces |-> IF m = n THEN {} ELSE acceptedAfter[m] \cup {n}]
        /\ clock' = clock
    BY DEF Accept, RecordAcceptance
  <1> HIDE DEF rotated
  <1>3. /\ Sound(roomy)
        /\ clock < roomy.bucketStart + HalfWindow
        /\ roomy.current = {} \/ Cardinality(roomy.current) < MaxEntries
        /\ Remembered(roomy) \subseteq Remembered(rotated)
    BY <1>0, <1>1, MakeRoomSound
  <1> HIDE DEF roomy
  <1>4. /\ roomy \in Caches /\ BucketTimes(roomy) /\ BucketOrder(roomy)
        /\ ForgottenReacceptable(roomy) /\ BucketsFinite(roomy) /\ CapacityRespected(roomy)
    BY <1>3 DEF Sound
  <1>5. /\ cache' \in Caches
        /\ cache'.current = roomy.current \cup {n}
        /\ cache'.previous = roomy.previous
        /\ cache'.bucketStart = roomy.bucketStart
        /\ roomy.bucketStart \in Nat
    BY <1>2, <1>4 DEF Insert, Caches
  <1>6. n \notin roomy.current /\ n \notin roomy.previous
    BY <1>2, <1>3 DEF Remembered
  <1>7. /\ acceptedAt'[n] = clock
        /\ \A k \in Nonces : k # n => /\ acceptedAt'[k] = acceptedAt[k]
                                    /\ acceptedAfter'[k] = acceptedAfter[k] \cup {n}
    BY <1>0, <1>2
  <1>8. TypeOK'
    BY <1>0, <1>2, <1>5 DEF TypeOK
  <1>9. HistorySound'
    <2>1. ASSUME NEW k \in Nonces
          PROVE  acceptedAt'[k] <= clock' /\ IsFiniteSet(acceptedAfter'[k])
      <3>1. CASE k = n
        BY <3>1, <1>0, <1>2, <1>7, FS_EmptySet
      <3>2. CASE k # n
        BY <3>2, <1>0, <1>2, <1>7, FS_AddElement DEF HistorySound
      <3> QED BY <3>1, <3>2
    <2> QED BY <2>1 DEF HistorySound
  <1>10. BucketTimes(cache)'
    <2>1. ASSUME NEW k \in cache'.current
          PROVE  /\ cache'.bucketStart <= acceptedAt'[k]
                 /\ acceptedAt'[k] < cache'.bucketStart + HalfWindow
      BY <1>0, <1>3, <1>4, <1>5, <1>7 DEF BucketTimes, Caches
    <2>2. ASSUME NEW k \in cache'.previous
          PROVE  /\ cache'.bucketStart - HalfWindow <= acceptedAt'[k]
                 /\ acceptedAt'[k] <= cache'.bucketStart
      <3>1. k \in Nonces /\ k # n
        BY <1>4, <1>5, <1>6 DEF Caches
      <3> QED BY <3>1, <1>4, <1>5, <1>7 DEF BucketTimes
    <2> QED BY <2>1, <2>2, <1>2, <1>4, <1>5 DEF BucketTimes
  <1>11. BucketOrder(cache)'
    <2>1. Remembered(cache') \subseteq accepted'
      BY <1>2, <1>4, <1>5 DEF BucketOrder, Remembered
    <2>2. ASSUME NEW k \in accepted' \ cache'.current
          PROVE  cache'.current \subseteq acceptedAfter'[k]
      <3>1. k \in accepted \ roomy.current /\ k \in Nonces /\ k # n
        BY <1>0, <1>2, <1>5
      <3> QED BY <3>1, <1>4, <1>5, <1>7 DEF BucketOrder
    <2> QED BY <2>1, <2>2 DEF BucketOrder, Remembered
  <1>12. ForgottenReacceptable(cache)'
    <2>1. SUFFICES ASSUME NEW k \in Nonces, k \notin Remembered(cache')
                   PROVE  Reacceptable(k)'
      BY DEF ForgottenReacceptable, Remembered
    <2>2. k # n /\ k \notin Remembered(roomy)
      BY <2>1, <1>5 DEF Remembered
    <2>3. Reacceptable(k)
      BY <2>2, <1>4 DEF ForgottenReacceptable
    <2>4. CASE Cardinality(acceptedAfter[k]) >= MaxEntries
      <3>1. IsFiniteSet(acceptedAfter[k]) /\ IsFiniteSet(acceptedAfter'[k])
        BY <1>0, <1>9 DEF HistorySound
      <3>2. acceptedAfter[k] \subseteq acceptedAfter'[k]
        BY <2>2, <1>7
      <3>3. /\ Cardinality(acceptedAfter[k]) <= Cardinality(acceptedAfter'[k])
            /\ Cardinality(acceptedAfter[k]) \in Nat
            /\ Cardinality(acceptedAfter'[k]) \in Nat
        BY <3>1, <3>2, FS_Subset, FS_CardinalityType
      <3>4. Cardinality(acceptedAfter'[k]) >= MaxEntries
        BY <3>3, <2>4, <1>0
      <3> QED BY <3>4 DEF Reacceptable
    <2>5. CASE k \notin accepted \/ clock - acceptedAt[k] >= HalfWindow
      BY <2>5, <2>2, <1>2, <1>7 DEF Reacceptable
    <2> QED BY <2>3, <2>4, <2>5 DEF Reacceptable
  <1>13. BucketsFinite(cache)' /\ CapacityRespected(cache)'
    <2>1. BucketsFinite(cache)'
      BY <1>4, <1>5, FS_AddElement DEF BucketsFinite
    <2>2. /\ Cardinality(cache'.current) = Cardinality(roomy.current) + 1
          /\ Cardinality(roomy.current) \in Nat
      BY <1>4, <1>5, <1>6, FS_AddElement, FS_CardinalityType DEF BucketsFinite
    <2>3. roomy.current = {} => Cardinality(roomy.current) = 0
      BY FS_EmptySet
    <2>4. Cardinality(cache'.current) <= (IF MaxEntries = 0 THEN 1 ELSE MaxEntries)
      BY <2>2, <2>3, <1>0, <1>3
    <2> QED BY <2>1, <2>4, <1>4, <1>5 DEF CapacityRespected
  <1>14. Sound(cache)'
    BY <1>5, <1>10, <1>11, <1>12, <1>13 DEF Sound, Caches
  <1> QED BY <1>8, <1>9, <1>14 DEF IInv

(* The inductive invariant: every step of the specification keeps it.      *)
LEMMA StepSound == IInv /\ [Next]_vars => IInv'
  <1> SUFFICES ASSUME IInv, [Next]_vars PROVE IInv'
    OBVIOUS
  <1>1. CASE Tick
    BY <1>1, TickSound
  <1>2. ASSUME NEW n \in Nonces, Reject(n) PROVE IInv'
    BY <1>2, RejectSound
  <1>3. ASSUME NEW n \in Nonces, Accept(n) PROVE IInv'
    BY <1>3, AcceptSound
  <1>4. CASE UNCHANGED vars
    BY <1>4 DEF vars, IInv, TypeOK, HistorySound, Sound, BucketTimes, BucketOrder,
                Remembered, ForgottenReacceptable, Reacceptable, BucketsFinite,
                CapacityRespected
  <1> QED BY <1>1, <1>2, <1>3, <1>4 DEF Next, CheckAndInsert

(* The inductive invariant holds throughout every behaviour.               *)
THEOREM CacheInvariant == Spec => []IInv
  BY InitSound, StepSound, PTL DEF Spec

(* Every variable keeps its type.                                          *)
THEOREM TypeCorrect == Spec => []TypeOK
  <1>1. IInv => TypeOK
    BY DEF IInv
  <1> QED BY CacheInvariant, <1>1, PTL

(* However many nonces arrive, and whatever the capacity, no bucket of the *)
(* cache outgrows it.                                                      *)
THEOREM MemoryBounded == Spec => []BucketsBounded
  <1>1. IInv => BucketsBounded
    BY DEF IInv, Sound, BucketsBounded
  <1> QED BY CacheInvariant, <1>1, PTL

(* What the rotated cache remembers was accepted less than two half windows*)
(* ago.                                                                    *)
LEMMA RememberedRecent == IInv => NoSpuriousReplay
  <1> SUFFICES ASSUME IInv, NEW n \in Remembered(RotateIfNeeded(cache, clock))
               PROVE  n \in accepted /\ clock - acceptedAt[n] < 2 * HalfWindow
    BY DEF NoSpuriousReplay
  <1> DEFINE rotated == RotateIfNeeded(cache, clock)
  <1>1. Sound(rotated) /\ clock < rotated.bucketStart + HalfWindow
    BY RotationSound DEF IInv
  <1> HIDE DEF rotated
  <1>2. rotated \in Caches /\ BucketTimes(rotated) /\ BucketOrder(rotated)
    BY <1>1 DEF Sound
  <1>3. HalfWindow \in Nat /\ clock \in Nat /\ acceptedAt \in [Nonces -> Nat]
        /\ accepted \subseteq Nonces /\ rotated.bucketStart \in Nat
    BY <1>2, CacheAssumption DEF IInv, TypeOK, Caches
  <1>4. n \in rotated.current \cup rotated.previous /\ n \in accepted
    BY <1>2 DEF BucketOrder, Remembered, rotated
  <1>5. rotated.bucketStart - HalfWindow <= acceptedAt[n]
    BY <1>2, <1>3, <1>4 DEF BucketTimes
  <1> QED BY <1>1, <1>3, <1>4, <1>5

(* What a call accepts may be accepted.                                    *)
LEMMA AcceptedReacceptable ==
    ASSUME NEW n \in Nonces PROVE IInv /\ Accept(n) => Reacceptable(n)
  <1> SUFFICES ASSUME IInv, Accept(n) PROVE Reacceptable(n)
    OBVIOUS
  <1>1. Sound(RotateIfNeeded(cache, clock))
    BY RotationSound DEF IInv
  <1> QED BY <1>1 DEF Accept, Sound, ForgottenReacceptable

(* No nonce is taken for a replay two half windows after its acceptance,   *)
(* however long the server was idle.                                       *)
THEOREM StaleNoncesEvicted == Spec => []NoSpuriousReplay
  BY CacheInvariant, RememberedRecent, PTL

(* A nonce is accepted a second time only after half a window, or after a  *)
(* bucketful of other nonces.                                              *)
THEOREM ReplaysRejected == Spec => ReplayRejected
  <1>1. IInv /\ [Next]_vars => [\A n \in Nonces : Accept(n) => Reacceptable(n)]_vars
    BY AcceptedReacceptable
  <1> QED BY CacheInvariant, <1>1, PTL DEF Spec, ReplayRejected

-----------------------------------------------------------------------------
(* The loop.                                                               *)

(* The remainder of a span of k half windows and less than another.        *)
LEMMA Quotient ==
    ASSUME NEW k \in Nat, NEW elapsed \in Nat,
           k * HalfWindow <= elapsed, elapsed < k * HalfWindow + HalfWindow
    PROVE  elapsed % HalfWindow = elapsed - k * HalfWindow
  <1>0. HalfWindow \in Nat /\ HalfWindow > 0
    BY CacheAssumption
  <1> DEFINE q == elapsed \div HalfWindow
             r == elapsed % HalfWindow
  <1>1. q \in Int /\ r \in 0 .. HalfWindow - 1 /\ elapsed = HalfWindow * q + r
    BY <1>0, Z3
  <1> HIDE DEF q, r
  <1>2. CASE q > k
    <2>1. HalfWindow * q >= k * HalfWindow + HalfWindow
      <3>1. HalfWindow * (q - (k + 1)) >= 0
        BY <1>0, <1>1, <1>2, SMT
      <3>2. HalfWindow * q = HalfWindow * (q - (k + 1)) + k * HalfWindow + HalfWindow
        BY <1>0, <1>1, Z3
      <3> QED BY <1>0, <1>1, <3>1, <3>2, SMT
    <2> QED BY <1>0, <1>1, <2>1, SMT
  <1>3. CASE q < k
    <2>1. HalfWindow * q <= k * HalfWindow - HalfWindow
      <3>1. HalfWindow * (k - 1 - q) >= 0
        BY <1>0, <1>1, <1>3, SMT
      <3>2. k * HalfWindow = HalfWindow * (k - 1 - q) + HalfWindow * q + HalfWindow
        BY <1>0, <1>1, Z3
      <3> QED BY <1>0, <1>1, <3>1, <3>2, SMT
    <2> QED BY <1>0, <1>1, <2>1, SMT
  <1>4. CASE q = k
    BY <1>0, <1>1, <1>4, SMT
  <1> QED BY <1>1, <1>2, <1>3, <1>4 DEF r

(* A new cache, not being called, is sound.                                *)
LEMMA LoopInitSound == LoopInit => LoopInv
  BY DEF LoopInit, Init, NewCache, Caches, LoopInv, Calling

(* What insertion leaves is a cache.                                       *)
LEMMA InsertTyped ==
    ASSUME NEW c \in Caches, NEW now \in Nat, NEW n \in Nonces
    PROVE  Insert(MakeRoom(c, now), n) \in Caches
  <1>1. MakeRoom(c, now) \in Caches
    BY DEF MakeRoom, RotateTo, Caches
  <1> QED BY <1>1 DEF Insert, Caches

(* Every step keeps the invariant.                                         *)
LEMMA LoopStepSound == LoopInv /\ [LoopNext]_loopVars => LoopInv'
  <1> SUFFICES ASSUME LoopInv, [LoopNext]_loopVars PROVE LoopInv'
    OBVIOUS
  <1>0. HalfWindow \in Nat /\ HalfWindow > 0
    BY CacheAssumption
  <1>1. CASE LoopTick
    BY <1>1 DEF LoopTick, Tick, history, LoopInv, Calling, RotatedTimes, Caches
  <1>2. ASSUME NEW n \in Nonces, Call(n) PROVE LoopInv'
    <2>1. RotatedTimes(0)'
      BY <1>0, <1>2 DEF Call, RotatedTimes, LoopInv, Caches
    <2> QED BY <1>2, <2>1 DEF Call, LoopInv, Calling
  <1>3. CASE RotateOnce
    <2>1. PICK k \in Nat : RotatedTimes(k)
      BY <1>3 DEF RotateOnce, LoopInv
    <2>2. /\ cache'.current = {} /\ cache'.previous = cache.current
          /\ cache'.bucketStart = cache.bucketStart + HalfWindow
          /\ cache'.bucketStart <= clock /\ cache' \in Caches
          /\ UNCHANGED <<clock, argument, before>>
      BY <1>0, <1>3 DEF RotateOnce, WindowElapsed, RotateTo, Caches, LoopInv
    <2>3. (k + 1) * HalfWindow = k * HalfWindow + HalfWindow
      BY <1>0, Z3
    <2>4. cache'.bucketStart = before.bucketStart + (k + 1) * HalfWindow
      BY <1>0, <2>1, <2>2, <2>3 DEF RotatedTimes, LoopInv, Caches
    <2>5. RotatedTimes(k + 1)'
      BY <2>1, <2>2, <2>4 DEF RotatedTimes
    <2> QED BY <1>3, <2>2, <2>5 DEF LoopInv, Calling, RotateOnce
  <1>4. CASE Return
    <2>1. argument \in Nonces /\ ~Calling'
      BY <1>4 DEF Return, LoopInv, Calling
    <2>2. cache' \in Caches
      BY <1>4, <2>1, InsertTyped DEF Return, LoopInv
    <2> QED BY <1>4, <2>1, <2>2 DEF Return, LoopInv
  <1>5. CASE UNCHANGED loopVars
    BY <1>5 DEF loopVars, vars, LoopInv, Calling, RotatedTimes, Caches
  <1> QED BY <1>1, <1>2, <1>3, <1>4, <1>5 DEF LoopNext

(* When the loop ends, its iterations amount to the rotation in closed     *)
(* form of the cache the call began with.                                  *)
LEMMA LoopIsRotation ==
    ASSUME LoopInv, Calling, ~WindowElapsed
    PROVE  cache = Atomic!RotateIfNeeded(before, clock)
  <1>0. /\ HalfWindow \in Nat /\ HalfWindow > 0 /\ clock \in Nat
        /\ cache \in Caches /\ before \in Caches
        /\ cache.bucketStart \in Nat /\ before.bucketStart \in Nat
        /\ clock - cache.bucketStart < HalfWindow
    BY CacheAssumption DEF LoopInv, WindowElapsed, Caches
  <1>1. PICK k \in Nat : RotatedTimes(k)
    BY DEF LoopInv
  <1> DEFINE elapsed == clock - before.bucketStart
             start == clock - (elapsed % HalfWindow)
  <1>2. CASE k = 0
    <2>1. elapsed < HalfWindow /\ cache = before
      BY <1>0, <1>1, <1>2 DEF RotatedTimes
    <2> QED BY <1>0, <2>1 DEF Atomic!RotateIfNeeded
  <1>3. ASSUME k >= 1
        PROVE  /\ cache.bucketStart = start /\ cache.current = {} /\ elapsed >= HalfWindow
               /\ k = 1 => elapsed < 2 * HalfWindow
               /\ k >= 2 => elapsed >= 2 * HalfWindow
    <2>1. /\ cache.bucketStart = before.bucketStart + k * HalfWindow
          /\ cache.bucketStart <= clock /\ cache.current = {}
      BY <1>1, <1>3 DEF RotatedTimes
    <2>2. k * HalfWindow \in Nat /\ k * HalfWindow >= HalfWindow
          /\ (k >= 2 => k * HalfWindow >= 2 * HalfWindow)
      <3>1. k * HalfWindow \in Nat /\ (k - 1) * HalfWindow >= 0
        BY <1>0, <1>3, SMT
      <3>2. k * HalfWindow = (k - 1) * HalfWindow + HalfWindow
        BY <1>0, Z3
      <3>3. ASSUME k >= 2 PROVE (k - 2) * HalfWindow >= 0
        BY <1>0, <3>3, SMT
      <3>4. k * HalfWindow = (k - 2) * HalfWindow + 2 * HalfWindow
        BY <1>0, Z3
      <3> QED BY <1>0, <3>1, <3>2, <3>3, <3>4, SMT
    <2>3. /\ elapsed \in Nat /\ k * HalfWindow <= elapsed
          /\ elapsed < k * HalfWindow + HalfWindow
      BY <1>0, <2>1, <2>2
    <2>4. elapsed % HalfWindow = elapsed - k * HalfWindow
      BY <2>3, Quotient
    <2>5. cache.bucketStart = start
      BY <1>0, <2>1, <2>2, <2>4
    <2> QED BY <1>0, <1>3, <2>1, <2>2, <2>3, <2>5
  <1> HIDE DEF elapsed, start
  <1>4. CASE k = 1
    <2>1. cache = [current |-> {}, previous |-> before.current, bucketStart |-> start]
      BY <1>0, <1>1, <1>3, <1>4 DEF RotatedTimes, Caches
    <2>2. elapsed >= HalfWindow /\ elapsed < 2 * HalfWindow /\ elapsed \in Int
      BY <1>0, <1>3, <1>4 DEF elapsed
    <2> QED BY <1>0, <2>1, <2>2 DEF Atomic!RotateIfNeeded, Atomic!RotateTo, elapsed, start
  <1>5. CASE k >= 2
    <2>1. cache = [current |-> {}, previous |-> {}, bucketStart |-> start]
      BY <1>0, <1>1, <1>3, <1>5 DEF RotatedTimes, Caches
    <2>2. elapsed >= HalfWindow /\ elapsed >= 2 * HalfWindow /\ elapsed \in Int
      BY <1>0, <1>3, <1>5 DEF elapsed
    <2> QED BY <1>0, <2>1, <2>2 DEF Atomic!RotateIfNeeded, Atomic!NewCache, elapsed, start
  <1> QED BY <1>2, <1>4, <1>5

(* The insertion is that of the atomic cache.                              *)
LEMMA SameInsertion ==
    ASSUME NEW c, NEW now, NEW n
    PROVE  /\ Insert(MakeRoom(c, now), n) = Atomic!Insert(Atomic!MakeRoom(c, now), n)
           /\ Remembered(c) = Atomic!Remembered(c)
  <1>1. \A S : Cardinality(S) = Atomic!Cardinality(S)
    BY DEF Cardinality, Atomic!Cardinality, IsFiniteSet, Atomic!IsFiniteSet
  <1> QED BY <1>1 DEF Insert, Atomic!Insert, MakeRoom, Atomic!MakeRoom, RotateTo,
             Atomic!RotateTo, Full, Atomic!Full, Remembered, Atomic!Remembered

(* Every step is one of the atomic cache, or none.                         *)
LEMMA StepImplements == LoopInv /\ [LoopNext]_loopVars => [Atomic!Next]_(Atomic!vars)
  <1> SUFFICES ASSUME LoopInv, [LoopNext]_loopVars PROVE Atomic!Next \/ UNCHANGED Atomic!vars
    OBVIOUS
  <1>1. CASE LoopTick
    BY <1>1 DEF LoopTick, Tick, history, Atomic!Next, Atomic!Tick, Atomic!history, Calling
  <1>2. ASSUME NEW n \in Nonces, Call(n) PROVE UNCHANGED Atomic!vars
    BY <1>2 DEF Call, Calling, history, Atomic!vars
  <1>3. CASE RotateOnce
    BY <1>3 DEF RotateOnce, Calling, history, Atomic!vars
  <1>4. CASE Return
    <2>1. /\ Calling /\ ~Calling' /\ argument \in Nonces /\ clock' = clock
          /\ cache = Atomic!RotateIfNeeded(before, clock)
      BY <1>4, LoopIsRotation DEF Return, LoopInv, Calling
    <2>2. CASE argument \in Remembered(cache)
      <3>1. Atomic!Reject(argument)
        BY <1>4, <2>1, <2>2, SameInsertion DEF Return, Atomic!Reject, Atomic!history, history
      <3> QED BY <2>1, <3>1 DEF Atomic!Next, Atomic!CheckAndInsert
    <2>3. CASE argument \notin Remembered(cache)
      <3>1. Atomic!Accept(argument)
        BY <1>4, <2>1, <2>3, SameInsertion
           DEF Return, Atomic!Accept, RecordAcceptance, Atomic!RecordAcceptance
      <3> QED BY <2>1, <3>1 DEF Atomic!Next, Atomic!CheckAndInsert
    <2> QED BY <2>2, <2>3
  <1>5. CASE UNCHANGED loopVars
    BY <1>5 DEF loopVars, vars, Calling, Atomic!vars
  <1> QED BY <1>1, <1>2, <1>3, <1>4, <1>5 DEF LoopNext

(* The loop of rotate_if_needed implements the rotation in closed form:    *)
(* whatever was proved of NonceCache holds of check_and_insert as written. *)
THEOREM LoopImplementsNonceCache == LoopSpec => ImplementsNonceCache
  <1>1. LoopInit => Atomic!Init
    BY DEF LoopInit, Init, NewCache, Atomic!Init, Atomic!NewCache, Calling
  <1> QED BY LoopInitSound, LoopStepSound, StepImplements, <1>1, PTL
          DEF LoopSpec, ImplementsNonceCache, Atomic!Spec
=============================================================================
