----------------------------- MODULE NonceCache -----------------------------
(***************************************************************************)
(* The two-bucket rotating nonce cache of src/wssec/nonce_cache.rs         *)
(* (RotatingNonceCache), the replay detector of WS-Security.               *)
(*                                                                         *)
(* One call of check_and_insert is one action.  The tokio mutex around the *)
(* cache makes it atomic (module SoapService models the mutex); the loop   *)
(* inside rotate_if_needed is unrolled in module NonceCacheLoop, which     *)
(* refines this module.                                                    *)
(*                                                                         *)
(* Time is a count of ticks, as fine as one likes: HalfWindow is the half  *)
(* window measured in ticks.  The code compares whole elapsed seconds with *)
(* a whole number of seconds, which is the same comparison.                *)
(***************************************************************************)
EXTENDS Integers, FiniteSets

CONSTANTS
    Nonces,       \* the nonce strings clients send
    HalfWindow,   \* half_window_secs, in ticks
    MaxEntries,   \* max_entries, the capacity of one bucket
    MaxTime       \* bound of the model: the clock stops here

(* With a half window of 0 the loop of rotate_if_needed would never end;   *)
(* ServerBuilder always passes 150.  Any capacity is allowed, 0 included.  *)
ASSUME CacheAssumption ==
    /\ HalfWindow \in Nat \ {0}
    /\ MaxEntries \in Nat
    /\ MaxTime \in Nat

VARIABLES
    clock,        \* the monotonic clock, Instant::now()
    cache,        \* the RotatingNonceCache
    accepted,     \* history: the nonces accepted so far
    acceptedAt,   \* history: when each of them was last accepted
    acceptedAfter \* history: the nonces accepted since then

history == <<accepted, acceptedAt, acceptedAfter>>
vars == <<clock, cache, accepted, acceptedAt, acceptedAfter>>

Caches == [current : SUBSET Nonces, previous : SUBSET Nonces, bucketStart : Nat]

TypeOK ==
    /\ clock \in Nat
    /\ cache \in Caches
    /\ accepted \subseteq Nonces
    /\ acceptedAt \in [Nonces -> Nat]
    /\ acceptedAfter \in [Nonces -> SUBSET Nonces]

-----------------------------------------------------------------------------
(* The operations of the cache, as functions of its value and the time.    *)

(* A new cache starts one half window in the past.                         *)
MutantNewCache(now) ==
    [current |-> {}, previous |-> {}, bucketStart |-> now - HalfWindow]

NewCache(now) == [current |-> {}, previous |-> {}, bucketStart |-> now]

(* current becomes previous, and a fresh bucket starts at `start'.         *)
RotateTo(c, start) ==
    [current |-> {}, previous |-> c.current, bucketStart |-> start]

(* A rotation that forgets only one bucket however long the cache was idle *)
(* (the code before the while loop of BLOCK-SS-C02).                       *)
MutantRotateOnce(c, now) ==
    IF now - c.bucketStart < HalfWindow THEN c ELSE RotateTo(c, now)

(* A rotation that never happens.                                          *)
MutantNeverRotate(c, now) == c

(* rotate_if_needed: one rotation per elapsed half window, so that after   *)
(* two of them both buckets are empty; the bucket boundaries stay on       *)
(* multiples of the half window from the first.                            *)
RotateIfNeeded(c, now) ==
    LET elapsed == now - c.bucketStart
        start   == now - (elapsed % HalfWindow)
    IN  CASE elapsed < HalfWindow -> c
          [] elapsed >= HalfWindow /\ elapsed < 2 * HalfWindow -> RotateTo(c, start)
          [] elapsed >= 2 * HalfWindow -> NewCache(start)

(* Only the current bucket is searched.                                    *)
MutantSearchCurrentOnly(c) == c.current

Remembered(c) == c.current \cup c.previous

(* The capacity is tested one entry too late.                              *)
MutantFullTooLate(c) == Cardinality(c.current) > MaxEntries

Full(c) == Cardinality(c.current) >= MaxEntries

(* A full bucket is rotated out before the insertion.                      *)
MakeRoom(c, now) == IF Full(c) THEN RotateTo(c, now) ELSE c

Insert(c, n) == [c EXCEPT !.current = @ \cup {n}]

-----------------------------------------------------------------------------
Init ==
    /\ clock = 0
    /\ cache = NewCache(0)
    /\ accepted = {}
    /\ acceptedAt = [n \in Nonces |-> 0]
    /\ acceptedAfter = [n \in Nonces |-> {}]

Tick ==
    /\ clock < MaxTime
    /\ clock' = clock + 1
    /\ UNCHANGED <<cache, history>>

(* check_and_insert(n) returns the replay fault.  The rotation happened.   *)
Reject(n) ==
    LET rotated == RotateIfNeeded(cache, clock)
    IN  /\ n \in Remembered(rotated)
        /\ cache' = rotated
        /\ UNCHANGED <<clock, history>>

RecordAcceptance(n) ==
    /\ accepted' = accepted \cup {n}
    /\ acceptedAt' = [acceptedAt EXCEPT ![n] = clock]
    /\ acceptedAfter' = [m \in Nonces |-> IF m = n THEN {} ELSE acceptedAfter[m] \cup {n}]

(* check_and_insert(n) returns Ok.                                         *)
Accept(n) ==
    LET rotated == RotateIfNeeded(cache, clock)
    IN  /\ n \notin Remembered(rotated)
        /\ cache' = Insert(MakeRoom(rotated, clock), n)
        /\ RecordAcceptance(n)
        /\ UNCHANGED clock

CheckAndInsert(n) == Reject(n) \/ Accept(n)

Next == Tick \/ \E n \in Nonces : CheckAndInsert(n)

Spec == Init /\ [][Next]_vars

-----------------------------------------------------------------------------
(* Properties.                                                             *)

(* A bucket never outgrows its capacity: "at most 2 * max_entries nonces   *)
(* are held at once" (nonce_cache.rs:7; a bucket of capacity 0 still holds *)
(* the nonce it was just given).                                           *)
CapacityRespected(c) ==
    LET capacity == IF MaxEntries = 0 THEN 1 ELSE MaxEntries
    IN  /\ Cardinality(c.current) <= capacity
        /\ Cardinality(c.previous) <= capacity

BucketsBounded == CapacityRespected(cache)

(* A nonce is accepted again only when at least half a window has passed   *)
(* since its last acceptance, or when so many other nonces came after it   *)
(* that they filled a bucket.                                              *)
Reacceptable(n) ==
    \/ n \notin accepted
    \/ clock - acceptedAt[n] >= HalfWindow
    \/ Cardinality(acceptedAfter[n]) >= MaxEntries

ReplayRejected == [][\A n \in Nonces : Accept(n) => Reacceptable(n)]_vars

(* Nothing is taken for a replay two half windows after it was accepted:   *)
(* the while loop of rotate_if_needed evicts stale nonces however long the *)
(* server was idle (regression BLOCK-SS-C02), and a nonce never accepted   *)
(* is never a replay.                                                      *)
NoSpuriousReplay ==
    \A n \in Remembered(RotateIfNeeded(cache, clock)) :
        /\ n \in accepted
        /\ clock - acceptedAt[n] < 2 * HalfWindow

(* What README.md:125 and nonce_cache.rs:12 say of the window: a nonce is  *)
(* remembered for two half windows ("150 s -> 300 s total window") as long *)
(* as no bucket overflows.  The code guarantees one half window only: this *)
(* one does not hold, and no run checks it.                                *)
FullWindowRemembered ==
    \A n \in accepted :
        clock - acceptedAt[n] < 2 * HalfWindow
        => \/ n \in Remembered(RotateIfNeeded(cache, clock))
           \/ Cardinality(acceptedAfter[n]) >= MaxEntries

-----------------------------------------------------------------------------
(* The inductive invariant behind the safety properties, stated of a cache  *)
(* value c so that it can be followed through a call of check_and_insert:  *)
(* it holds of the cache before the call, of the rotated cache, of the     *)
(* cache with room made in it, and of the cache after the call.            *)

(* Where in time the nonces of each bucket were accepted.                  *)
BucketTimes(c) ==
    /\ c.bucketStart <= clock
    /\ \A n \in c.current :
          /\ c.bucketStart <= acceptedAt[n]
          /\ acceptedAt[n] < c.bucketStart + HalfWindow
    /\ \A n \in c.previous :
          /\ c.bucketStart - HalfWindow <= acceptedAt[n]
          /\ acceptedAt[n] <= c.bucketStart

(* The current bucket was filled after everything that is not in it.       *)
BucketOrder(c) ==
    /\ Remembered(c) \subseteq accepted
    /\ \A n \in accepted \ c.current : c.current \subseteq acceptedAfter[n]

(* What the cache no longer holds may be accepted again.                   *)
ForgottenReacceptable(c) ==
    \A n \in Nonces : n \notin Remembered(c) => Reacceptable(n)

BucketsFinite(c) == IsFiniteSet(c.current) /\ IsFiniteSet(c.previous)

Sound(c) ==
    /\ c \in Caches
    /\ BucketTimes(c)
    /\ BucketOrder(c)
    /\ ForgottenReacceptable(c)
    /\ BucketsFinite(c)
    /\ CapacityRespected(c)

HistorySound ==
    \A n \in Nonces : acceptedAt[n] <= clock /\ IsFiniteSet(acceptedAfter[n])

IInv == TypeOK /\ HistorySound /\ Sound(cache)
=============================================================================
