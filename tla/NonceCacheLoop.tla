--------------------------- MODULE NonceCacheLoop ---------------------------
(***************************************************************************)
(* check_and_insert (src/wssec/nonce_cache.rs) with the while loop of      *)
(* rotate_if_needed step by step.  The loop reads the clock anew in every  *)
(* iteration, so time may pass during a call; the call then behaves like   *)
(* the atomic one of module NonceCache made when the loop ends.            *)
(***************************************************************************)
EXTENDS NonceCache

CONSTANT Absent  \* no call in progress

VARIABLES
    argument,    \* the nonce check_and_insert is being called with, or Absent
    before       \* history: the cache when that call began

loopVars == <<vars, argument, before>>

Calling == argument # Absent

(* The atomic cache: a call in progress has not happened yet.              *)
Atomic == INSTANCE NonceCache WITH cache <- IF Calling THEN before ELSE cache

LoopInit ==
    /\ Init
    /\ argument = Absent
    /\ before = cache

LoopTick == Tick /\ UNCHANGED <<argument, before>>

Call(n) ==
    /\ ~Calling
    /\ argument' = n
    /\ before' = cache
    /\ UNCHANGED <<clock, cache, history>>

WindowElapsed == clock - cache.bucketStart >= HalfWindow

(* The new bucket starts now.                                              *)
MutantRotateToNow ==
    /\ Calling /\ WindowElapsed
    /\ cache' = RotateTo(cache, clock)
    /\ UNCHANGED <<clock, history, argument, before>>

(* The start of the bucket is not moved.                                   *)
MutantRotateInPlace ==
    /\ Calling /\ WindowElapsed
    /\ cache' = RotateTo(cache, cache.bucketStart)
    /\ UNCHANGED <<clock, history, argument, before>>

(* One iteration of the loop.                                              *)
RotateOnce ==
    /\ Calling /\ WindowElapsed
    /\ cache' = RotateTo(cache, cache.bucketStart + HalfWindow)
    /\ UNCHANGED <<clock, history, argument, before>>

(* The loop has ended: look-up, room, insertion, return.  The last reading *)
(* of the clock, by which the loop ends, and that at which a full bucket   *)
(* is rotated out (Instant::now) are taken for one.                        *)
Return ==
    /\ Calling /\ ~WindowElapsed
    /\ IF argument \in Remembered(cache)
       THEN UNCHANGED <<cache, history>>
       ELSE /\ cache' = Insert(MakeRoom(cache, clock), argument)
            /\ RecordAcceptance(argument)
    /\ argument' = Absent
    /\ UNCHANGED <<clock, before>>

LoopNext == LoopTick \/ (\E n \in Nonces : Call(n)) \/ RotateOnce \/ Return

(* The caller's thread keeps running; nothing is assumed of the clock.     *)
LoopSpec == LoopInit /\ [][LoopNext]_loopVars /\ WF_loopVars(RotateOnce) /\ WF_loopVars(Return)

-----------------------------------------------------------------------------
(* Properties.                                                             *)

(* However long the cache was idle and whatever time the loop itself       *)
(* takes, the iterations amount to the rotation of module NonceCache: two  *)
(* elapsed half windows empty both buckets, and the bucket boundaries stay *)
(* whole half windows apart.                                               *)
ImplementsNonceCache == Atomic!Spec

(* The loop ends: check_and_insert returns, so the mutex around it is      *)
(* given back.                                                             *)
CallReturns == Calling ~> ~Calling

-----------------------------------------------------------------------------
(* Why it does: the iterations made so far, k of them, took whole half     *)
(* windows off the cache of the call, none of which had not elapsed.       *)
RotatedTimes(k) ==
    /\ cache.bucketStart = before.bucketStart + k * HalfWindow
    /\ k = 0 => cache = before
    /\ k >= 1 => cache.current = {} /\ cache.bucketStart <= clock
    /\ k = 1 => cache.previous = before.current
    /\ k >= 2 => cache.previous = {}

LoopInv ==
    /\ clock \in Nat
    /\ cache \in Caches
    /\ before \in Caches
    /\ Calling => argument \in Nonces /\ \E k \in Nat : RotatedTimes(k)
=============================================================================
