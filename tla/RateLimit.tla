------------------------------ MODULE RateLimit ------------------------------
(***************************************************************************)
(* The token buckets of packages/core/src/rate-limit.ts, held in a bounded *)
(* table per key as the handler holds them: one table for requests, keyed  *)
(* by the application (throttleStage), one for mounts, keyed by the        *)
(* session (takeMountTokens).  A take is one synchronous call.             *)
(*                                                                         *)
(* Abstraction.  The clock is in milliseconds and tokens in thousandths,   *)
(* so that the refill of elapsed / 1000 * refillPerSec tokens is a whole   *)
(* number.  The clock is the system's: it may be set back.                 *)
(***************************************************************************)
EXTENDS Integers, Sequences, SequencesExt

CONSTANTS
    Keys,          \* the application's keys, or session ids
    Capacity,      \* of the limit
    RefillPerSec,  \* of the limit
    MaxKeys,       \* MAX_THROTTLE_KEYS
    Costs,         \* tokens asked for at once
    Times,         \* readings of Date.now() to consider
    MaxForward     \* bound: how far the clock moves forward in a behaviour

ASSUME RateLimitConstantsOK ==
    /\ Capacity \in Nat /\ RefillPerSec \in Nat /\ MaxForward \in Nat
    /\ MaxKeys \in Nat \ {0}
    /\ Costs \subseteq Nat /\ Times \subseteq Int /\ Times # {}

VARIABLES
    clock,    \* Date.now()
    order,    \* the keys held, oldest first
    bucket,   \* per key: [tokens, last]; of no meaning for a key not held
    forward,  \* history: the sum of the clock's forward movements
    spent,    \* history: tokens taken from the bucket of a key in its window
    since     \* history: `forward` when the window of a key began

rateVars == <<clock, order, bucket, forward, spent, since>>

Scale == 1000
FullBucket == Scale * Capacity
Gain(ms) == RefillPerSec * ms
Positive(x) == IF x > 0 THEN x ELSE 0
Held == Range(order)

Fresh(now) == [tokens |-> FullBucket, last |-> now]
Elapsed(b, now) == Positive(now - b.last)
(* Mutant: the burst is not a bound on what is saved up.                   *)
RefilledUncapped(b, now) == b.tokens + Gain(Elapsed(b, now))
Refilled(b, now) ==
    LET t == b.tokens + Gain(Elapsed(b, now)) IN IF t > FullBucket THEN FullBucket ELSE t
Enough(b, n, now) == Refilled(b, now) >= Scale * n
Charge(b, n, now) == IF Enough(b, n, now) THEN Scale * n ELSE 0

(* takeN: refill, and take n or nothing.                                   *)
TakeN(b, n, now) ==
    [tokens |-> Refilled(b, now) - Charge(b, n, now), last |-> now]

RateInit ==
    /\ clock \in Times
    /\ order = <<>> /\ forward = 0
    /\ bucket = [k \in Keys |-> Fresh(clock)]
    /\ spent = [k \in Keys |-> 0] /\ since = [k \in Keys |-> 0]

Tick(t) ==
    /\ forward + Positive(t - clock) <= MaxForward
    /\ clock' = t
    /\ forward' = forward + Positive(t - clock)
    /\ UNCHANGED <<order, bucket, spent, since>>

(* The table makes room for a new key by dropping the oldest.              *)
Room == IF Len(order) >= MaxKeys THEN Tail(order) ELSE order

TakeHeld(k, n) ==
    /\ k \in Held
    /\ bucket' = [bucket EXCEPT ![k] = TakeN(bucket[k], n, clock)]
    /\ spent' = [spent EXCEPT ![k] = @ + (IF Enough(bucket[k], n, clock) THEN n ELSE 0)]
    /\ UNCHANGED <<clock, order, forward, since>>

TakeFresh(k, n) ==
    /\ k \notin Held
    /\ order' = Append(Room, k)
    /\ bucket' = [bucket EXCEPT ![k] = TakeN(Fresh(clock), n, clock)]
    /\ spent' = [spent EXCEPT ![k] = IF Enough(Fresh(clock), n, clock) THEN n ELSE 0]
    /\ since' = [since EXCEPT ![k] = forward]
    /\ UNCHANGED <<clock, forward>>

(* A window to look at a kept bucket through begins now.                   *)
Watch(k) ==
    /\ k \in Held
    /\ spent' = [spent EXCEPT ![k] = 0]
    /\ since' = [since EXCEPT ![k] = forward]
    /\ UNCHANGED <<clock, order, bucket, forward>>

RateNext ==
    \/ \E t \in Times : Tick(t)
    \/ \E k \in Keys, n \in Costs : TakeHeld(k, n) \/ TakeFresh(k, n)
    \/ \E k \in Keys : Watch(k)

RateSpec == RateInit /\ [][RateNext]_rateVars
-----------------------------------------------------------------------------
(* Every variable has its type; the tokens are between nothing and a burst *)
(* (TokenBucket), and the table is bounded (MAX_THROTTLE_KEYS).            *)
RateTypeOK ==
    /\ clock \in Times
    /\ order \in Seq(Keys) /\ Len(order) <= MaxKeys
    /\ bucket \in [Keys -> [tokens : 0 .. FullBucket, last : Times]]
    /\ forward \in Nat
    /\ spent \in [Keys -> Nat] /\ since \in [Keys -> Nat]

(* As long as its bucket is kept, a key gets in any window of time at most *)
(* the burst and the refill of that time, however long it was idle before; *)
(* a batch of mounts is charged in full or not at all.  Time the clock was *)
(* set back over counts again (takeN takes the new reading as its last).   *)
RateBounded ==
    \A k \in Held : Scale * spent[k] <= FullBucket + Gain(forward - since[k])

(* What makes it inductive: nor do the tokens a take would find now and    *)
(* what was spent add up to more.                                          *)
Accounted ==
    \A k \in Held :
        Refilled(bucket[k], clock) + Scale * spent[k] <= FullBucket + Gain(forward - since[k])
=============================================================================
