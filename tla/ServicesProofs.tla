--------------------------- MODULE ServicesProofs ---------------------------
(***************************************************************************)
(* What the services promise: the rate limit (RateLimit), the bus (Bus),   *)
(* the reload of routes (Reload), the rows of a key (Persistence), the     *)
(* tables of the servers (Boot), the streams (Egress) and the pipeline of  *)
(* requests (Ingress), for any keys, limits, clocks, instances, entries,   *)
(* messages, saves, principals, files, clients, budgets, requests and      *)
(* bursts.  They share no variable; each part below has the inductive      *)
(* invariant of one of them, one lemma per operation, and its theorem, and *)
(* the last part states what they promise side by side.                    *)
(***************************************************************************)
EXTENDS Services, FilterProofs, TLAPS

-----------------------------------------------------------------------------
(* RateLimit.  RateBounded is not inductive: it says nothing of the tokens *)
(* a take would find.  Accounted adds them to what was spent: a tick of    *)
(* the clock adds to them at most what it adds to the bound, a take turns  *)
(* them into tokens spent, and a window begins with at most a burst.       *)

(* The refill of two stretches of time is the sum of their refills, and    *)
(* more time never refills less.                                           *)
LEMMA GainAdds ==
    ASSUME NEW x \in Int, NEW y \in Int
    PROVE  Gain(x + y) = Gain(x) + Gain(y) /\ Gain(x) \in Int /\ Gain(0) = 0
BY RateLimitConstantsOK DEF Gain

LEMMA GainGrows ==
    ASSUME NEW x \in Int, NEW y \in Int, x <= y
    PROVE  Gain(x) <= Gain(y)
<1>1. y - x \in Nat  OBVIOUS
<1>2. RefillPerSec * (y - x) >= 0  BY <1>1, RateLimitConstantsOK
<1>3. RefillPerSec * (y - x) = RefillPerSec * y - RefillPerSec * x
  BY RateLimitConstantsOK
<1> QED  BY <1>2, <1>3, RateLimitConstantsOK DEF Gain

LEMMA GainInt ==
    ASSUME NEW x \in Int
    PROVE  Gain(x) \in Int /\ (x >= 0 => Gain(x) >= 0)
<1>1. Gain(x) \in Int /\ Gain(0) = 0  BY GainAdds
<1>2. x >= 0 => Gain(0) <= Gain(x)  BY GainGrows
<1> QED  BY <1>1, <1>2

(* A bucket of tokens within the burst.                                    *)
Bucket == [tokens : 0 .. FullBucket, last : Times]

LEMMA FullNat == FullBucket \in Nat /\ Scale = 1000
BY RateLimitConstantsOK DEF FullBucket, Scale

LEMMA BucketParts ==
    ASSUME NEW b \in Bucket
    PROVE  b.tokens \in 0 .. FullBucket /\ b.tokens \in Nat /\ b.last \in Times /\ b.last \in Int
<1>1. b.tokens \in 0 .. FullBucket /\ b.last \in Times  BY DEF Bucket
<1>2. b.last \in Int  BY <1>1, RateLimitConstantsOK
<1>3. b.tokens \in Nat  BY <1>1, FullNat
<1> QED  BY <1>1, <1>2, <1>3

LEMMA ElapsedNat ==
    ASSUME NEW b \in Bucket, NEW now \in Times
    PROVE  Elapsed(b, now) \in Nat
<1>1. now - b.last \in Int
  <2>1. now \in Int  BY RateLimitConstantsOK
  <2> QED  BY <2>1, BucketParts
<1> QED  BY <1>1 DEF Elapsed, Positive

(* A refill stays within the burst and gives no more than the time is      *)
(* worth.                                                                  *)
LEMMA RefillBounded ==
    ASSUME NEW b \in Bucket, NEW now \in Times
    PROVE  /\ Refilled(b, now) \in 0 .. FullBucket
           /\ Refilled(b, now) <= b.tokens + Gain(Elapsed(b, now))
<1> DEFINE g == Gain(Elapsed(b, now))
<1>1. g \in Int /\ g >= 0
  BY ElapsedNat, GainInt
<1>2. b.tokens \in Int /\ b.tokens >= 0  BY BucketParts
<1>3. Refilled(b, now) = IF b.tokens + g > FullBucket THEN FullBucket ELSE b.tokens + g
  BY DEF Refilled
<1> HIDE DEF g
<1>4. Refilled(b, now) \in 0 .. FullBucket /\ Refilled(b, now) <= b.tokens + g
  BY <1>1, <1>2, <1>3, FullNat
<1> QED  BY <1>4 DEF g

(* Between two readings of the clock no more is refilled than the time     *)
(* that went by forward is worth.                                          *)
LEMMA RefillStep ==
    ASSUME NEW b \in Bucket, NEW c \in Times, NEW t \in Times
    PROVE  Refilled(b, t) <= Refilled(b, c) + Gain(Positive(t - c))
<1> DEFINE e == Elapsed(b, c)
           f == Elapsed(b, t)
           p == Positive(t - c)
<1>1. c \in Int /\ t \in Int /\ b.last \in Int /\ b.tokens \in Nat
  BY BucketParts, RateLimitConstantsOK
<1>2. e \in Nat /\ f \in Nat /\ p \in Nat /\ f <= e + p
  BY <1>1 DEF Elapsed, Positive
<1> HIDE DEF p
<1>3. Refilled(b, c) = IF b.tokens + Gain(e) > FullBucket THEN FullBucket ELSE b.tokens + Gain(e)
  BY DEF Refilled
<1>4. Refilled(b, t) = IF b.tokens + Gain(f) > FullBucket THEN FullBucket ELSE b.tokens + Gain(f)
  BY DEF Refilled
<1> HIDE DEF e, f
<1>5. Gain(f) <= Gain(e) + Gain(p)
  BY <1>2, GainAdds, GainGrows
<1>6. Gain(e) \in Int /\ Gain(f) \in Int /\ Gain(p) \in Int /\ Gain(p) >= 0
  BY <1>2, GainInt
<1>7. Refilled(b, t) <= Refilled(b, c) + Gain(p)
  BY <1>1, <1>3, <1>4, <1>5, <1>6, FullNat
<1> QED  BY <1>7 DEF p

(* A bucket just taken from has nothing to be refilled with.               *)
LEMMA RefillNow ==
    ASSUME NEW b \in Bucket, NEW now \in Times, b.last = now
    PROVE  Refilled(b, now) = b.tokens
<1>1. Elapsed(b, now) = 0
  BY RateLimitConstantsOK DEF Elapsed, Positive
<1>2. Gain(Elapsed(b, now)) = 0  BY <1>1, GainAdds
<1>3. Refilled(b, now) = IF b.tokens + 0 > FullBucket THEN FullBucket ELSE b.tokens + 0
  BY <1>2 DEF Refilled
<1>4. b.tokens \in 0 .. FullBucket  BY BucketParts
<1> QED  BY <1>3, <1>4, FullNat

(* A take leaves a bucket behind, and what it leaves and what it gives are *)
(* what there was after the refill.                                        *)
LEMMA TakeAccounts ==
    ASSUME NEW b \in Bucket, NEW now \in Times, NEW n \in Nat,
           NEW got, got = (IF Enough(b, n, now) THEN n ELSE 0)
    PROVE  /\ TakeN(b, n, now) \in Bucket
           /\ got \in Nat
           /\ Refilled(TakeN(b, n, now), now) + Scale * got = Refilled(b, now)
<1> DEFINE r == Refilled(b, now)
<1>1. r \in 0 .. FullBucket
  BY RefillBounded
<1>2. TakeN(b, n, now) = [tokens |-> r - Charge(b, n, now), last |-> now]
  BY DEF TakeN
<1>3. CASE Enough(b, n, now)
  <2>1. Charge(b, n, now) = 1000 * n /\ got = n /\ r >= 1000 * n
    BY <1>3, FullNat DEF Charge, Enough
  <2>2. r - 1000 * n \in 0 .. FullBucket
    BY <2>1, <1>1, FullNat
  <2> HIDE DEF r
  <2>3. /\ TakeN(b, n, now) \in Bucket /\ TakeN(b, n, now).last = now
        /\ TakeN(b, n, now).tokens = r - 1000 * n
    BY <2>1, <2>2, <1>2 DEF Bucket
  <2>4. Refilled(TakeN(b, n, now), now) = r - 1000 * n
    BY <2>3, RefillNow
  <2>5. r - 1000 * n + 1000 * n = r  BY <1>1, FullNat
  <2> QED  BY <2>1, <2>3, <2>4, <2>5, FullNat DEF r
<1>4. CASE ~Enough(b, n, now)
  <2>1. Charge(b, n, now) = 0 /\ got = 0
    BY <1>4 DEF Charge
  <2> HIDE DEF r
  <2>2. /\ TakeN(b, n, now) \in Bucket /\ TakeN(b, n, now).last = now
        /\ TakeN(b, n, now).tokens = r
    BY <2>1, <1>1, <1>2, FullNat DEF Bucket
  <2>3. Refilled(TakeN(b, n, now), now) = r
    BY <2>2, RefillNow
  <2> QED  BY <2>1, <2>2, <2>3, <1>1, FullNat DEF r
<1> QED  BY <1>3, <1>4

LEMMA FreshBucket ==
    ASSUME NEW now \in Times
    PROVE  Fresh(now) \in Bucket /\ Refilled(Fresh(now), now) = FullBucket
<1>1. Fresh(now) \in Bucket /\ Fresh(now).last = now /\ Fresh(now).tokens = FullBucket
  BY FullNat DEF Fresh, Bucket
<1> QED  BY <1>1, RefillNow

(* Making room drops a key and adds none.                                  *)
LEMMA RoomShrinks ==
    ASSUME order \in Seq(Keys), Len(order) <= MaxKeys, NEW k \in Keys
    PROVE  /\ Append(Room, k) \in Seq(Keys)
           /\ Len(Append(Room, k)) <= MaxKeys
           /\ Range(Append(Room, k)) \subseteq Held \cup {k}
<1>1. CASE Len(order) >= MaxKeys
  <2>1. order # <<>> /\ Room = Tail(order) /\ Tail(order) \in Seq(Keys) /\ Len(Tail(order)) = Len(order) - 1
    BY <1>1, RateLimitConstantsOK DEF Room
  <2>2. \A i \in 1 .. Len(Tail(order)) : Tail(order)[i] = order[i + 1] /\ i + 1 \in 1 .. Len(order)
    BY <2>1
  <2> QED  BY <2>1, <2>2, RateLimitConstantsOK DEF Range, Held
<1>2. CASE ~(Len(order) >= MaxKeys)
  <2>1. Room = order  BY <1>2 DEF Room
  <2> QED  BY <1>2, <2>1, RateLimitConstantsOK DEF Range, Held
<1> QED  BY <1>1, <1>2

RateInv == RateTypeOK /\ Accounted

LEMMA RateStarts == RateInit => RateInv
<1> SUFFICES ASSUME RateInit PROVE RateInv  OBVIOUS
<1>1. Held = {}  BY DEF RateInit, Held, Range
<1>2. \A k \in Keys : bucket[k] \in Bucket
  BY FreshBucket DEF RateInit
<1> QED  BY <1>1, <1>2, RateLimitConstantsOK DEF RateInit, RateInv, RateTypeOK, Accounted, Bucket

(* The clock moves: what a bucket would be refilled with grows by at most  *)
(* what the bound grows by.                                                *)
LEMMA TickKeeps ==
    ASSUME RateInv, NEW t \in Times, Tick(t)
    PROVE  RateInv'
<1> USE DEF RateInv
<1>1. clock' = t /\ clock \in Int /\ t \in Int /\ forward \in Nat
  BY RateLimitConstantsOK DEF Tick, RateTypeOK
<1>2. forward' \in Nat /\ forward' = forward + Positive(t - clock) /\ Positive(t - clock) \in Nat
  BY <1>1 DEF Tick, Positive
<1>3. RateTypeOK'
  BY <1>1, <1>2 DEF RateTypeOK, Tick
<1>4. Accounted'
  <2> SUFFICES ASSUME NEW k \in Held'
               PROVE  (Refilled(bucket[k], clock) + Scale * spent[k]
                        <= FullBucket + Gain(forward - since[k]))'
    BY DEF Accounted
  <2>1. k \in Held /\ k \in Keys /\ bucket' = bucket /\ spent' = spent /\ since' = since
    BY DEF Held, Range, Tick, RateTypeOK
  <2> DEFINE b == bucket[k]
             p == Positive(t - clock)
             a == forward - since[k]
  <2>2. b \in Bucket /\ spent[k] \in Nat /\ since[k] \in Nat /\ clock \in Times
    BY <2>1 DEF RateTypeOK, Bucket
  <2>3. Refilled(b, t) <= Refilled(b, clock) + Gain(p)
    BY <2>2, RefillStep
  <2>4. Refilled(b, clock) + Scale * spent[k] <= FullBucket + Gain(a)
    BY <2>1 DEF Accounted
  <2>5. a \in Int /\ p \in Nat /\ forward' - since[k] = a + p
    BY <1>1, <1>2, <2>2
  <2>6. Refilled(b, t) \in Int /\ Refilled(b, clock) \in Int
    BY <2>2, RefillBounded, FullNat
  <2> HIDE DEF b, p, a
  <2>7. Gain(a + p) = Gain(a) + Gain(p)
    BY <2>5, GainAdds
  <2>8. Gain(p) \in Int /\ Gain(a) \in Int
    BY <2>5, GainInt
  <2>9. Refilled(b, t) + Scale * spent[k] <= FullBucket + Gain(a + p)
    BY <2>2, <2>3, <2>4, <2>6, <2>7, <2>8, FullNat
  <2> QED  BY <1>1, <2>1, <2>5, <2>9 DEF b, Refilled, Elapsed, Gain, Positive, FullBucket, Scale
<1> QED  BY <1>3, <1>4

(* A take from a bucket that is kept.                                      *)
LEMMA TakeHeldKeeps ==
    ASSUME RateInv, NEW k \in Keys, NEW n \in Costs, TakeHeld(k, n)
    PROVE  RateInv'
<1> USE DEF RateInv
<1> DEFINE got == IF Enough(bucket[k], n, clock) THEN n ELSE 0
<1>1. n \in Nat /\ bucket[k] \in Bucket /\ clock \in Times
  BY RateLimitConstantsOK DEF RateTypeOK, Bucket
<1>2. /\ TakeN(bucket[k], n, clock) \in Bucket
      /\ got \in Nat
      /\ Refilled(TakeN(bucket[k], n, clock), clock) + Scale * got = Refilled(bucket[k], clock)
  BY <1>1, TakeAccounts
<1>3. bucket' = [bucket EXCEPT ![k] = TakeN(bucket[k], n, clock)]
      /\ spent' = [spent EXCEPT ![k] = @ + got]
      /\ clock' = clock /\ order' = order /\ forward' = forward /\ since' = since
  BY DEF TakeHeld
<1> HIDE DEF got
<1>4. RateTypeOK'
  BY <1>2, <1>3 DEF RateTypeOK, Bucket
<1>5. Accounted'
  <2> SUFFICES ASSUME NEW j \in Held'
               PROVE  (Refilled(bucket[j], clock) + Scale * spent[j]
                        <= FullBucket + Gain(forward - since[j]))'
    BY DEF Accounted
  <2>1. j \in Held /\ j \in Keys
    BY <1>3 DEF Held, Range, RateTypeOK
  <2>2. CASE j # k
    BY <2>1, <2>2, <1>3 DEF Accounted, RateTypeOK
  <2>3. CASE j = k
    <3>1. bucket'[j] = TakeN(bucket[k], n, clock) /\ spent'[j] = spent[k] + got
      BY <2>1, <2>3, <1>3 DEF RateTypeOK
    <3>2. Refilled(bucket[k], clock) + Scale * spent[k] <= FullBucket + Gain(forward - since[k])
      BY <2>1, <2>3 DEF Accounted
    <3> DEFINE x == Refilled(TakeN(bucket[k], n, clock), clock)
               y == Refilled(bucket[k], clock)
               h == Gain(forward - since[k])
               s == spent[k]
    <3>3. x \in Int /\ y \in Int /\ h \in Int /\ s \in Int
      <4>1. x \in Int /\ y \in Int  BY <1>1, <1>2, RefillBounded, FullNat
      <4>2. s \in Int /\ forward - since[k] \in Int  BY DEF RateTypeOK
      <4>3. h \in Int  BY <4>2, GainInt
      <4> QED  BY <4>1, <4>2, <4>3
    <3>4. x + Scale * got = y /\ y + Scale * s <= FullBucket + h
      BY <1>2, <3>2
    <3> HIDE DEF x, y, h, s
    <3>5. x + Scale * (s + got) <= FullBucket + h
      BY <3>3, <3>4, <1>2, FullNat
    <3> QED  BY <3>1, <3>5, <2>3, <1>3 DEF x, s, h, Refilled, Elapsed, Gain, Positive, FullBucket, Scale
  <2> QED  BY <2>2, <2>3
<1> QED  BY <1>4, <1>5

(* A take from a new bucket: the history of its key starts anew.           *)
LEMMA TakeFreshKeeps ==
    ASSUME RateInv, NEW k \in Keys, NEW n \in Costs, TakeFresh(k, n)
    PROVE  RateInv'
<1> USE DEF RateInv
<1> DEFINE b == TakeN(Fresh(clock), n, clock)
           got == IF Enough(Fresh(clock), n, clock) THEN n ELSE 0
<1>1. n \in Nat /\ clock \in Times /\ forward \in Nat
  BY RateLimitConstantsOK DEF RateTypeOK
<1>2. Fresh(clock) \in Bucket /\ Refilled(Fresh(clock), clock) = FullBucket
  BY <1>1, FreshBucket
<1>3. b \in Bucket /\ got \in Nat /\ Refilled(b, clock) + Scale * got = FullBucket
  BY <1>1, <1>2, TakeAccounts
<1>4. /\ order' = Append(Room, k)
      /\ bucket' = [bucket EXCEPT ![k] = b] /\ spent' = [spent EXCEPT ![k] = got]
      /\ since' = [since EXCEPT ![k] = forward]
      /\ clock' = clock /\ forward' = forward
  BY DEF TakeFresh
<1> HIDE DEF b, got
<1>5. /\ order' \in Seq(Keys) /\ Len(order') <= MaxKeys
      /\ Held' \subseteq Held \cup {k}
  BY <1>4, RoomShrinks DEF RateTypeOK, Held
<1>6. RateTypeOK'
  BY <1>1, <1>3, <1>4, <1>5 DEF RateTypeOK, Bucket
<1>7. Accounted'
  <2> SUFFICES ASSUME NEW j \in Held'
               PROVE  (Refilled(bucket[j], clock) + Scale * spent[j]
                        <= FullBucket + Gain(forward - since[j]))'
    BY DEF Accounted
  <2>1. j \in Keys /\ (j # k => j \in Held)
    <3>1. j \in Held \cup {k}  BY <1>5
    <3>2. Held \subseteq Keys  BY DEF Held, Range, RateTypeOK
    <3> QED  BY <3>1, <3>2
  <2>2. CASE j # k
    BY <2>1, <2>2, <1>4 DEF Accounted, RateTypeOK
  <2>3. CASE j = k
    <3>1. bucket'[j] = b /\ spent'[j] = got /\ since'[j] = forward
      BY <2>1, <2>3, <1>4 DEF RateTypeOK
    <3>2. forward - forward = 0 /\ Gain(0) = 0
      BY <1>1, GainAdds
    <3>3. Refilled(b, clock) \in Int
      BY <1>1, <1>3, RefillBounded, FullNat
    <3>4. Refilled(b, clock) + Scale * got <= FullBucket + Gain(forward - forward)
      BY <3>2, <3>3, <1>3, FullNat
    <3> QED  BY <3>1, <3>4, <1>4 DEF Refilled, Elapsed, Gain, Positive, FullBucket, Scale
  <2> QED  BY <2>2, <2>3
<1> QED  BY <1>6, <1>7

(* A window begins with at most a burst to take.                           *)
LEMMA WatchKeeps ==
    ASSUME RateInv, NEW k \in Keys, Watch(k)
    PROVE  RateInv'
<1> USE DEF RateInv
<1>1. /\ spent' = [spent EXCEPT ![k] = 0] /\ since' = [since EXCEPT ![k] = forward]
      /\ clock' = clock /\ order' = order /\ bucket' = bucket /\ forward' = forward
  BY DEF Watch
<1>2. RateTypeOK'
  BY <1>1 DEF RateTypeOK
<1>3. Accounted'
  <2> SUFFICES ASSUME NEW j \in Held'
               PROVE  (Refilled(bucket[j], clock) + Scale * spent[j]
                        <= FullBucket + Gain(forward - since[j]))'
    BY DEF Accounted
  <2>1. j \in Held /\ j \in Keys
    BY <1>1 DEF Held, Range, RateTypeOK
  <2>2. CASE j # k
    BY <2>1, <2>2, <1>1 DEF Accounted, RateTypeOK
  <2>3. CASE j = k
    <3>1. spent'[j] = 0 /\ since'[j] = forward /\ forward - forward = 0 /\ Gain(0) = 0
      BY <2>1, <2>3, <1>1, GainAdds DEF RateTypeOK
    <3>2. bucket[j] \in Bucket /\ clock \in Times
      BY <2>1 DEF RateTypeOK, Bucket
    <3>3. Refilled(bucket[j], clock) \in 0 .. FullBucket
      BY <3>2, RefillBounded
    <3>4. Refilled(bucket[j], clock) + Scale * 0 <= FullBucket + Gain(forward - forward)
      BY <3>1, <3>3, FullNat
    <3> QED  BY <3>1, <3>4, <1>1 DEF Refilled, Elapsed, Gain, Positive, FullBucket, Scale
  <2> QED  BY <2>2, <2>3
<1> QED  BY <1>2, <1>3

LEMMA RateKeeps == RateInv /\ [RateNext]_rateVars => RateInv'
<1> SUFFICES ASSUME RateInv, [RateNext]_rateVars PROVE RateInv'  OBVIOUS
<1>1. CASE UNCHANGED rateVars
  BY <1>1 DEF RateInv, RateTypeOK, Accounted, Held, rateVars
<1>2. CASE \E t \in Times : Tick(t)
  BY <1>2, TickKeeps
<1>3. CASE \E k \in Keys, n \in Costs : TakeHeld(k, n)
  BY <1>3, TakeHeldKeeps
<1>4. CASE \E k \in Keys, n \in Costs : TakeFresh(k, n)
  BY <1>4, TakeFreshKeeps
<1>5. CASE \E k \in Keys : Watch(k)
  BY <1>5, WatchKeeps
<1> QED  BY <1>1, <1>2, <1>3, <1>4, <1>5 DEF RateNext

LEMMA RatePromises == RateInv => RateBounded
<1> SUFFICES ASSUME RateInv, NEW k \in Held
             PROVE  Scale * spent[k] <= FullBucket + Gain(forward - since[k])
  BY DEF RateBounded
<1> DEFINE y == Refilled(bucket[k], clock)
           h == Gain(forward - since[k])
<1>1. k \in Keys  BY DEF RateInv, RateTypeOK, Held, Range
<1>2. bucket[k] \in Bucket /\ clock \in Times /\ spent[k] \in Nat
      /\ forward \in Nat /\ since[k] \in Nat
  BY <1>1 DEF RateInv, RateTypeOK, Bucket
<1>3. y \in Nat  BY <1>2, RefillBounded, FullNat
<1>4. h \in Int  BY <1>2, GainInt
<1>5. y + Scale * spent[k] <= FullBucket + h  BY DEF RateInv, Accounted
<1> HIDE DEF y, h
<1>6. Scale * spent[k] <= FullBucket + h  BY <1>2, <1>3, <1>4, <1>5, FullNat
<1> QED  BY <1>6 DEF h

(* RateTypeOK of RateLimit, for every table and limit.                         *)
THEOREM RateTypeCorrect == RateSpec => []RateTypeOK
<1>1. RateInv => RateTypeOK  BY DEF RateInv
<1> QED  BY RateStarts, RateKeeps, <1>1, PTL DEF RateSpec

(* RateBounded, for every table, limit and clock: in no window of time     *)
(* does a kept bucket give more than its burst and the refill (takeN).     *)
THEOREM RateBoundedAlways == RateSpec => []RateBounded
BY RateStarts, RateKeeps, RatePromises, PTL DEF RateSpec

-----------------------------------------------------------------------------
(* Sequences without repetition *)

Elements(s) == {s[k] : k \in 1 .. Len(s)}
Once(s) == \A j, k \in 1 .. Len(s) : j # k => s[j] # s[k]

LEMMA OnceMore ==
    ASSUME NEW S, NEW s \in Seq(S), NEW e \in S
    PROVE  /\ Append(s, e) \in Seq(S) /\ Elements(Append(s, e)) = Elements(s) \cup {e}
           /\ Once(s) /\ e \notin Elements(s) => Once(Append(s, e))
<1>1. /\ Len(s) \in Nat /\ Len(Append(s, e)) = Len(s) + 1 /\ Append(s, e) \in Seq(S)
      /\ \A i \in 1 .. Len(s) : Append(s, e)[i] = s[i]
      /\ Append(s, e)[Len(s) + 1] = e
  BY AppendProperties, LenProperties
<1> DEFINE a == Append(s, e)
           l == Len(s)
<1> HIDE DEF a, l
<1>2. \A i \in 1 .. l + 1 : i \in 1 .. l \/ i = l + 1  BY <1>1 DEF l
<1>3. l + 1 \in 1 .. l + 1 /\ \A i \in 1 .. l : i \in 1 .. l + 1  BY <1>1 DEF l
<1>4. Elements(a) = Elements(s) \cup {e}
  BY <1>1, <1>2, <1>3 DEF Elements, a, l
<1>5. ASSUME Once(s), e \notin Elements(s), NEW j \in 1 .. l + 1, NEW k \in 1 .. l + 1, j # k
      PROVE  a[j] # a[k]
  <2>1. \A i \in 1 .. l : a[i] = s[i] /\ s[i] # e  BY <1>1, <1>5 DEF Elements, a, l
  <2>2. a[l + 1] = e  BY <1>1 DEF a, l
  <2>3. \A x, y \in 1 .. l : x # y => s[x] # s[y]  BY <1>5 DEF Once, l
  <2> QED BY <1>2, <1>5, <2>1, <2>2, <2>3
<1> QED BY <1>1, <1>4, <1>5 DEF Once, a, l

LEMMA OnceLess ==
    ASSUME NEW S, NEW s \in Seq(S), s # <<>>
    PROVE  /\ Tail(s) \in Seq(S) /\ Head(s) \in S
           /\ Elements(s) = Elements(Tail(s)) \cup {Head(s)}
           /\ Once(s) => Once(Tail(s)) /\ Head(s) \notin Elements(Tail(s))
<1>1. /\ Len(s) \in Nat \ {0} /\ Len(Tail(s)) = Len(s) - 1 /\ Tail(s) \in Seq(S)
      /\ Head(s) \in S /\ Head(s) = s[1]
      /\ \A i \in 1 .. Len(Tail(s)) : Tail(s)[i] = s[i + 1]
  BY HeadTailProperties, EmptySeq, LenProperties
<1> DEFINE a == Tail(s)
           l == Len(s)
<1> HIDE DEF a, l
<1>2. /\ 1 \in 1 .. l /\ \A i \in 1 .. l - 1 : i + 1 \in 1 .. l /\ i + 1 # 1
      /\ \A i \in 1 .. l : i = 1 \/ (i - 1 \in 1 .. l - 1 /\ (i - 1) + 1 = i)
      /\ \A i, j \in 1 .. l - 1 : i # j => i + 1 # j + 1
  BY <1>1 DEF l
<1>3. /\ Len(a) = l - 1 /\ \A i \in 1 .. l - 1 : a[i] = s[i + 1]
  BY <1>1 DEF a, l
<1>4. ASSUME NEW i \in 1 .. l, i # 1 PROVE s[i] \in Elements(a)
  <2>1. i - 1 \in 1 .. l - 1 /\ (i - 1) + 1 = i  BY <1>2, <1>4
  <2>2. a[i - 1] = s[i]  BY <1>3, <2>1
  <2> QED BY <1>3, <2>1, <2>2 DEF Elements
<1>5. Elements(s) = Elements(a) \cup {s[1]}
  <2>1. Elements(s) \subseteq Elements(a) \cup {s[1]}  BY <1>4 DEF Elements, l
  <2>2. Elements(a) \subseteq Elements(s)  BY <1>2, <1>3 DEF Elements, l
  <2>3. s[1] \in Elements(s)  BY <1>2 DEF Elements, l
  <2> QED BY <2>1, <2>2, <2>3
<1>6. ASSUME Once(s) PROVE Once(a) /\ s[1] \notin Elements(a)
  <2>1. \A i, j \in 1 .. l : i # j => s[i] # s[j]  BY <1>6 DEF Once, l
  <2>2. \A i, j \in 1 .. l - 1 : i # j => a[i] # a[j]  BY <1>2, <1>3, <2>1
  <2>3. \A i \in 1 .. l - 1 : a[i] # s[1]  BY <1>2, <1>3, <2>1
  <2> QED BY <1>3, <2>2, <2>3 DEF Once, Elements
<1> QED BY <1>1, <1>5, <1>6 DEF a

-----------------------------------------------------------------------------
(* Bus.  Whoever has joined is found in the entry of its node, and nobody  *)
(* else is; an entry everyone has left is down or will be; what waits in   *)
(* an inbox has been given to none of the entry's subscribers yet.         *)

Subscribers(e) == channel[e].subscribers
Joined(i) == at[i] \in {"in", "lost"}
Wires == {"none", "asked", "known", "ready", "failed", "removed"}

Records ==
    [subscribers : SUBSET Listeners, wire : Wires, cancelled : BOOLEAN, inbox : Seq(Messages)]

Shapes ==
    /\ current \in [Topic!Nodes -> Entries \cup {0}]
    /\ channel \in [Entries -> Records]
    /\ at \in [Listeners -> {"new", "in", "out", "lost"}]
    /\ wire \in [Listeners -> Entries \cup {0}]
    /\ message \in [Messages -> [state : {"unsent", "asked", "sent", "lost"},
                                from : Listeners \cup {Topic!Unsent.from}, self : BOOLEAN]]
    /\ heard \in [Listeners -> Seq(Messages)]

Places ==
    /\ \A i \in Listeners : Joined(i) =>
           wire[i] \in Entries /\ current[Home[i]] = wire[i] /\ i \in Subscribers(wire[i])
    /\ \A e \in Entries : \A i \in Subscribers(e) : Joined(i) /\ wire[i] = e

Left ==
    \A e \in Entries : Subscribers(e) = {} =>
        /\ channel[e].wire # "ready"
        /\ channel[e].wire \in {"asked", "known"} => channel[e].cancelled

Waiting ==
    \A e \in Entries :
        /\ Once(channel[e].inbox)
        /\ \A m \in Elements(channel[e].inbox) :
               message[m].state = "sent" /\ \A i \in Subscribers(e) : m \notin Elements(heard[i])

Given ==
    \A i \in Listeners :
        /\ Once(heard[i]) /\ (at[i] = "new" => heard[i] = <<>>)
        /\ \A m \in Elements(heard[i]) :
               message[m].state = "sent" /\ (message[m].from = i => message[m].self)

TopicInv == Shapes /\ Places /\ Left /\ Waiting /\ Given

LEMMA NothingIn == Once(<<>>) /\ Elements(<<>>) = {}
  BY DEF Once, Elements

LEMMA ElementsOf == ASSUME NEW S, NEW s \in Seq(S) PROVE Elements(s) \subseteq S
<1>1. \A k \in 1 .. Len(s) : s[k] \in S  BY ElementOfSeq
<1> QED BY <1>1 DEF Elements

LEMMA HomeIsNode == ASSUME NEW i \in Listeners PROVE Home[i] \in Topic!Nodes
  BY DEF Topic!Nodes

LEMMA RecordsOf ==
    ASSUME NEW c \in Records
    PROVE  /\ c.subscribers \subseteq Listeners /\ c.wire \in Wires
           /\ c.cancelled \in BOOLEAN /\ c.inbox \in Seq(Messages)
  BY DEF Records

LEMMA TopicStarts == ASSUME Topic!BusConstantsOK PROVE Topic!Init => TopicInv
<1> SUFFICES ASSUME Topic!Init PROVE TopicInv
  OBVIOUS
<1>1. \A e \in Entries : channel[e] = [subscribers |-> {}, wire |-> "none",
                                      cancelled |-> FALSE, inbox |-> <<>>]
  BY DEF Topic!Init, Topic!Unused
<1>2. Shapes
  <2>1. <<>> \in Seq(Messages)  BY EmptySeq
  <2>2. channel \in [Entries -> Records]
    BY <2>1 DEF Topic!Init, Topic!Unused, Wires, Records
  <2>3. message \in [Messages -> [state : {"unsent", "asked", "sent", "lost"},
                                from : Listeners \cup {Topic!Unsent.from}, self : BOOLEAN]]
    BY DEF Topic!Init, Topic!Unsent
  <2> QED BY <2>1, <2>2, <2>3 DEF Shapes, Topic!Init
<1>3. Places  BY <1>1 DEF Places, Joined, Subscribers, Topic!Init
<1>4. Left  BY <1>1 DEF Left, Subscribers
<1>5. Waiting  BY <1>1, NothingIn DEF Waiting
<1>6. Given
  <2>1. \A i \in Listeners : heard[i] = <<>>  BY DEF Topic!Init
  <2> QED BY <2>1, NothingIn DEF Given
<1> QED BY <1>2, <1>3, <1>4, <1>5, <1>6 DEF TopicInv

LEMMA SubscribeKeeps ==
    ASSUME Topic!BusConstantsOK, TopicInv, NEW i \in Listeners, Topic!Subscribe(i)
    PROVE  TopicInv'
<1>0. Shapes /\ Places /\ Left /\ Waiting /\ Given  BY DEF TopicInv
<1>1. PICK e \in Entries :
         /\ IF current[Home[i]] # 0 THEN e = current[Home[i]]
            ELSE \A f \in Entries : f < e <=> channel[f] # Topic!Unused
         /\ current' = [current EXCEPT ![Home[i]] = e]
         /\ wire' = [wire EXCEPT ![i] = e]
         /\ channel' = [channel EXCEPT
                ![e].subscribers = @ \cup {i},
                ![e].wire = IF @ # "none" THEN @
                            ELSE IF bus = "local" THEN "ready" ELSE "asked"]
  BY DEF Topic!Subscribe
<1>2. at[i] = "new" /\ UNCHANGED <<message, heard>>  BY DEF Topic!Subscribe
<1>3. PICK outcome \in {"in", "lost"} : at' = [at EXCEPT ![i] = outcome]
  BY DEF Topic!Subscribe
<1>4. e \in Nat \ {0} /\ 0 \notin Entries /\ ~(e < e)
  BY DEF Topic!BusConstantsOK
<1>5. /\ Home[i] \in Topic!Nodes
      /\ \A n \in Topic!Nodes : current'[n] = IF n = Home[i] THEN e ELSE current[n]
      /\ \A j \in Listeners : wire'[j] = IF j = i THEN e ELSE wire[j]
      /\ at' \in [Listeners -> {"new", "in", "out", "lost"}] /\ at'[i] \in {"in", "lost"}
      /\ \A j \in Listeners \ {i} : at'[j] = at[j]
  BY <1>0, <1>1, <1>3, HomeIsNode DEF Shapes
<1>6. /\ channel' \in [Entries -> Records]
      /\ channel'[e].subscribers = Subscribers(e) \cup {i}
      /\ channel'[e].inbox = channel[e].inbox
      /\ \A f \in Entries \ {e} : channel'[f] = channel[f]
  <2> DEFINE c == channel[e]
             r == [subscribers |-> c.subscribers \cup {i},
                   wire |-> IF c.wire # "none" THEN c.wire
                            ELSE IF bus = "local" THEN "ready" ELSE "asked",
                   cancelled |-> c.cancelled, inbox |-> c.inbox]
  <2>1. c \in Records  BY <1>0 DEF Shapes
  <2>2. r \in Records  BY <2>1 DEF Records, Wires
  <2>3. channel' = [channel EXCEPT ![e] = r]
    <3>1. channel'[e] = r  BY <1>0, <1>1, <2>1 DEF Shapes, Records
    <3> QED BY <1>0, <1>1, <3>1 DEF Shapes
  <2>4. r.subscribers = Subscribers(e) \cup {i} /\ r.inbox = channel[e].inbox
    BY DEF Subscribers
  <2> HIDE DEF r
  <2> QED BY <1>0, <2>2, <2>3, <2>4 DEF Shapes
<1>7. Shapes'
  BY <1>0, <1>1, <1>2, <1>5, <1>6 DEF Shapes
<1>8. ~Joined(i) /\ \A f \in Entries : i \notin Subscribers(f)
  BY <1>0, <1>2 DEF Places, Joined
<1>9. \A j \in Listeners : Joined(j) /\ Home[j] = Home[i] => wire[j] = e
  <2> SUFFICES ASSUME NEW j \in Listeners, Joined(j), Home[j] = Home[i] PROVE wire[j] = e
    OBVIOUS
  <2>1. wire[j] \in Entries /\ current[Home[i]] = wire[j]  BY <1>0 DEF Places
  <2> QED BY <1>1, <1>4, <2>1
<1>10. Places'
  <2>1. ASSUME NEW j \in Listeners, Joined(j)'
        PROVE  wire'[j] \in Entries /\ current'[Home[j]] = wire'[j]
               /\ j \in channel'[wire'[j]].subscribers
    <3>1. CASE j = i  BY <1>5, <1>6, <3>1
    <3>2. CASE j # i
      <4>1. Joined(j)  BY <1>5, <2>1, <3>2 DEF Joined
      <4>2. wire[j] \in Entries /\ current[Home[j]] = wire[j] /\ j \in Subscribers(wire[j])
        BY <1>0, <4>1 DEF Places
      <4> QED BY <1>5, <1>6, <1>9, <3>2, <4>1, <4>2, HomeIsNode DEF Subscribers
    <3> QED BY <3>1, <3>2
  <2>2. ASSUME NEW f \in Entries, NEW j \in channel'[f].subscribers
        PROVE  Joined(j)' /\ wire'[j] = f
    <3>1. CASE j = i  BY <1>5, <1>6, <1>8, <2>2, <3>1 DEF Joined, Subscribers
    <3>2. CASE j # i
      <4>1. j \in Subscribers(f)  BY <1>6, <2>2, <3>2 DEF Subscribers
      <4>2. Joined(j) /\ wire[j] = f /\ j \in Listeners
        BY <1>0, <4>1 DEF Places, Shapes, Records, Subscribers
      <4> QED BY <1>5, <3>2, <4>2 DEF Joined
    <3> QED BY <3>1, <3>2
  <2> QED BY <2>1, <2>2 DEF Places, Subscribers
<1>11. Left'  BY <1>0, <1>6 DEF Left, Subscribers
<1>12. Waiting'
  <2>1. heard'[i] = <<>>  BY <1>0, <1>2 DEF Given
  <2>2. \A f \in Entries : /\ channel'[f].inbox = channel[f].inbox
                           /\ Subscribers(f)' \subseteq Subscribers(f) \cup {i}
    BY <1>6 DEF Subscribers
  <2> QED BY <1>0, <1>2, <2>1, <2>2, NothingIn DEF Waiting
<1>13. Given'  BY <1>0, <1>2, <1>5 DEF Given
<1> QED BY <1>7, <1>10, <1>11, <1>12, <1>13 DEF TopicInv

LEMMA Emptied ==
    ASSUME NEW c \in Records, NEW left
    PROVE  [c EXCEPT !.subscribers = left, !.wire = IF @ = "ready" THEN "removed" ELSE @,
                     !.inbox = IF c.wire = "ready" THEN <<>> ELSE @,
                     !.cancelled = c.wire # "ready"]
           = [subscribers |-> left,
              wire |-> IF c.wire = "ready" THEN "removed" ELSE c.wire,
              cancelled |-> c.wire # "ready",
              inbox |-> IF c.wire = "ready" THEN <<>> ELSE c.inbox]
<1> DEFINE w == IF c.wire = "ready" THEN "removed" ELSE c.wire
           k == c.wire # "ready"
           b == IF c.wire = "ready" THEN <<>> ELSE c.inbox
           x == [c EXCEPT !.subscribers = left, !.wire = w, !.inbox = b, !.cancelled = k]
<1> HIDE DEF w, k, b
<1>1. x \in [subscribers : {left}, wire : {w}, cancelled : {k}, inbox : {b}]
  BY DEF Records
<1> HIDE DEF x
<1>2. x = [subscribers |-> left, wire |-> w, cancelled |-> k, inbox |-> b]
  BY <1>1
<1> QED BY <1>2 DEF x, w, k, b

LEMMA UnsubscribeKeeps ==
    ASSUME Topic!BusConstantsOK, TopicInv, NEW i \in Listeners, Topic!Unsubscribe(i)
    PROVE  TopicInv'
<1>0. Shapes /\ Places /\ Left /\ Waiting /\ Given  BY DEF TopicInv
<1> DEFINE e == wire[i]
           left == Subscribers(e) \ {i}
<1>1. /\ at[i] = "in" /\ at' = [at EXCEPT ![i] = "out"] /\ UNCHANGED <<wire, message, heard>>
      /\ IF left # {}
         THEN channel' = [channel EXCEPT ![e].subscribers = left] /\ UNCHANGED current
         ELSE /\ current' = [current EXCEPT ![Home[i]] = IF @ = e THEN 0 ELSE @]
              /\ channel' = [channel EXCEPT ![e] = [channel[e] EXCEPT
                     !.subscribers = left,
                     !.wire = IF @ = "ready" THEN "removed" ELSE @,
                     !.inbox = IF channel[e].wire = "ready" THEN <<>> ELSE @,
                     !.cancelled = channel[e].wire # "ready"]]
  BY DEF Topic!Unsubscribe, Subscribers
<1>2. e \in Entries /\ current[Home[i]] = e /\ i \in Subscribers(e) /\ Joined(i)
  BY <1>0, <1>1 DEF Places, Joined
<1> HIDE DEF e, left
<1>3. /\ channel' \in [Entries -> Records]
      /\ channel'[e].subscribers = left
      /\ channel'[e].inbox \in {<<>>, channel[e].inbox}
      /\ left = {} => channel'[e].wire # "ready"
                      /\ (channel'[e].wire \in {"asked", "known"} => channel'[e].cancelled)
      /\ \A f \in Entries \ {e} : channel'[f] = channel[f]
  <2>1. left \subseteq Listeners /\ <<>> \in Seq(Messages)
    BY <1>0, <1>2, EmptySeq DEF left, Shapes, Records, Subscribers
  <2> DEFINE c == channel[e]
             r == [subscribers |-> left,
                   wire |-> IF left = {} /\ c.wire = "ready" THEN "removed" ELSE c.wire,
                   cancelled |-> IF left = {} THEN c.wire # "ready" ELSE c.cancelled,
                   inbox |-> IF left = {} /\ c.wire = "ready" THEN <<>> ELSE c.inbox]
  <2>2. c \in Records  BY <1>0, <1>2 DEF Shapes
  <2>3. r \in Records  BY <2>1, <2>2 DEF Records, Wires
  <2>4. channel' = [channel EXCEPT ![e] = r]
    <3>1. CASE left # {}  BY <1>0, <1>1, <1>2, <2>2, <3>1 DEF Shapes, Records
    <3>2. CASE left = {}
      <4>1. channel' = [channel EXCEPT ![e] = [c EXCEPT
               !.subscribers = left, !.wire = IF @ = "ready" THEN "removed" ELSE @,
               !.inbox = IF c.wire = "ready" THEN <<>> ELSE @, !.cancelled = c.wire # "ready"]]
        BY <1>1, <3>2
      <4>2. r = [c EXCEPT
               !.subscribers = left, !.wire = IF @ = "ready" THEN "removed" ELSE @,
               !.inbox = IF c.wire = "ready" THEN <<>> ELSE @, !.cancelled = c.wire # "ready"]
        BY <2>2, <3>2, Emptied
      <4> HIDE DEF r, c
      <4> QED BY <4>1, <4>2
    <3> QED BY <3>1, <3>2
  <2>5. /\ r.subscribers = left /\ r.inbox \in {<<>>, channel[e].inbox}
        /\ left = {} => r.wire # "ready" /\ (r.wire \in {"asked", "known"} => r.cancelled)
    OBVIOUS
  <2> HIDE DEF r
  <2> QED BY <1>0, <1>2, <2>3, <2>4, <2>5 DEF Shapes
<1>4. /\ current' \in [Topic!Nodes -> Entries \cup {0}]
      /\ \A n \in Topic!Nodes : current'[n] = current[n] \/ (left = {} /\ n = Home[i])
  BY <1>0, <1>1, HomeIsNode DEF Shapes
<1>5. /\ at' \in [Listeners -> {"new", "in", "out", "lost"}] /\ at'[i] = "out"
      /\ \A j \in Listeners \ {i} : at'[j] = at[j]
  BY <1>0, <1>1 DEF Shapes
<1>6. Shapes'  BY <1>0, <1>1, <1>3, <1>4, <1>5 DEF Shapes
<1>7. Places'
  <2>1. ASSUME NEW j \in Listeners, Joined(j)'
        PROVE  wire'[j] \in Entries /\ current'[Home[j]] = wire'[j]
               /\ j \in channel'[wire'[j]].subscribers
    <3>1. j # i /\ Joined(j)  BY <1>5, <2>1 DEF Joined
    <3>2. wire[j] \in Entries /\ current[Home[j]] = wire[j] /\ j \in Subscribers(wire[j])
      BY <1>0, <3>1 DEF Places
    <3>3. j \in channel'[wire[j]].subscribers  BY <1>3, <3>1, <3>2 DEF left, Subscribers
    <3>4. Home[j] = Home[i] => left # {}  BY <1>2, <3>1, <3>2 DEF left
    <3> QED BY <1>1, <1>4, <3>2, <3>3, <3>4, HomeIsNode
  <2>2. ASSUME NEW f \in Entries, NEW j \in channel'[f].subscribers
        PROVE  Joined(j)' /\ wire'[j] = f
    <3>1. j \in Subscribers(f) /\ (f = e => j # i)  BY <1>3, <2>2 DEF left, Subscribers
    <3>2. Joined(j) /\ wire[j] = f /\ j \in Listeners
      BY <1>0, <3>1 DEF Places, Shapes, Records, Subscribers
    <3>3. j # i  BY <3>1, <3>2 DEF e
    <3> QED BY <1>1, <1>5, <3>2, <3>3 DEF Joined
  <2> QED BY <2>1, <2>2 DEF Places, Subscribers
<1>8. Left'  BY <1>0, <1>3 DEF Left, Subscribers
<1>9. Waiting'
  <2>1. \A f \in Entries : /\ channel'[f].inbox \in {<<>>, channel[f].inbox}
                           /\ Subscribers(f)' \subseteq Subscribers(f)
    BY <1>3 DEF Subscribers, left
  <2> QED BY <1>0, <1>1, <2>1, NothingIn DEF Waiting
<1>10. Given'  BY <1>0, <1>1, <1>5 DEF Given
<1> QED BY <1>6, <1>7, <1>8, <1>9, <1>10 DEF TopicInv

(* The steps that change neither the instances nor an entry's subscribers. *)
LEMMA PlacesStay ==
    ASSUME Places, UNCHANGED <<current, at, wire>>,
           \A e \in Entries : Subscribers(e)' = Subscribers(e)
    PROVE  Places'
<1>1. ASSUME NEW i \in Listeners, Joined(i)
      PROVE  /\ wire'[i] \in Entries /\ current'[Home[i]] = wire'[i]
             /\ i \in channel'[wire'[i]].subscribers
  <2>1. wire[i] \in Entries /\ current[Home[i]] = wire[i] /\ i \in Subscribers(wire[i])
    BY <1>1 DEF Places
  <2>2. channel'[wire[i]].subscribers = channel[wire[i]].subscribers
    BY <2>1 DEF Subscribers
  <2> QED BY <2>1, <2>2 DEF Subscribers
<1>2. ASSUME NEW e \in Entries, NEW i \in Subscribers(e)' PROVE Joined(i)' /\ wire'[i] = e
  BY <1>2 DEF Places, Joined
<1> QED BY <1>1, <1>2 DEF Places, Joined, Subscribers

LEMMA WireToKeeps ==
    ASSUME TopicInv, NEW e \in Entries, NEW from \in {"asked", "known"},
           NEW to \in Wires \ {"ready"}, to = "known" => from = "asked", to # "asked",
           Topic!WireTo(e, from, to)
    PROVE  TopicInv'
<1>0. Shapes /\ Places /\ Left /\ Waiting /\ Given  BY DEF TopicInv
<1>1. /\ channel[e].wire = from /\ channel' = [channel EXCEPT ![e].wire = to]
      /\ UNCHANGED <<bus, current, at, wire, message, heard>>
  BY DEF Topic!WireTo
<1>2. /\ channel' \in [Entries -> Records]
      /\ \A f \in Entries : /\ channel'[f].subscribers = channel[f].subscribers
                            /\ channel'[f].cancelled = channel[f].cancelled
                            /\ channel'[f].inbox = channel[f].inbox
                            /\ channel'[f].wire = IF f = e THEN to ELSE channel[f].wire
  BY <1>0, <1>1 DEF Shapes, Records
<1>3. Shapes'  BY <1>0, <1>1, <1>2 DEF Shapes
<1>4. Places'  BY <1>0, <1>1, <1>2, PlacesStay DEF Subscribers
<1>5. Left'  BY <1>0, <1>1, <1>2 DEF Left, Subscribers
<1>6. Waiting'  BY <1>0, <1>1, <1>2 DEF Waiting, Subscribers
<1>7. Given'  BY <1>0, <1>1 DEF Given
<1> QED BY <1>3, <1>4, <1>5, <1>6, <1>7 DEF TopicInv

LEMMA ResolvedKeepsIt ==
    ASSUME TopicInv, NEW e \in Entries, Topic!Resolved(e)
    PROVE  TopicInv'
<1>0. Shapes /\ Places /\ Left /\ Waiting /\ Given  BY DEF TopicInv
<1>1. /\ channel[e].wire = "known" /\ UNCHANGED <<bus, current, at, wire, message, heard>>
      /\ channel' = [channel EXCEPT
             ![e].wire = IF channel[e].cancelled THEN "removed" ELSE "ready",
             ![e].inbox = IF channel[e].cancelled THEN <<>> ELSE @]
  BY DEF Topic!Resolved
<1>2. /\ channel' \in [Entries -> Records]
      /\ \A f \in Entries : /\ channel'[f].subscribers = channel[f].subscribers
                            /\ channel'[f].cancelled = channel[f].cancelled
                            /\ channel'[f].inbox \in {<<>>, channel[f].inbox}
                            /\ channel'[f].wire =
                                  IF f # e THEN channel[f].wire
                                  ELSE IF channel[e].cancelled THEN "removed" ELSE "ready"
  <2> DEFINE c == channel[e]
             r == [subscribers |-> c.subscribers,
                   wire |-> IF c.cancelled THEN "removed" ELSE "ready",
                   cancelled |-> c.cancelled,
                   inbox |-> IF c.cancelled THEN <<>> ELSE c.inbox]
  <2>1. c \in Records /\ <<>> \in Seq(Messages)  BY <1>0, EmptySeq DEF Shapes
  <2>2. r \in Records  BY <2>1 DEF Records, Wires
  <2>3. channel' = [channel EXCEPT ![e] = r]
    <3>1. channel'[e] = r  BY <1>0, <1>1, <2>1 DEF Shapes, Records
    <3> QED BY <1>0, <1>1, <3>1 DEF Shapes
  <2>4. /\ r.subscribers = channel[e].subscribers /\ r.cancelled = channel[e].cancelled
        /\ r.inbox \in {<<>>, channel[e].inbox}
        /\ r.wire = IF channel[e].cancelled THEN "removed" ELSE "ready"
    OBVIOUS
  <2> HIDE DEF r
  <2> QED BY <1>0, <2>2, <2>3, <2>4 DEF Shapes
<1>3. Shapes'  BY <1>0, <1>1, <1>2 DEF Shapes
<1>4. Places'  BY <1>0, <1>1, <1>2, PlacesStay DEF Subscribers
<1>5. Left'  BY <1>0, <1>1, <1>2 DEF Left, Subscribers
<1>6. Waiting'  BY <1>0, <1>1, <1>2, NothingIn DEF Waiting, Subscribers
<1>7. Given'  BY <1>0, <1>1 DEF Given
<1> QED BY <1>3, <1>4, <1>5, <1>6, <1>7 DEF TopicInv

(* What giving a message nobody has had does to what has been heard.       *)
LEMMA GiveOnce ==
    ASSUME Shapes, Given, NEW m \in Messages, NEW is \in SUBSET Listeners, Topic!Give(is, m),
           \A i \in is : m \notin Elements(heard[i])
    PROVE  /\ heard' \in [Listeners -> Seq(Messages)]
           /\ \A i \in Listeners : /\ Once(heard'[i])
                                   /\ Elements(heard'[i]) = Elements(heard[i])
                                                            \cup (IF i \in is THEN {m} ELSE {})
                                   /\ i \notin is => heard'[i] = heard[i]
<1>1. heard' = [i \in Listeners |-> IF i \in is THEN Append(heard[i], m) ELSE heard[i]]
  BY DEF Topic!Give
<1>2. ASSUME NEW i \in Listeners
      PROVE  /\ heard'[i] \in Seq(Messages) /\ Once(heard'[i])
             /\ Elements(heard'[i]) = Elements(heard[i]) \cup (IF i \in is THEN {m} ELSE {})
             /\ i \notin is => heard'[i] = heard[i]
  <2>1. heard[i] \in Seq(Messages) /\ Once(heard[i])  BY DEF Shapes, Given
  <2>2. CASE i \in is
    <3>1. heard'[i] = Append(heard[i], m)  BY <1>1, <2>2
    <3> QED BY <2>1, <2>2, <3>1, OnceMore
  <2>3. CASE i \notin is
    <3>1. heard'[i] = heard[i]  BY <1>1, <2>3
    <3> QED BY <2>1, <2>3, <3>1
  <2> QED BY <2>2, <2>3
<1> QED BY <1>1, <1>2

LEMMA PublishKeeps ==
    ASSUME TopicInv, NEW i \in Listeners, NEW m \in Messages, Topic!Publish(i, m)
    PROVE  TopicInv'
<1>0. Shapes /\ Places /\ Left /\ Waiting /\ Given  BY DEF TopicInv
<1>1. /\ at[i] = "in" /\ message[m].state = "unsent"
      /\ UNCHANGED <<bus, current, channel, at, wire>>
  BY DEF Topic!Publish
<1>2. PICK self \in BOOLEAN :
         message' = [message EXCEPT ![m] = [state |-> IF bus = "local" THEN "sent" ELSE "asked",
                                            from |-> i, self |-> self]]
  BY DEF Topic!Publish
<1>3. /\ message' \in [Messages -> [state : {"unsent", "asked", "sent", "lost"},
                                   from : Listeners \cup {Topic!Unsent.from}, self : BOOLEAN]]
      /\ message'[m].from = i /\ (bus = "local" => message'[m].state = "sent")
      /\ \A n \in Messages \ {m} : message'[n] = message[n]
  BY <1>0, <1>2 DEF Shapes
<1>4. /\ \A j \in Listeners : m \notin Elements(heard[j])
      /\ \A e \in Entries : m \notin Elements(channel[e].inbox)
  BY <1>0, <1>1 DEF Given, Waiting
<1>5. /\ \A j \in Listeners : Elements(heard[j]) \subseteq Messages
      /\ \A e \in Entries : Elements(channel[e].inbox) \subseteq Messages
  BY <1>0, RecordsOf, ElementsOf DEF Shapes
<1>6. Places'  BY <1>0, <1>1, PlacesStay DEF Subscribers
<1>7. Left'  BY <1>0, <1>1 DEF Left, Subscribers
<1>8. CASE bus = "local"
  <2> DEFINE e == current[Home[i]]
             is == Topic!Hears(e, m)
  <2>1. e \in Entries /\ e = wire[i]  BY <1>0, <1>1 DEF Places, Joined
  <2>2. Topic!Give(is, m)  BY <1>1, <1>8 DEF Topic!Publish
  <2>3. \A j \in is : j \in Subscribers(e) /\ (message'[m].self \/ j # i)
    BY <1>3 DEF Topic!Hears, Subscribers
  <2> HIDE DEF e, is
  <2>4. \A j \in is : j \in Listeners /\ at[j] # "new"
    BY <1>0, <2>1, <2>3, RecordsOf DEF Places, Joined, Shapes, Subscribers
  <2>5. /\ heard' \in [Listeners -> Seq(Messages)]
        /\ \A j \in Listeners : /\ Once(heard'[j])
                                /\ Elements(heard'[j]) = Elements(heard[j])
                                                         \cup (IF j \in is THEN {m} ELSE {})
                                /\ j \notin is => heard'[j] = heard[j]
    BY <1>0, <1>4, <2>2, <2>4, GiveOnce
  <2>6. Shapes'  BY <1>0, <1>1, <1>3, <2>5 DEF Shapes
  <2>7. Waiting'
    <3>1. ASSUME NEW f \in Entries, NEW n \in Elements(channel[f].inbox)
          PROVE  /\ message'[n].state = "sent"
                 /\ \A j \in Subscribers(f) : n \notin Elements(heard'[j])
      <4>1. n # m /\ n \in Messages  BY <1>4, <1>5, <3>1
      <4>2. message[n].state = "sent" /\ \A j \in Subscribers(f) : n \notin Elements(heard[j])
        BY <1>0, <3>1 DEF Waiting
      <4>3. Subscribers(f) \subseteq Listeners  BY <1>0, RecordsOf DEF Shapes, Subscribers
      <4>4. message'[n] = message[n]  BY <1>3, <4>1
      <4>5. ASSUME NEW j \in Subscribers(f) PROVE n \notin Elements(heard'[j])
        <5>1. j \in Listeners /\ n \notin Elements(heard[j])  BY <4>2, <4>3
        <5>2. Elements(heard'[j]) \subseteq Elements(heard[j]) \cup {m}  BY <2>5, <5>1
        <5> QED BY <4>1, <5>1, <5>2
      <4> QED BY <4>2, <4>4, <4>5
    <3> QED BY <1>0, <1>1, <3>1 DEF Waiting, Subscribers
  <2>8. Given'
    <3>1. ASSUME NEW j \in Listeners, NEW n \in Elements(heard'[j])
          PROVE  message'[n].state = "sent" /\ (message'[n].from = j => message'[n].self)
      <4>1. CASE n = m
        <5>1. j \in is  BY <1>4, <2>5, <3>1, <4>1
        <5> QED BY <1>3, <1>8, <2>3, <4>1, <5>1
      <4>2. CASE n # m
        <5>1. n \in Elements(heard[j])  BY <2>5, <3>1, <4>2
        <5>2. message'[n] = message[n]  BY <1>3, <1>5, <4>2, <5>1
        <5> QED BY <1>0, <5>1, <5>2 DEF Given
      <4> QED BY <4>1, <4>2
    <3>2. \A j \in Listeners : Once(heard'[j]) /\ (at'[j] = "new" => heard'[j] = <<>>)
      BY <1>0, <1>1, <2>4, <2>5 DEF Given
    <3> QED BY <3>1, <3>2 DEF Given
  <2> QED BY <1>6, <1>7, <2>6, <2>7, <2>8 DEF TopicInv
<1>9. CASE bus # "local"
  <2>1. heard' = heard  BY <1>9 DEF Topic!Publish
  <2>2. Shapes'  BY <1>0, <1>1, <1>3, <2>1 DEF Shapes
  <2>3. Waiting'  BY <1>0, <1>1, <1>3, <1>4, <1>5, <2>1 DEF Waiting, Subscribers
  <2>4. Given'  BY <1>0, <1>1, <1>3, <1>4, <1>5, <2>1 DEF Given
  <2> QED BY <1>6, <1>7, <2>2, <2>3, <2>4 DEF TopicInv
<1> QED BY <1>8, <1>9

LEMMA PublishFailsKeeps ==
    ASSUME TopicInv, NEW m \in Messages, Topic!PublishFails(m)
    PROVE  TopicInv'
<1>0. Shapes /\ Places /\ Left /\ Waiting /\ Given  BY DEF TopicInv
<1>1. /\ message[m].state = "asked" /\ message' = [message EXCEPT ![m].state = "lost"]
      /\ UNCHANGED <<bus, current, channel, at, wire, heard>>
  BY DEF Topic!PublishFails
<1>2. /\ message' \in [Messages -> [state : {"unsent", "asked", "sent", "lost"},
                                   from : Listeners \cup {Topic!Unsent.from}, self : BOOLEAN]]
      /\ \A n \in Messages \ {m} : message'[n] = message[n]
  BY <1>0, <1>1 DEF Shapes
<1>3. /\ \A j \in Listeners : m \notin Elements(heard[j]) /\ Elements(heard[j]) \subseteq Messages
      /\ \A e \in Entries : /\ m \notin Elements(channel[e].inbox)
                            /\ Elements(channel[e].inbox) \subseteq Messages
  BY <1>0, <1>1, RecordsOf, ElementsOf DEF Given, Waiting, Shapes
<1>4. Shapes'  BY <1>0, <1>1, <1>2 DEF Shapes
<1>5. Places'  BY <1>0, <1>1, PlacesStay DEF Subscribers
<1>6. Left'  BY <1>0, <1>1 DEF Left, Subscribers
<1>7. Waiting'  BY <1>0, <1>1, <1>2, <1>3 DEF Waiting, Subscribers
<1>8. Given'  BY <1>0, <1>1, <1>2, <1>3 DEF Given
<1> QED BY <1>4, <1>5, <1>6, <1>7, <1>8 DEF TopicInv

LEMMA RouteKeeps ==
    ASSUME TopicInv, NEW m \in Messages, Topic!Route(m)
    PROVE  TopicInv'
<1>0. Shapes /\ Places /\ Left /\ Waiting /\ Given  BY DEF TopicInv
<1>1. /\ message[m].state = "asked" /\ message' = [message EXCEPT ![m].state = "sent"]
      /\ UNCHANGED <<bus, current, at, wire, heard>>
      /\ channel' = [e \in Entries |->
             IF channel[e].wire \in {"known", "ready"}
             THEN [channel[e] EXCEPT !.inbox = Append(@, m)] ELSE channel[e]]
  BY DEF Topic!Route
<1>2. /\ message' \in [Messages -> [state : {"unsent", "asked", "sent", "lost"},
                                   from : Listeners \cup {Topic!Unsent.from}, self : BOOLEAN]]
      /\ message'[m].state = "sent"
      /\ \A n \in Messages : /\ n # m => message'[n] = message[n]
                             /\ message'[n].from = message[n].from
                             /\ message'[n].self = message[n].self
  BY <1>0, <1>1 DEF Shapes
<1>3. /\ \A j \in Listeners : m \notin Elements(heard[j]) /\ Elements(heard[j]) \subseteq Messages
      /\ \A e \in Entries : /\ m \notin Elements(channel[e].inbox)
                            /\ Elements(channel[e].inbox) \subseteq Messages
  BY <1>0, <1>1, RecordsOf, ElementsOf DEF Given, Waiting, Shapes
<1>4. ASSUME NEW e \in Entries
      PROVE  /\ channel'[e] \in Records
             /\ channel'[e].subscribers = channel[e].subscribers
             /\ channel'[e].wire = channel[e].wire /\ channel'[e].cancelled = channel[e].cancelled
             /\ Once(channel'[e].inbox)
             /\ Elements(channel'[e].inbox) \subseteq Elements(channel[e].inbox) \cup {m}
  <2>1. channel[e] \in Records /\ Once(channel[e].inbox)  BY <1>0 DEF Shapes, Waiting
  <2>2. CASE channel[e].wire \in {"known", "ready"}
    <3> DEFINE more == Append(channel[e].inbox, m)
    <3>1. /\ more \in Seq(Messages) /\ Once(more)
          /\ Elements(more) = Elements(channel[e].inbox) \cup {m}
      BY <1>3, <2>1, RecordsOf, OnceMore
    <3>2. channel'[e] = [channel[e] EXCEPT !.inbox = more]  BY <1>1, <2>2
    <3> HIDE DEF more
    <3> QED BY <2>1, <3>1, <3>2 DEF Records
  <2>3. CASE channel[e].wire \notin {"known", "ready"}
    <3>1. channel'[e] = channel[e]  BY <1>1, <2>3
    <3> QED BY <2>1, <3>1
  <2> QED BY <2>2, <2>3
<1>5. Shapes'
  <2>1. channel' \in [Entries -> Records]  BY <1>1, <1>4
  <2> QED BY <1>0, <1>1, <1>2, <2>1 DEF Shapes
<1>6. Places'  BY <1>0, <1>1, <1>4, PlacesStay DEF Subscribers
<1>7. Left'  BY <1>0, <1>4 DEF Left, Subscribers
<1>8. Waiting'
  <2>1. ASSUME NEW e \in Entries, NEW n \in Elements(channel'[e].inbox)
        PROVE  message'[n].state = "sent" /\ \A i \in Subscribers(e)' : n \notin Elements(heard'[i])
    <3>1. n \in Elements(channel[e].inbox) \/ n = m  BY <1>4, <2>1
    <3>2. Subscribers(e)' = Subscribers(e) /\ Subscribers(e) \subseteq Listeners
      BY <1>0, <1>4, RecordsOf DEF Shapes, Subscribers
    <3>3. CASE n = m  BY <1>1, <1>2, <1>3, <3>2, <3>3
    <3>4. CASE n # m
      <4>1. n \in Elements(channel[e].inbox) /\ n \in Messages  BY <1>3, <3>1, <3>4
      <4>2. message[n].state = "sent" /\ \A i \in Subscribers(e) : n \notin Elements(heard[i])
        BY <1>0, <4>1 DEF Waiting
      <4>3. message'[n] = message[n]  BY <1>2, <3>4, <4>1
      <4> QED BY <1>1, <3>2, <4>2, <4>3
    <3> QED BY <3>3, <3>4
  <2> QED BY <1>4, <2>1 DEF Waiting
<1>9. Given'  BY <1>0, <1>1, <1>2, <1>3 DEF Given
<1> QED BY <1>5, <1>6, <1>7, <1>8, <1>9 DEF TopicInv

LEMMA DeliverKeeps ==
    ASSUME TopicInv, NEW e \in Entries, Topic!Deliver(e)
    PROVE  TopicInv'
<1>0. Shapes /\ Places /\ Left /\ Waiting /\ Given  BY DEF TopicInv
<1> DEFINE m == Head(channel[e].inbox)
           is == Topic!Hears(e, m)
<1>1. /\ channel[e].inbox # <<>> /\ channel' = [channel EXCEPT ![e].inbox = Tail(@)]
      /\ UNCHANGED <<bus, current, at, wire, message>> /\ Topic!Give(is, m)
  BY DEF Topic!Deliver
<1>2. channel[e] \in Records /\ channel[e].inbox \in Seq(Messages) /\ Once(channel[e].inbox)
  BY <1>0, RecordsOf DEF Shapes, Waiting
<1>3. /\ Tail(channel[e].inbox) \in Seq(Messages) /\ m \in Messages
      /\ Elements(channel[e].inbox) = Elements(Tail(channel[e].inbox)) \cup {m}
      /\ Once(Tail(channel[e].inbox)) /\ m \notin Elements(Tail(channel[e].inbox))
  BY <1>1, <1>2, OnceLess
<1>4. /\ \A j \in is : j \in Subscribers(e) /\ (message[m].from = j => message[m].self)
  BY <1>1 DEF Topic!Hears, Subscribers
<1> HIDE DEF m, is
<1>5. is \subseteq Listeners /\ \A j \in is : m \notin Elements(heard[j]) /\ at[j] # "new"
  <2>1. Subscribers(e) \subseteq Listeners  BY <1>2, RecordsOf DEF Subscribers
  <2>2. \A j \in Subscribers(e) : m \notin Elements(heard[j]) /\ at[j] # "new"
    BY <1>0, <1>3 DEF Waiting, Places, Joined
  <2> QED BY <1>4, <2>1, <2>2
<1>6. message[m].state = "sent"  BY <1>0, <1>3 DEF Waiting
<1>7. /\ heard' \in [Listeners -> Seq(Messages)]
      /\ \A j \in Listeners : /\ Once(heard'[j])
                              /\ Elements(heard'[j]) = Elements(heard[j])
                                                       \cup (IF j \in is THEN {m} ELSE {})
                              /\ j \notin is => heard'[j] = heard[j]
  BY <1>0, <1>1, <1>3, <1>5, GiveOnce
<1>8. /\ channel' \in [Entries -> Records]
      /\ \A f \in Entries : /\ channel'[f].subscribers = channel[f].subscribers
                            /\ channel'[f].cancelled = channel[f].cancelled
                            /\ channel'[f].wire = channel[f].wire
                            /\ channel'[f].inbox = IF f = e THEN Tail(channel[e].inbox)
                                                   ELSE channel[f].inbox
  BY <1>0, <1>1, <1>2, <1>3 DEF Shapes, Records
<1>9. Shapes'  BY <1>0, <1>1, <1>7, <1>8 DEF Shapes
<1>10. Places'  BY <1>0, <1>1, <1>8, PlacesStay DEF Subscribers
<1>11. Left'  BY <1>0, <1>8 DEF Left, Subscribers
<1>12. Waiting'
  <2>1. ASSUME NEW f \in Entries
        PROVE  /\ Once(channel'[f].inbox)
               /\ \A n \in Elements(channel'[f].inbox) :
                     message'[n].state = "sent" /\ \A j \in Subscribers(f)' : n \notin Elements(heard'[j])
    <3>1. Subscribers(f)' = Subscribers(f) /\ Subscribers(f) \subseteq Listeners
      BY <1>0, <1>8, RecordsOf DEF Shapes, Subscribers
    <3>2. /\ Once(channel[f].inbox)
          /\ \A n \in Elements(channel[f].inbox) :
                message[n].state = "sent" /\ \A j \in Subscribers(f) : n \notin Elements(heard[j])
      BY <1>0 DEF Waiting
    <3>3. CASE f = e
      <4>1. channel'[f].inbox = Tail(channel[e].inbox)  BY <1>8, <3>3
      <4>2. ASSUME NEW n \in Elements(Tail(channel[e].inbox)), NEW j \in Subscribers(e)
            PROVE  n \notin Elements(heard'[j])
        <5>1. n # m /\ n \in Elements(channel[e].inbox) /\ j \in Listeners  BY <1>3, <3>1, <3>3, <4>2
        <5>2. n \notin Elements(heard[j])  BY <3>2, <3>3, <5>1
        <5>3. Elements(heard'[j]) \subseteq Elements(heard[j]) \cup {m}  BY <1>7, <5>1
        <5> QED BY <5>1, <5>2, <5>3
      <4> QED BY <1>1, <1>3, <3>1, <3>2, <3>3, <4>1, <4>2
    <3>4. CASE f # e
      <4>1. channel'[f].inbox = channel[f].inbox  BY <1>8, <3>4
      <4>2. \A j \in Subscribers(f) : j \in Listeners /\ j \notin is
        BY <1>0, <1>4, <3>1, <3>4 DEF Places
      <4>3. \A j \in Subscribers(f) : heard'[j] = heard[j]  BY <1>7, <4>2
      <4> QED BY <1>1, <3>1, <3>2, <4>1, <4>3
    <3> QED BY <3>3, <3>4
  <2> QED BY <2>1 DEF Waiting
<1>13. Given'
  <2>1. ASSUME NEW j \in Listeners, NEW n \in Elements(heard'[j])
        PROVE  message'[n].state = "sent" /\ (message'[n].from = j => message'[n].self)
    <3>1. CASE n \in Elements(heard[j])  BY <1>0, <1>1, <3>1 DEF Given
    <3>2. CASE n \notin Elements(heard[j])
      <4>1. n = m /\ j \in is  BY <1>7, <2>1, <3>2
      <4> QED BY <1>1, <1>4, <1>6, <4>1
    <3> QED BY <3>1, <3>2
  <2>2. \A j \in Listeners : Once(heard'[j]) /\ (at'[j] = "new" => heard'[j] = <<>>)
    BY <1>0, <1>1, <1>5, <1>7 DEF Given
  <2> QED BY <2>1, <2>2 DEF Given
<1> QED BY <1>9, <1>10, <1>11, <1>12, <1>13 DEF TopicInv

LEMMA TopicKeeps ==
    ASSUME Topic!BusConstantsOK
    PROVE  TopicInv /\ [Topic!Next]_(Topic!busVars) => TopicInv'
<1> SUFFICES ASSUME TopicInv, [Topic!Next]_(Topic!busVars) PROVE TopicInv'
  OBVIOUS
<1>1. ASSUME NEW i \in Listeners, Topic!Subscribe(i) PROVE TopicInv'  BY <1>1, SubscribeKeeps
<1>2. ASSUME NEW i \in Listeners, Topic!Unsubscribe(i) PROVE TopicInv'  BY <1>2, UnsubscribeKeeps
<1>3. ASSUME NEW i \in Listeners, NEW m \in Messages, Topic!Publish(i, m) PROVE TopicInv'
  BY <1>3, PublishKeeps
<1>4. ASSUME NEW e \in Entries, Topic!Known(e) \/ Topic!Failed(e) PROVE TopicInv'
  <2>1. Topic!WireTo(e, "asked", "known") \/ Topic!WireTo(e, "asked", "failed")
    BY <1>4 DEF Topic!Known, Topic!Failed
  <2>2. {"known", "failed"} \subseteq Wires \ {"ready"}  BY DEF Wires
  <2>3. CASE Topic!WireTo(e, "asked", "known")  BY <2>2, <2>3, WireToKeeps
  <2>4. CASE Topic!WireTo(e, "asked", "failed")  BY <2>2, <2>4, WireToKeeps
  <2> QED BY <2>1, <2>3, <2>4
<1>5. ASSUME NEW e \in Entries, Topic!Resolved(e) PROVE TopicInv'  BY <1>5, ResolvedKeepsIt
<1>6. ASSUME NEW e \in Entries, Topic!Deliver(e) PROVE TopicInv'  BY <1>6, DeliverKeeps
<1>7. ASSUME NEW m \in Messages, Topic!PublishFails(m) PROVE TopicInv'
  BY <1>7, PublishFailsKeeps
<1>8. ASSUME NEW m \in Messages, Topic!Route(m) PROVE TopicInv'  BY <1>8, RouteKeeps
<1>9. CASE UNCHANGED Topic!busVars
  <2>1. UNCHANGED <<bus, current, channel, at, wire, message, heard>>
    BY <1>9 DEF Topic!busVars
  <2> QED BY <2>1 DEF TopicInv, Shapes, Places, Left, Waiting, Given, Joined, Subscribers
<1> QED BY <1>1, <1>2, <1>3, <1>4, <1>5, <1>6, <1>7, <1>8, <1>9 DEF Topic!Next

LEMMA TopicPromises == TopicInv => Topic!SubscriptionsUsed
<1> SUFFICES ASSUME TopicInv PROVE Topic!SubscriptionsUsed
  OBVIOUS
<1>0. Shapes /\ Places /\ Left /\ Waiting /\ Given  BY DEF TopicInv
<1>1. ASSUME NEW e \in Entries, channel[e].wire = "ready"
      PROVE  channel[e].subscribers # {} /\ \E n \in Topic!Nodes : current[n] = e
  <2>1. Subscribers(e) # {}  BY <1>0, <1>1 DEF Left
  <2>2. PICK i \in Subscribers(e) : TRUE  BY <2>1
  <2>3. i \in Listeners /\ current[Home[i]] = e
    BY <1>0, RecordsOf DEF Places, Shapes, Subscribers
  <2> QED BY <2>1, <2>3, HomeIsNode DEF Subscribers
<1>2. \A i \in Listeners : at[i] = "in" =>
         current[Home[i]] = wire[i] /\ i \in channel[wire[i]].subscribers
  BY <1>0 DEF Places, Joined, Subscribers
<1>3. \A i \in Listeners : \A j, k \in 1 .. Len(heard[i]) : j # k => heard[i][j] # heard[i][k]
  BY <1>0 DEF Given, Once
<1>4. \A i \in Listeners : \A m \in Topic!Range(heard[i]) : message[m].from = i => message[m].self
  BY <1>0 DEF Given, Elements, Topic!Range
<1> QED BY <1>1, <1>2, <1>3, <1>4 DEF Topic!SubscriptionsUsed

(* However instances join and leave a topic and messages are published,    *)
(* lost and delivered: a listener redis keeps has a subscriber and is the  *)
(* current one of a node, whoever is subscribed is found in the entry of   *)
(* its node, and no instance is given a message twice or, unasked, its own *)
(* (RedisBus, LocalBus).                                                   *)
THEOREM TopicCorrect ==
    ASSUME Topic!BusConstantsOK
    PROVE  Topic!Spec => []Topic!SubscriptionsUsed
<1>1. TopicInv => Topic!SubscriptionsUsed  BY TopicPromises
<1>2. Topic!Init => TopicInv  BY TopicStarts
<1>3. TopicInv /\ [Topic!Next]_(Topic!busVars) => TopicInv'  BY TopicKeeps
<1> QED BY <1>1, <1>2, <1>3, PTL DEF Topic!Spec

-----------------------------------------------------------------------------
(* Reload.  A load never runs ahead of what is on disk.  Unless the newest *)
(* save is still loading or has failed, the registration has it, and so    *)
(* has every instance that was not being built at the swap.                *)

Loads ==
    /\ saved \in Nat \ {0} /\ registered \in Nat /\ broken \in 0 .. saved
    /\ loads \subseteq [tag : 1 .. saved, read : 0 .. saved]
    /\ mount \in [Builds -> [at : {"no", "building", "mounted"}, def : Nat]]
    /\ \A l \in loads : l.read = 0 \/ l.read >= l.tag

Newest ==
    \/ \E l \in loads : l.tag = saved
    \/ broken = saved
    \/ /\ registered = saved
       /\ \A i \in Builds \ across : mount[i].at = "no" \/ mount[i].def = saved

EditInv == Loads /\ Newest

LEMMA EditStarts == Edit!Init => EditInv
<1> SUFFICES ASSUME Edit!Init PROVE EditInv
  OBVIOUS
<1>1. Loads  BY DEF Edit!Init, Loads
<1>2. Newest  BY DEF Edit!Init, Newest
<1> QED BY <1>1, <1>2 DEF EditInv

LEMMA EditKeeps == EditInv /\ [Edit!Next]_(Edit!reloadVars) => EditInv'
<1> SUFFICES ASSUME EditInv, [Edit!Next]_(Edit!reloadVars) PROVE EditInv'
  OBVIOUS
<1>0. Loads /\ Newest  BY DEF EditInv
<1>1. CASE Edit!Save
  <2>1. Loads'  BY <1>0, <1>1 DEF Edit!Save, Loads
  <2>2. [tag |-> saved', read |-> 0] \in loads'  BY <1>1 DEF Edit!Save
  <2>3. Newest'  BY <2>2 DEF Newest
  <2> QED BY <2>1, <2>3 DEF EditInv
<1>2. ASSUME NEW l \in loads, Edit!ReadFile(l) PROVE EditInv'
  <2> DEFINE r == [l EXCEPT !.read = saved]
  <2>1. /\ r \in [tag : 1 .. saved, read : 0 .. saved]
        /\ r.tag = l.tag /\ r.read = saved /\ r.read >= r.tag
    BY <1>0 DEF Loads
  <2>2. loads' = (loads \ {l}) \cup {r}  BY <1>2 DEF Edit!ReadFile
  <2>3. UNCHANGED <<saved, registered, mount, across, broken>>  BY <1>2 DEF Edit!ReadFile
  <2> HIDE DEF r
  <2>4. Loads'  BY <1>0, <2>1, <2>2, <2>3 DEF Loads
  <2>5. Newest'  BY <1>0, <2>1, <2>2, <2>3 DEF Newest
  <2> QED BY <2>4, <2>5 DEF EditInv
<1>3. ASSUME NEW l \in loads, Edit!Apply(l) PROVE EditInv'
  <2>1. /\ loads' = loads \ {l} /\ UNCHANGED <<saved, broken>>
        /\ l \in [tag : 1 .. saved, read : 0 .. saved] /\ l.read \in l.tag .. saved
    BY <1>0, <1>3 DEF Edit!Apply, Loads
  <2>2. CASE Edit!Wins(l)
    <3>1. l.read = saved  BY <1>0, <2>1, <2>2 DEF Edit!Wins, Loads
    <3>2. /\ registered' = saved
          /\ mount' = [i \in Builds |->
                IF mount[i].at = "mounted" THEN [mount[i] EXCEPT !.def = saved] ELSE mount[i]]
          /\ across' = {i \in Builds : mount[i].at = "building"
                                        \/ (i \in across /\ mount[i].at # "mounted")}
      BY <1>3, <2>2, <3>1 DEF Edit!Apply
    <3>3. Loads'  BY <1>0, <2>1, <3>2 DEF Loads
    <3>4. ASSUME NEW i \in Builds, i \notin across'
          PROVE  mount'[i].at = "no" \/ mount'[i].def = saved
      <4>1. mount[i] \in [at : {"no", "building", "mounted"}, def : Nat]  BY <1>0 DEF Loads
      <4> QED BY <3>2, <3>4, <4>1
    <3>5. Newest'  BY <2>1, <3>2, <3>4 DEF Newest
    <3> QED BY <3>3, <3>5 DEF EditInv
  <2>3. CASE ~Edit!Wins(l)
    <3>1. UNCHANGED <<registered, mount, across>> /\ l.tag # saved
      BY <1>3, <2>3 DEF Edit!Apply, Edit!Wins
    <3>2. Loads'  BY <1>0, <2>1, <3>1 DEF Loads
    <3>3. Newest'  BY <1>0, <2>1, <3>1 DEF Newest
    <3> QED BY <3>2, <3>3 DEF EditInv
  <2> QED BY <2>2, <2>3
<1>4. ASSUME NEW l \in loads, Edit!Fail(l) PROVE EditInv'
  <2>1. /\ loads' = loads \ {l} /\ broken' = IF l.tag > broken THEN l.tag ELSE broken
        /\ UNCHANGED <<saved, registered, mount, across>> /\ l.tag \in 1 .. saved
    BY <1>0, <1>4 DEF Edit!Fail, Loads
  <2>2. Loads'  BY <1>0, <2>1 DEF Loads
  <2>3. l.tag = saved \/ broken = saved => broken' = saved  BY <1>0, <2>1 DEF Loads
  <2>4. Newest'  BY <1>0, <2>1, <2>3 DEF Newest
  <2> QED BY <2>2, <2>4 DEF EditInv
<1>5. ASSUME NEW i \in Builds, Edit!Begin(i) PROVE EditInv'
  <2>1. /\ mount' = [mount EXCEPT ![i] = [at |-> "building", def |-> registered]]
        /\ UNCHANGED <<saved, loads, registered, across, broken>>
    BY <1>5 DEF Edit!Begin
  <2>2. Loads'  BY <1>0, <2>1 DEF Loads
  <2>3. Newest'  BY <1>0, <2>1 DEF Newest, Loads
  <2> QED BY <2>2, <2>3 DEF EditInv
<1>6. ASSUME NEW i \in Builds, Edit!Mounted(i) PROVE EditInv'
  <2>1. /\ mount[i].at = "building" /\ mount' = [mount EXCEPT ![i].at = "mounted"]
        /\ UNCHANGED <<saved, loads, registered, across, broken>>
    BY <1>6 DEF Edit!Mounted
  <2>2. Loads'  BY <1>0, <2>1 DEF Loads
  <2>3. Newest'  BY <1>0, <2>1 DEF Newest, Loads
  <2> QED BY <2>2, <2>3 DEF EditInv
<1>7. CASE UNCHANGED Edit!reloadVars
  BY <1>0, <1>7 DEF Edit!reloadVars, EditInv, Loads, Newest
<1> QED BY <1>1, <1>2, <1>3, <1>4, <1>5, <1>6, <1>7 DEF Edit!Next

(* A route edited while the dev server runs: in whatever order the saves   *)
(* are read, fail and are applied, once nothing is loading the             *)
(* registration and the mounted instances run what is on disk, unless the  *)
(* newest load failed or the instance was being built at the swap          *)
(* (reload-serializer.ts, updateRoute, replaceDef).                        *)
THEOREM EditCorrect == Edit!Spec => []Edit!NewestDefinition
<1>1. EditInv => Edit!NewestDefinition
  BY DEF EditInv, Loads, Newest, Edit!NewestDefinition
<1> QED BY <1>1, EditStarts, EditKeeps, PTL DEF Edit!Spec

-----------------------------------------------------------------------------
(* Persistence.  Unless late, at most one instance is past the reading of  *)
(* the row; the row is as its step says, until handler.dispose begins,     *)
(* after which nothing is made and what is being saved is all there is.    *)

Whos == Principals \cup {Rows!Unborn.who, Rows!Unborn.asked}
Ats == {"unborn", "evicting", "reading", "creating", "loading", "live", "draining",
        "dropping", "gone"}
Instances == [at : Ats, who : Whos, asked : Whos, seq : Nat, unsaved : BOOLEAN,
              parked : BOOLEAN, attached : BOOLEAN, persist : BOOLEAN, thenDelete : BOOLEAN,
              after : Insts \cup {0}]
Snapshots == [by : {0}] \cup [by : Insts, who : Whos, seq : Nat, old : BOOLEAN]

Early == proc \in {"up", "stopping"}
Active(i) == inst[i].at \in {"creating", "loading", "live", "draining", "dropping"}
Lapsed == adapter = "session" /\ row.by = 0

(* What the row and its owner are while the active instance is where it is.*)
Fits(i) ==
    /\ inst[i].at = "creating" => row.by = owner \/ Lapsed
    /\ inst[i].at \in {"loading", "live"} => owner = i /\ (row.by = i \/ Lapsed)
    /\ inst[i].at = "draining" =>
           IF inst[i].thenDelete THEN owner = 0 /\ ~inst[i].persist
           ELSE owner = i /\ (inst[i].persist \/ row.by = i \/ Lapsed)
    /\ inst[i].at = "dropping" => owner = 0

RowTypes ==
    /\ inst \in [Insts -> Instances] /\ login \in Principals
    /\ row \in Snapshots
    /\ proc \in {"up", "stopping", "disposing", "hooking", "closed", "down"}
    /\ entry \in Insts \cup {0} /\ saving \subseteq Insts /\ late \in BOOLEAN
    /\ \A i \in Insts : inst[i].at = "live" <=> entry = i
    /\ \A i \in Insts : inst[i].parked => inst[i].at \in {"draining", "dropping", "gone"}

Alone == \A i, j \in Insts : Active(i) /\ Active(j) => i = j

Kept ==
    Early =>
        /\ \A i \in Insts : Active(i) => Fits(i)
        /\ (\A i \in Insts : ~Active(i)) => row.by = owner \/ Lapsed

(* What replaces another instance finds no row.                            *)
Wakes ==
    \A i \in Insts : inst[i].after # 0 =>
        /\ Active(i) => inst[i].who = inst[i].asked
        /\ inst[i].at = "reading" => owner = 0 /\ row.by = 0 /\ \A j \in Insts : ~Active(j)

Closes ==
    proc \in {"disposing", "hooking", "closed"} => \A i \in Insts : ~Rows!Making(i)

Saves ==
    (proc \in {"disposing", "hooking", "closed"} \/ (proc = "down" /\ code = 0)) =>
        \A i \in saving :
           /\ \A j \in Insts : Active(j) => j = i
           /\ IF inst[i].at = "gone" THEN adapter \in Rows!Durable => row.by = i /\ row.seq = inst[i].seq
              ELSE proc = "disposing" /\ inst[i].at = "draining"
                   /\ inst[i].persist /\ ~inst[i].thenDelete

Careful == Alone /\ Kept /\ Wakes /\ Closes /\ Saves
RowInv == RowTypes /\ (late \/ Careful)

LEMMA ZeroIsNone == ASSUME Rows!PersistConstantsOK PROVE 0 \notin Insts
  BY DEF Rows!PersistConstantsOK

LEMMA NoRowIs ==
    ASSUME row \in Snapshots, 0 \notin Insts
    PROVE  /\ row = Rows!NoRow <=> row.by = 0
           /\ row # Rows!NoRow => row \in [by : Insts, who : Whos, seq : Nat, old : BOOLEAN]
  BY DEF Rows!NoRow, Snapshots

LEMMA Fields ==
    ASSUME NEW q \in Instances
    PROVE  /\ q.at \in Ats /\ q.who \in Whos /\ q.asked \in Whos /\ q.seq \in Nat
           /\ q.unsaved \in BOOLEAN /\ q.parked \in BOOLEAN /\ q.attached \in BOOLEAN
           /\ q.persist \in BOOLEAN /\ q.thenDelete \in BOOLEAN /\ q.after \in Insts \cup {0}
  BY DEF Instances

(* How dispose sets out, by what it was asked to do with the row.          *)
LEMMA DrainsSaving ==
    ASSUME NEW q \in Instances
    PROVE  LET d == Rows!Draining(q, TRUE, FALSE) IN
           /\ d \in Instances /\ d.at = "draining" /\ d.persist /\ ~d.thenDelete
           /\ d.who = q.who /\ d.asked = q.asked /\ d.after = q.after /\ d.seq = q.seq
<1> DEFINE d == Rows!Draining(q, TRUE, FALSE)
<1>1. d \in [at : {"draining"}, who : {q.who}, asked : {q.asked}, seq : {q.seq},
             unsaved : {FALSE}, parked : BOOLEAN, attached : {FALSE}, persist : {TRUE},
             thenDelete : {FALSE}, after : {q.after}]
  BY DEF Rows!Draining, Instances
<1>2. q.at \in Ats /\ q.who \in Whos /\ q.asked \in Whos /\ q.seq \in Nat
      /\ q.unsaved \in BOOLEAN /\ q.attached \in BOOLEAN /\ q.after \in Insts \cup {0}
  BY Fields
<1> HIDE DEF d
<1>3. d \in Instances  BY <1>1, <1>2 DEF Instances, Ats
<1>4. d.persist /\ ~d.thenDelete  BY <1>1, <1>2
<1> QED BY <1>1, <1>3, <1>4 DEF d

LEMMA DrainsOnly ==
    ASSUME NEW q \in Instances
    PROVE  LET d == Rows!Draining(q, FALSE, FALSE) IN
           /\ d \in Instances /\ d.at = "draining" /\ ~d.persist /\ ~d.thenDelete
           /\ d.who = q.who /\ d.asked = q.asked /\ d.after = q.after /\ d.seq = q.seq
<1> DEFINE d == Rows!Draining(q, FALSE, FALSE)
<1>1. d \in [at : {"draining"}, who : {q.who}, asked : {q.asked}, seq : {q.seq},
             unsaved : {FALSE}, parked : BOOLEAN, attached : {FALSE}, persist : {FALSE},
             thenDelete : {FALSE}, after : {q.after}]
  BY DEF Rows!Draining, Instances
<1>2. q.at \in Ats /\ q.who \in Whos /\ q.asked \in Whos /\ q.seq \in Nat
      /\ q.unsaved \in BOOLEAN /\ q.attached \in BOOLEAN /\ q.after \in Insts \cup {0}
  BY Fields
<1> HIDE DEF d
<1>3. d \in Instances  BY <1>1, <1>2 DEF Instances, Ats
<1>4. ~d.persist /\ ~d.thenDelete  BY <1>1, <1>2
<1> QED BY <1>1, <1>3, <1>4 DEF d

LEMMA DrainsEvicted ==
    ASSUME NEW q \in Instances
    PROVE  LET d == Rows!Draining(q, q.attached, ~q.attached) IN
           /\ d \in Instances /\ d.at = "draining" /\ (d.persist <=> q.attached) /\ (d.thenDelete <=> ~q.attached)
           /\ d.who = q.who /\ d.asked = q.asked /\ d.after = q.after /\ d.seq = q.seq
<1> DEFINE d == Rows!Draining(q, q.attached, ~q.attached)
<1>1. d \in [at : {"draining"}, who : {q.who}, asked : {q.asked}, seq : {q.seq},
             unsaved : {FALSE}, parked : BOOLEAN, attached : {FALSE}, persist : {q.attached},
             thenDelete : {~q.attached}, after : {q.after}]
  BY DEF Rows!Draining, Instances
<1>2. q.at \in Ats /\ q.who \in Whos /\ q.asked \in Whos /\ q.seq \in Nat
      /\ q.unsaved \in BOOLEAN /\ q.attached \in BOOLEAN /\ q.after \in Insts \cup {0}
  BY Fields
<1> HIDE DEF d
<1>3. d \in Instances  BY <1>1, <1>2 DEF Instances, Ats
<1>4. (d.persist <=> q.attached) /\ (d.thenDelete <=> ~q.attached)  BY <1>1, <1>2
<1> QED BY <1>1, <1>3, <1>4 DEF d

(* A write that has not made the process late has written, unless the      *)
(* storage was closed.                                                     *)
LEMMA Stores ==
    ASSUME RowTypes, NEW r \in Snapshots, NEW upset \in BOOLEAN, Rows!Store(r, upset)
    PROVE  /\ row' \in Snapshots /\ row' \in {r, row}
           /\ late' \in BOOLEAN /\ (late => late') /\ (upset => late')
           /\ late' \/ proc = "closed" \/ row' = r
  BY DEF Rows!Store, RowTypes

(* Nothing is made any more once handler.dispose has begun.                *)
LEMMA MakesEarly ==
    ASSUME RowTypes, Closes, NEW i \in Insts, Rows!Running, Rows!Making(i)
    PROVE  Early
  BY DEF RowTypes, Closes, Rows!Running, Early

LEMMA RowStarts == ASSUME Rows!PersistConstantsOK PROVE Rows!Init => RowInv
<1> SUFFICES ASSUME Rows!Init PROVE RowInv
  OBVIOUS
<1>0. 0 \notin Insts  BY ZeroIsNone
<1>1. Rows!Unborn \in Instances /\ Rows!Unborn.at = "unborn" /\ Rows!Unborn.after = 0
  BY DEF Rows!Unborn, Instances, Ats, Whos
<1>2. \A i \in Insts : inst[i] = Rows!Unborn  BY DEF Rows!Init
<1>3. row = [by |-> 0] /\ row.by = 0 /\ owner = 0 /\ proc = "up" /\ entry = 0
  BY DEF Rows!Init, Rows!NoRow
<1>4. RowTypes
  <2>1. inst \in [Insts -> Instances]  BY <1>1 DEF Rows!Init
  <2>2. row \in [by : {0}]  BY <1>3
  <2>3. \A i \in Insts : inst[i].at = "live" <=> entry = i  BY <1>0, <1>1, <1>2, <1>3
  <2>4. \A i \in Insts : ~inst[i].parked
    <3>1. Rows!Unborn.parked = FALSE  BY DEF Rows!Unborn
    <3> QED BY <1>2, <3>1
  <2>5. row \in Snapshots  BY <2>2 DEF Snapshots
  <2> QED BY <2>1, <2>3, <2>4, <2>5 DEF Rows!Init, RowTypes
<1>5. \A i \in Insts : ~Active(i) /\ inst[i].after = 0  BY <1>1, <1>2 DEF Active
<1>6. Careful  BY <1>3, <1>5 DEF Careful, Alone, Kept, Wakes, Closes, Saves, Early
<1> QED BY <1>4, <1>6 DEF RowInv

LEMMA MountKeeps ==
    ASSUME Rows!PersistConstantsOK, RowInv, NEW i \in Insts, Rows!Mount(i)
    PROVE  RowInv'
<1>0. 0 \notin Insts /\ RowTypes /\ (late \/ Careful)  BY ZeroIsNone DEF RowInv
<1>1. /\ inst[i].at = "unborn" /\ entry' = 0 /\ late' = (late \/ proc \notin {"up", "stopping"})
      /\ UNCHANGED <<adapter, row, login, proc, code, saving, owner>>
  BY DEF Rows!Mount, Rows!At
<1> DEFINE q == [inst[i] EXCEPT !.at = IF entry = 0 THEN "reading" ELSE "evicting",
                                !.asked = login, !.after = entry]
<1>2. /\ q \in Instances /\ q.at = (IF entry = 0 THEN "reading" ELSE "evicting")
      /\ q.after = entry /\ inst[i] \in Instances /\ ~q.parked
  <2>0. inst[i] \in Instances /\ ~inst[i].parked  BY <1>0, <1>1 DEF RowTypes
  <2>1. inst[i] \in Instances /\ login \in Whos /\ entry \in Insts \cup {0}
    BY <1>0 DEF RowTypes, Whos
  <2>2. q.parked = inst[i].parked  BY <2>0 DEF Instances
  <2>3. q \in Instances /\ q.at = (IF entry = 0 THEN "reading" ELSE "evicting") /\ q.after = entry
    BY <2>1 DEF Instances, Ats
  <2> HIDE DEF q
  <2> QED BY <2>0, <2>2, <2>3
<1>3. /\ inst' \in [Insts -> Instances] /\ inst'[i] = q
      /\ \A k \in Insts \ {i} : k # entry => inst'[k] = inst[k]
      /\ entry # 0 => inst'[entry] = Rows!Draining(inst[entry], TRUE, FALSE) /\ entry # i
  <2> DEFINE me == [inst EXCEPT ![i] = q]
  <2>1. me = [inst EXCEPT ![i].at = IF entry = 0 THEN "reading" ELSE "evicting",
                          ![i].asked = login, ![i].after = entry]
    <3> DEFINE at2 == IF entry = 0 THEN "reading" ELSE "evicting"
               r == [inst EXCEPT ![i].at = at2, ![i].asked = login, ![i].after = entry]
               S == [at : {at2}, who : {inst[i].who}, asked : {login}, seq : {inst[i].seq},
                     unsaved : {inst[i].unsaved}, parked : {inst[i].parked},
                     attached : {inst[i].attached}, persist : {inst[i].persist},
                     thenDelete : {inst[i].thenDelete}, after : {entry}]
    <3>1. inst \in [Insts -> Instances] /\ inst[i] \in Instances  BY <1>0 DEF RowTypes
    <3> HIDE DEF at2
    <3>2. [inst[i] EXCEPT !.at = at2, !.asked = login, !.after = entry] \in S
      BY <3>1 DEF Instances
    <3>3. r[i] \in S  BY <3>1 DEF Instances
    <3>4. \A k \in Insts \ {i} : r[k] = inst[k]  BY <3>1
    <3>5. DOMAIN r = Insts /\ r = [k \in Insts |-> r[k]]  BY <3>1
    <3> HIDE DEF r
    <3>6. r[i] = [inst[i] EXCEPT !.at = at2, !.asked = login, !.after = entry]
      BY <3>2, <3>3
    <3>7. r = [inst EXCEPT ![i] = [inst[i] EXCEPT !.at = at2, !.asked = login, !.after = entry]]
      BY <3>1, <3>4, <3>5, <3>6
    <3> QED BY <3>7, Zenon DEF r, at2
  <2>2. inst' = IF entry = 0 THEN me ELSE [me EXCEPT ![entry] = Rows!Draining(@, TRUE, FALSE)]
    BY <2>1 DEF Rows!Mount
  <2>3. /\ me \in [Insts -> Instances] /\ me[i] = q /\ \A k \in Insts \ {i} : me[k] = inst[k]
    <3>1. inst \in [Insts -> Instances]  BY <1>0 DEF RowTypes
    <3> HIDE DEF q
    <3> QED BY <1>2, <3>1
  <2> HIDE DEF me, q
  <2>4. entry # 0 => entry \in Insts /\ entry # i  BY <1>0, <1>1 DEF RowTypes
  <2>5. entry # 0 => Rows!Draining(me[entry], TRUE, FALSE) \in Instances
    BY <2>3, <2>4, DrainsSaving
  <2> QED BY <2>2, <2>3, <2>4, <2>5
<1> HIDE DEF q
<1>4. \A k \in Insts : k = entry =>
         /\ inst'[k].at = "draining" /\ inst'[k].persist /\ ~inst'[k].thenDelete
         /\ inst'[k].who = inst[k].who /\ inst'[k].asked = inst[k].asked
         /\ inst'[k].after = inst[k].after /\ inst[k].at = "live"
  <2>1. inst \in [Insts -> Instances] /\ (entry \in Insts => inst[entry].at = "live")
    BY <1>0 DEF RowTypes
  <2> SUFFICES ASSUME NEW k \in Insts, k = entry
      PROVE  /\ inst'[k].at = "draining" /\ inst'[k].persist /\ ~inst'[k].thenDelete
             /\ inst'[k].who = inst[k].who /\ inst'[k].asked = inst[k].asked
             /\ inst'[k].after = inst[k].after /\ inst[k].at = "live"
    OBVIOUS
  <2>2. inst[k] \in Instances /\ inst[k].at = "live" /\ inst'[k] = Rows!Draining(inst[k], TRUE, FALSE)
    BY <1>0, <1>3, <2>1
  <2> QED BY <2>2, DrainsSaving
<1>5. \A k \in Insts : k = i => inst'[k].at \in {"reading", "evicting"}
                               /\ inst'[k].after = entry /\ (entry # 0 => inst'[k].at = "evicting")
  BY <1>2, <1>3
<1>6. RowTypes'
  <2>1. \A k \in Insts : inst'[k].at # "live"
    BY <1>0, <1>3, <1>4, <1>5 DEF RowTypes
  <2>2. \A k \in Insts : inst'[k].parked => inst'[k].at \in {"draining", "dropping", "gone"}
    BY <1>0, <1>2, <1>3, <1>4 DEF RowTypes
  <2>3. late' \in BOOLEAN  BY <1>0, <1>1 DEF RowTypes
  <2> QED BY <1>0, <1>1, <1>3, <2>1, <2>2, <2>3 DEF RowTypes
<1>7. ASSUME ~late' PROVE Careful'
  <2>0. ~late /\ Early /\ Alone /\ Kept /\ Wakes /\ Closes /\ Saves
    BY <1>0, <1>1, <1>7 DEF Careful, Early
  <2>1. \A k \in Insts : Active(k)' <=> Active(k)
    BY <1>1, <1>3, <1>4, <1>5 DEF Active
  <2>2. Alone'  BY <2>0, <2>1 DEF Alone
  <2>3. Kept'
    <3>1. ASSUME NEW k \in Insts, Active(k) PROVE Fits(k)'
      <4>1. Fits(k) /\ k # i  BY <1>1, <2>0, <3>1 DEF Kept, Active
      <4>2. CASE k = entry  BY <1>1, <1>4, <4>1, <4>2 DEF Fits, Lapsed
      <4>3. CASE k # entry  BY <1>1, <1>3, <4>1, <4>3 DEF Fits, Lapsed
      <4> QED BY <4>2, <4>3
    <3>2. (\A k \in Insts : ~Active(k)) => row'.by = owner' \/ Lapsed'
      BY <1>1, <2>0 DEF Kept, Lapsed
    <3> QED BY <2>1, <3>1, <3>2 DEF Kept
  <2>4. Wakes'
    <3>1. ASSUME NEW k \in Insts, inst'[k].after # 0
          PROVE  /\ Active(k)' => inst'[k].who = inst'[k].asked
                 /\ inst'[k].at = "reading" =>
                        owner' = 0 /\ row'.by = 0 /\ \A j \in Insts : ~Active(j)'
      <4>1. CASE k = i  BY <1>1, <1>5, <2>1, <3>1, <4>1 DEF Active
      <4>2. CASE k = entry  BY <1>4, <2>0, <2>1, <3>1, <4>2 DEF Wakes
      <4>3. CASE k # i /\ k # entry  BY <1>1, <1>3, <2>0, <2>1, <3>1, <4>3 DEF Wakes
      <4> QED BY <4>1, <4>2, <4>3
    <3> QED BY <3>1 DEF Wakes
  <2>5. Closes' /\ Saves'  BY <1>1, <2>0 DEF Closes, Saves, Early
  <2> QED BY <2>2, <2>3, <2>4, <2>5 DEF Careful
<1> QED BY <1>6, <1>7 DEF RowInv

(* A mount that fails before there is an instance.                         *)
LEMMA BailsKeep ==
    ASSUME RowInv, NEW i \in Insts, Rows!Running, inst[i].at \in {"evicting", "reading", "creating"},
           inst' = [inst EXCEPT ![i].at = "gone"],
           UNCHANGED <<adapter, row, entry, login, proc, code, saving, owner, late>>
    PROVE  RowInv'
<1>0. RowTypes /\ (late \/ Careful)  BY DEF RowInv
<1> DEFINE q == [inst[i] EXCEPT !.at = "gone"]
<1>1. inst \in [Insts -> Instances] /\ inst[i] \in Instances  BY <1>0 DEF RowTypes
<1>2. q \in Instances /\ q.at = "gone" /\ q.after = inst[i].after  BY <1>1 DEF Instances, Ats
<1>3. inst' = [inst EXCEPT ![i] = q]  OBVIOUS
<1> HIDE DEF q
<1>4. /\ inst' \in [Insts -> Instances] /\ inst'[i] = q
      /\ \A k \in Insts \ {i} : inst'[k] = inst[k]
  BY <1>1, <1>2, <1>3
<1>5. RowTypes'
  <2>1. \A k \in Insts : inst'[k].at = "live" <=> entry = k
    BY <1>0, <1>2, <1>4 DEF RowTypes
  <2>2. \A k \in Insts : inst'[k].parked => inst'[k].at \in {"draining", "dropping", "gone"}
    BY <1>0, <1>2, <1>4 DEF RowTypes
  <2> QED BY <1>0, <1>4, <2>1, <2>2 DEF RowTypes
<1>6. ASSUME ~late PROVE Careful'
  <2>0. Alone /\ Kept /\ Wakes /\ Closes /\ Saves  BY <1>0, <1>6 DEF Careful
  <2>1. Early
    <3>1. Rows!Making(i)  BY DEF Rows!Making
    <3> QED BY <1>0, <2>0, <3>1, MakesEarly
  <2>2. /\ \A k \in Insts : Active(k)' => Active(k) /\ k # i
        /\ \A k \in Insts \ {i} : Active(k) => Active(k)'
    BY <1>2, <1>4 DEF Active
  <2>3. Alone'  BY <2>0, <2>2 DEF Alone
  <2>4. Kept'
    <3>1. ASSUME NEW k \in Insts, Active(k)' PROVE Fits(k)'
      <4>1. Fits(k) /\ inst'[k] = inst[k]  BY <1>4, <2>0, <2>1, <2>2, <3>1 DEF Kept
      <4> QED BY <4>1 DEF Fits, Lapsed
    <3>2. ASSUME \A k \in Insts : ~Active(k)' PROVE row'.by = owner' \/ Lapsed'
      <4>1. CASE Active(i)
        <5>1. Fits(i) /\ inst[i].at = "creating"  BY <2>0, <2>1, <4>1 DEF Kept, Active
        <5> QED BY <5>1 DEF Fits, Lapsed
      <4>2. CASE ~Active(i)
        <5>1. \A k \in Insts : ~Active(k)  BY <2>2, <3>2, <4>2
        <5> QED BY <2>0, <2>1, <5>1 DEF Kept, Lapsed
      <4> QED BY <4>1, <4>2
    <3> QED BY <3>1, <3>2 DEF Kept
  <2>5. Wakes'
    <3>1. ASSUME NEW k \in Insts, inst'[k].after # 0
          PROVE  /\ Active(k)' => inst'[k].who = inst'[k].asked
                 /\ inst'[k].at = "reading" =>
                        owner' = 0 /\ row'.by = 0 /\ \A j \in Insts : ~Active(j)'
      <4>1. CASE k = i  BY <1>2, <1>4, <2>2, <4>1
      <4>2. CASE k # i  BY <1>4, <2>0, <2>2, <3>1, <4>2 DEF Wakes
      <4> QED BY <4>1, <4>2
    <3> QED BY <3>1 DEF Wakes
  <2>6. Closes' /\ Saves'  BY <2>1 DEF Closes, Saves, Early
  <2> QED BY <2>3, <2>4, <2>5, <2>6 DEF Careful
<1> QED BY <1>5, <1>6 DEF RowInv

LEMMA ForgottenKeeps ==
    ASSUME Rows!PersistConstantsOK, RowInv, NEW i \in Insts, Rows!Forgotten(i)
    PROVE  RowInv'
<1>0. 0 \notin Insts /\ RowTypes /\ (late \/ Careful)  BY ZeroIsNone DEF RowInv
<1>a. /\ Rows!Running /\ inst[i].at = "evicting"
      /\ UNCHANGED <<adapter, entry, login, proc, code, saving>>
  BY DEF Rows!Forgotten, Rows!At
<1>b. CASE inst' = [inst EXCEPT ![i].at = "gone"] /\ UNCHANGED <<row, owner, late>>
  BY <1>a, <1>b, BailsKeep
<1>c. CASE /\ inst' = [inst EXCEPT ![i].at = "reading"]
           /\ row' = Rows!NoRow /\ owner' = 0 /\ late' = (late \/ Rows!Beside(i))
  <2>1. row' = [by |-> 0] /\ row'.by = 0  BY <1>c DEF Rows!NoRow
  <2>2. /\ inst' \in [Insts -> Instances]
        /\ inst'[i] = [inst[i] EXCEPT !.at = "reading"] /\ inst[i] \in Instances
        /\ \A k \in Insts \ {i} : inst'[k] = inst[k]
    BY <1>0, <1>c DEF RowTypes, Instances, Ats
  <2>3. inst'[i].at = "reading" /\ inst'[i].parked = inst[i].parked  BY <2>2 DEF Instances
  <2>4. RowTypes'
    <3>1. row' \in Snapshots  BY <2>1 DEF Snapshots
    <3>2. \A k \in Insts : inst'[k].at = "live" <=> entry = k
      BY <1>0, <1>a, <2>2, <2>3 DEF RowTypes
    <3>3. \A k \in Insts : inst'[k].parked => inst'[k].at \in {"draining", "dropping", "gone"}
      <4>1. ~inst[i].parked  BY <1>0, <1>a DEF RowTypes
      <4> QED BY <1>0, <2>2, <2>3, <4>1 DEF RowTypes
    <3>4. late' \in BOOLEAN  BY <1>0, <1>c DEF RowTypes
    <3> QED BY <1>0, <1>a, <2>2, <3>1, <3>2, <3>3, <3>4 DEF RowTypes
  <2>5. ASSUME ~late' PROVE Careful'
    <3>0. /\ ~late /\ ~Rows!Beside(i) /\ Alone /\ Kept /\ Wakes /\ Closes /\ Saves
      BY <1>0, <1>c, <2>5 DEF Careful
    <3>1. \A k \in Insts : ~Active(k)'
      BY <2>2, <2>3, <3>0 DEF Active, Rows!Beside
    <3>2. Early
      <4>1. Rows!Making(i)  BY <1>a DEF Rows!Making
      <4> QED BY <1>0, <1>a, <3>0, <4>1, MakesEarly
    <3> QED BY <1>a, <1>c, <2>1, <3>1, <3>2 DEF Careful, Alone, Kept, Wakes, Closes, Saves, Early
  <2> QED BY <2>4, <2>5 DEF RowInv
<1> QED BY <1>b, <1>c DEF Rows!Forgotten

LEMMA ReadKeeps ==
    ASSUME Rows!PersistConstantsOK, RowInv, NEW i \in Insts, Rows!Read(i)
    PROVE  RowInv'
<1>0. 0 \notin Insts /\ RowTypes /\ (late \/ Careful)  BY ZeroIsNone DEF RowInv
<1> DEFINE who == IF Rows!Restores THEN row.who ELSE inst[i].asked
           seq == IF Rows!Restores THEN row.seq ELSE 0
<1>1. /\ Rows!Running /\ inst[i].at = "reading" /\ late' = (late \/ Rows!Beside(i))
      /\ inst' = [inst EXCEPT ![i].at = "creating", ![i].who = who, ![i].seq = seq]
      /\ UNCHANGED <<adapter, row, entry, login, proc, code, saving, owner>>
  BY DEF Rows!Read, Rows!At
<1>2. who \in Whos /\ seq \in Nat /\ (row.by = 0 => who = inst[i].asked)
  <2>1. row = Rows!NoRow <=> row.by = 0  BY <1>0, NoRowIs DEF RowTypes
  <2>2. row # Rows!NoRow => row.who \in Whos /\ row.seq \in Nat
    BY <1>0, NoRowIs DEF RowTypes
  <2>a. Rows!Restores => row # Rows!NoRow  BY DEF Rows!Restores
  <2>3. inst[i].asked \in Whos  BY <1>0, Fields DEF RowTypes
  <2> QED BY <2>1, <2>2, <2>a, <2>3
<1> HIDE DEF who, seq
<1>3. /\ inst' \in [Insts -> Instances] /\ inst'[i].at = "creating" /\ inst'[i].who = who
      /\ inst'[i].asked = inst[i].asked /\ inst'[i].after = inst[i].after /\ ~inst'[i].parked
      /\ \A k \in Insts \ {i} : inst'[k] = inst[k]
  <2>0. ~inst[i].parked  BY <1>0, <1>1 DEF RowTypes
  <2> DEFINE S == [at : {"creating"}, who : {who}, asked : {inst[i].asked}, seq : {seq},
                   unsaved : BOOLEAN, parked : {inst[i].parked}, attached : BOOLEAN,
                   persist : BOOLEAN, thenDelete : BOOLEAN, after : {inst[i].after}]
  <2>1. inst \in [Insts -> Instances] /\ inst[i] \in Instances  BY <1>0 DEF RowTypes
  <2>2. inst[i].asked \in Whos /\ inst[i].after \in Insts \cup {0}  BY <2>1, Fields
  <2>3. inst'[i] \in S  BY <1>1, <2>1 DEF Instances
  <2>4. inst'[i] \in Instances
    <3>1. inst[i].parked \in BOOLEAN  BY <2>1, Fields
    <3> QED BY <1>2, <2>2, <2>3, <3>1 DEF Instances, Ats
  <2>5. inst' = [k \in Insts |-> inst'[k]] /\ \A k \in Insts \ {i} : inst'[k] = inst[k]
    BY <1>1, <2>1
  <2>6. \A k \in Insts : inst'[k] \in Instances  BY <2>1, <2>4, <2>5
  <2>7. inst' \in [Insts -> Instances]  BY <2>5, <2>6
  <2> QED BY <2>0, <2>3, <2>5, <2>7
<1>4. RowTypes'
  <2>1. \A k \in Insts : inst'[k].at = "live" <=> entry = k
    BY <1>0, <1>1, <1>3 DEF RowTypes
  <2>2. \A k \in Insts : inst'[k].parked => inst'[k].at \in {"draining", "dropping", "gone"}
    BY <1>0, <1>1, <1>3 DEF RowTypes
  <2>3. late' \in BOOLEAN  BY <1>0, <1>1 DEF RowTypes
  <2> QED BY <1>0, <1>1, <1>3, <2>1, <2>2, <2>3 DEF RowTypes
<1>5. ASSUME ~late' PROVE Careful'
  <2>0. /\ ~late /\ ~Rows!Beside(i) /\ Alone /\ Kept /\ Wakes /\ Closes /\ Saves
    BY <1>0, <1>1, <1>5 DEF Careful
  <2>1. \A k \in Insts \ {i} : inst'[k].at \in {"unborn", "gone"}
    BY <1>3, <2>0 DEF Rows!Beside
  <2>2. Early
    <3>1. Rows!Making(i)  BY <1>1 DEF Rows!Making
    <3> QED BY <1>0, <1>1, <2>0, <3>1, MakesEarly
  <2>3. \A k \in Insts : Active(k)' => k = i  BY <2>1 DEF Active
  <2>4. Alone'  BY <2>3 DEF Alone
  <2>5. Kept'
    <3>1. \A k \in Insts : ~Active(k)  BY <1>1, <2>0 DEF Active, Rows!Beside
    <3>2. row.by = owner \/ Lapsed  BY <2>0, <2>2, <3>1 DEF Kept
    <3>3. Active(i)' /\ Fits(i)'  BY <1>1, <1>3, <3>2 DEF Active, Fits, Lapsed
    <3> QED BY <2>3, <3>3 DEF Kept
  <2>6. Wakes'
    <3>1. ASSUME NEW k \in Insts, inst'[k].after # 0
          PROVE  /\ Active(k)' => inst'[k].who = inst'[k].asked
                 /\ inst'[k].at # "reading"
      <4>1. CASE k = i
        <5>1. row.by = 0  BY <1>1, <1>3, <2>0, <3>1, <4>1 DEF Wakes
        <5> QED BY <1>2, <1>3, <4>1, <5>1
      <4>2. CASE k # i  BY <2>1, <2>3, <4>2
      <4> QED BY <4>1, <4>2
    <3> QED BY <3>1 DEF Wakes
  <2> QED BY <1>1, <2>2, <2>4, <2>5, <2>6 DEF Careful, Closes, Saves, Early
<1> QED BY <1>4, <1>5 DEF RowInv

LEMMA CreateKeeps ==
    ASSUME Rows!PersistConstantsOK, RowInv, NEW i \in Insts, Rows!Create(i)
    PROVE  RowInv'
<1>0. 0 \notin Insts /\ RowTypes /\ (late \/ Careful)  BY ZeroIsNone DEF RowInv
<1> DEFINE made == [inst[i] EXCEPT !.at = "loading", !.seq = @ + 1]
<1>1. /\ Rows!Running /\ inst[i].at = "creating" /\ inst' = [inst EXCEPT ![i] = made]
      /\ Rows!Store([by |-> i, who |-> made.who, seq |-> made.seq, old |-> FALSE], Rows!Beside(i))
      /\ owner' = i
      /\ UNCHANGED <<adapter, entry, login, proc, code, saving>>
  BY DEF Rows!Create, Rows!At
<1>2. /\ made \in Instances /\ made.at = "loading" /\ made.who = inst[i].who
      /\ made.asked = inst[i].asked /\ made.after = inst[i].after /\ ~made.parked
  <2>1. inst[i] \in Instances /\ ~inst[i].parked  BY <1>0, <1>1 DEF RowTypes
  <2>2. made \in [at : {"loading"}, who : {inst[i].who}, asked : {inst[i].asked},
                  seq : {inst[i].seq + 1}, unsaved : {inst[i].unsaved},
                  parked : {inst[i].parked}, attached : {inst[i].attached}, persist : {inst[i].persist},
                  thenDelete : {inst[i].thenDelete}, after : {inst[i].after}]
    BY <2>1 DEF Instances
  <2>3. inst[i].seq + 1 \in Nat  BY <2>1, Fields
  <2> HIDE DEF made
  <2>4. made \in Instances  BY <2>1, <2>2, <2>3, Fields DEF Instances, Ats
  <2> QED BY <2>1, <2>2, <2>4
<1> HIDE DEF made
<1>3. /\ inst' \in [Insts -> Instances] /\ inst'[i] = made
      /\ \A k \in Insts \ {i} : inst'[k] = inst[k]
  BY <1>0, <1>1, <1>2 DEF RowTypes
<1> DEFINE snap == [by |-> i, who |-> made.who, seq |-> made.seq, old |-> FALSE]
<1>a. /\ row' \in Snapshots /\ row' \in {snap, row}
      /\ late' \in BOOLEAN /\ (late => late') /\ (Rows!Beside(i) => late')
      /\ late' \/ proc = "closed" \/ row' = snap
  <2>1. snap \in Snapshots
    <3>1. made.who \in Whos /\ made.seq \in Nat  BY <1>2, Fields
    <3> QED BY <3>1 DEF Snapshots
  <2>2. Rows!Beside(i) \in BOOLEAN  BY DEF Rows!Beside
  <2>3. Rows!Store(snap, Rows!Beside(i))  BY <1>1
  <2> HIDE DEF snap
  <2> QED BY <1>0, <2>1, <2>2, <2>3, Stores
<1>4. RowTypes'
  <2>2. \A k \in Insts : inst'[k].at = "live" <=> entry = k
    BY <1>0, <1>1, <1>2, <1>3 DEF RowTypes
  <2>3. \A k \in Insts : inst'[k].parked => inst'[k].at \in {"draining", "dropping", "gone"}
    BY <1>0, <1>2, <1>3 DEF RowTypes
  <2> QED BY <1>0, <1>1, <1>3, <1>a, <2>2, <2>3 DEF RowTypes
<1>5. ASSUME ~late' PROVE Careful'
  <2>0. /\ ~late /\ ~Rows!Beside(i) /\ Alone /\ Kept /\ Wakes /\ Closes /\ Saves
    BY <1>0, <1>a, <1>5 DEF Careful
  <2>1. \A k \in Insts \ {i} : inst'[k].at \in {"unborn", "gone"}
    BY <1>3, <2>0 DEF Rows!Beside
  <2>2. Early
    <3>1. Rows!Making(i)  BY <1>1 DEF Rows!Making
    <3> QED BY <1>0, <1>1, <2>0, <3>1, MakesEarly
  <2>3. \A k \in Insts : Active(k)' => k = i  BY <2>1 DEF Active
  <2>4. Alone'  BY <2>3 DEF Alone
  <2>5. Kept'
    <3>1. row'.by = i  BY <1>a, <1>5, <2>2 DEF Early
    <3>2. Active(i)' /\ Fits(i)'  BY <1>1, <1>2, <1>3, <3>1 DEF Active, Fits
    <3> QED BY <2>3, <3>2 DEF Kept
  <2>6. Wakes'
    <3>1. Active(i)  BY <1>1 DEF Active
    <3>2. inst[i].after # 0 => inst[i].who = inst[i].asked  BY <2>0, <3>1 DEF Wakes
    <3> QED BY <1>2, <1>3, <2>1, <2>3, <3>2 DEF Wakes
  <2> QED BY <1>1, <2>2, <2>4, <2>5, <2>6 DEF Careful, Closes, Saves, Early
<1> QED BY <1>4, <1>5 DEF RowInv

LEMMA RegisterKeeps ==
    ASSUME Rows!PersistConstantsOK, RowInv, NEW i \in Insts, Rows!Register(i)
    PROVE  RowInv'
<1>0. 0 \notin Insts /\ RowTypes /\ (late \/ Careful)  BY ZeroIsNone DEF RowInv
<1>1. /\ Rows!Running /\ inst[i].at = "loading"
      /\ UNCHANGED <<adapter, row, login, proc, code, saving, late>>
      /\ \/ entry = 0 /\ entry' = i /\ owner' = i /\ inst' = [inst EXCEPT ![i].at = "live"]
         \/ inst' = [inst EXCEPT ![i] = Rows!Draining(@, FALSE, FALSE)] /\ UNCHANGED <<entry, owner>>
  BY DEF Rows!Register, Rows!At
<1>2. inst \in [Insts -> Instances] /\ inst[i] \in Instances  BY <1>0 DEF RowTypes
<1>3. /\ inst' \in [Insts -> Instances] /\ inst'[i].at \in {"live", "draining"}
      /\ inst'[i].at = "live" => ~inst'[i].parked
      /\ inst'[i].at = "draining" => ~inst'[i].persist /\ ~inst'[i].thenDelete
      /\ inst'[i].who = inst[i].who /\ inst'[i].asked = inst[i].asked
      /\ inst'[i].after = inst[i].after
      /\ \A k \in Insts \ {i} : inst'[k] = inst[k]
      /\ inst'[i].at = "live" => entry = 0 /\ entry' = i /\ owner' = i
      /\ inst'[i].at = "draining" => UNCHANGED <<entry, owner>>
  <2>1. CASE entry = 0 /\ entry' = i /\ owner' = i /\ inst' = [inst EXCEPT ![i].at = "live"]
    <3> DEFINE q == [inst[i] EXCEPT !.at = "live"]
    <3>1. /\ q \in Instances /\ q.at = "live" /\ q.who = inst[i].who
          /\ q.asked = inst[i].asked /\ q.after = inst[i].after /\ q.parked = inst[i].parked
      BY <1>2 DEF Instances, Ats
    <3>a. ~inst[i].parked  BY <1>0, <1>1 DEF RowTypes
    <3>2. inst' = [inst EXCEPT ![i] = q]  BY <2>1
    <3> HIDE DEF q
    <3> QED BY <1>2, <2>1, <3>1, <3>a, <3>2
  <2>2. CASE inst' = [inst EXCEPT ![i] = Rows!Draining(@, FALSE, FALSE)] /\ UNCHANGED <<entry, owner>>
    <3> DEFINE q == Rows!Draining(inst[i], FALSE, FALSE)
    <3>1. /\ q \in Instances /\ q.at = "draining" /\ ~q.persist /\ ~q.thenDelete
          /\ q.who = inst[i].who /\ q.asked = inst[i].asked /\ q.after = inst[i].after
      BY <1>2, DrainsOnly
    <3>2. inst' = [inst EXCEPT ![i] = q]  BY <2>2
    <3> HIDE DEF q
    <3> QED BY <1>2, <2>2, <3>1, <3>2
  <2> QED BY <1>1, <2>1, <2>2
<1>4. RowTypes'
  <2>1. entry' \in Insts \cup {0}  BY <1>0, <1>3 DEF RowTypes
  <2>2. \A k \in Insts : inst'[k].at = "live" <=> entry' = k
    <3>1. CASE inst'[i].at = "live"  BY <1>0, <1>3, <3>1 DEF RowTypes
    <3>2. CASE inst'[i].at = "draining"  BY <1>0, <1>1, <1>3, <3>2 DEF RowTypes
    <3> QED BY <1>3, <3>1, <3>2
  <2>3. \A k \in Insts : inst'[k].parked => inst'[k].at \in {"draining", "dropping", "gone"}
    BY <1>0, <1>3 DEF RowTypes
  <2> QED BY <1>0, <1>1, <1>3, <2>1, <2>2, <2>3 DEF RowTypes
<1>5. ASSUME ~late PROVE Careful'
  <2>0. Alone /\ Kept /\ Wakes /\ Closes /\ Saves  BY <1>0, <1>5 DEF Careful
  <2>1. Active(i) /\ \A k \in Insts : Active(k)' <=> Active(k)
    BY <1>1, <1>3 DEF Active
  <2>2. Early
    <3>1. Rows!Making(i)  BY <1>1 DEF Rows!Making
    <3> QED BY <1>0, <1>1, <2>0, <3>1, MakesEarly
  <2>3. Alone'  BY <2>0, <2>1 DEF Alone
  <2>4. Kept'
    <3>1. Fits(i)  BY <2>0, <2>1, <2>2 DEF Kept
    <3>2. Fits(i)'  BY <1>1, <1>3, <3>1 DEF Fits, Lapsed
    <3>3. \A k \in Insts : Active(k)' => k = i  BY <2>0, <2>1 DEF Alone
    <3> QED BY <2>1, <3>2, <3>3 DEF Kept
  <2>5. Wakes'  BY <1>1, <1>3, <2>0, <2>1 DEF Wakes
  <2> QED BY <1>1, <2>2, <2>3, <2>4, <2>5 DEF Careful, Closes, Saves, Early
<1> QED BY <1>1, <1>4, <1>5 DEF RowInv

(* The steps after which everyone is where he was, for the same session.   *)
LEMMA StaysKeeps ==
    ASSUME RowInv, UNCHANGED <<adapter, entry, proc, code, saving, owner>>,
           late' \in BOOLEAN, late => late',
           login' \in Principals, inst' \in [Insts -> Instances], row' \in Snapshots,
           \A k \in Insts : /\ inst'[k].at = inst[k].at /\ inst'[k].who = inst[k].who
                            /\ inst'[k].asked = inst[k].asked /\ inst'[k].after = inst[k].after
                            /\ inst'[k].persist = inst[k].persist
                            /\ inst'[k].thenDelete = inst[k].thenDelete
                            /\ inst'[k].parked => inst[k].parked
                            /\ inst[k].at = "gone" => inst'[k].seq = inst[k].seq,
           \/ row' = row \/ (adapter = "session" /\ row'.by = 0)
           \/ (\E k \in Insts : /\ inst[k].at \in {"live", "draining", "dropping"}
                                /\ late' \/ (Early => row'.by = k))
    PROVE  RowInv'
<1>0. RowTypes /\ (late \/ Careful)  BY DEF RowInv
<1>1. RowTypes'  BY <1>0 DEF RowTypes
<1>2. ASSUME ~late' PROVE Careful'
  <2>0. Alone /\ Kept /\ Wakes /\ Closes /\ Saves  BY <1>0, <1>2 DEF Careful
  <2>1. \A k \in Insts : (Active(k)' <=> Active(k)) /\ (Rows!Making(k)' <=> Rows!Making(k))
    BY DEF Active, Rows!Making
  <2>2. Alone' /\ Closes'  BY <2>0, <2>1 DEF Alone, Closes
  <2>a. Early' <=> Early  BY DEF Early
  <2>3. CASE row' = row
    <3>1. \A k \in Insts : Fits(k) => Fits(k)'  BY <2>3 DEF Fits, Lapsed
    <3>2. Kept'  BY <2>0, <2>1, <2>3, <2>a, <3>1 DEF Kept, Lapsed
    <3>3. Wakes'  BY <2>0, <2>1, <2>3 DEF Wakes
    <3>4. Saves'  BY <1>0, <2>0, <2>1, <2>3 DEF Saves, RowTypes
    <3> QED BY <2>2, <3>2, <3>3, <3>4 DEF Careful
  <2>4. CASE adapter = "session" /\ row'.by = 0
    <3>1. \A k \in Insts : Fits(k) => Fits(k)'  BY <2>4 DEF Fits, Lapsed
    <3>2. Kept'  BY <2>0, <2>1, <2>4, <2>a, <3>1 DEF Kept, Lapsed
    <3>3. Wakes'  BY <2>0, <2>1, <2>4 DEF Wakes
    <3>4. Saves'  BY <1>0, <2>0, <2>1, <2>4 DEF Saves, RowTypes, Rows!Durable
    <3> QED BY <2>2, <3>2, <3>3, <3>4 DEF Careful
  <2>5. ASSUME NEW k \in Insts, inst[k].at \in {"live", "draining", "dropping"},
               Early => row'.by = k
        PROVE  Careful'
    <3>1. Active(k) /\ \A j \in Insts : Active(j) => j = k  BY <2>0, <2>5 DEF Active, Alone
    <3>2. Early => Fits(k)'  BY <2>0, <2>5, <3>1 DEF Kept, Fits
    <3>3. Kept'  BY <2>1, <2>a, <3>1, <3>2 DEF Kept
    <3>4. Wakes'  BY <2>0, <2>1, <3>1 DEF Wakes
    <3>5. Saves'
      <4>1. ASSUME NEW i \in saving,
                   proc \in {"disposing", "hooking", "closed"} \/ (proc = "down" /\ code = 0)
            PROVE  /\ \A j \in Insts : Active(j)' => j = i
                   /\ proc = "disposing" /\ inst'[i].at = "draining"
                   /\ inst'[i].persist /\ ~inst'[i].thenDelete
        <5>1. i = k  BY <2>0, <3>1, <4>1 DEF Saves
        <5>2. inst[i].at # "gone"  BY <2>5, <5>1
        <5>3. proc = "disposing" /\ inst[i].at = "draining" /\ inst[i].persist /\ ~inst[i].thenDelete
          BY <2>0, <4>1, <5>2 DEF Saves
        <5> QED BY <2>1, <3>1, <5>1, <5>3
      <4> QED BY <4>1 DEF Saves
    <3> QED BY <2>2, <3>3, <3>4, <3>5 DEF Careful
  <2> QED BY <1>2, <2>3, <2>4, <2>5
<1> QED BY <1>1, <1>2 DEF RowInv

(* What has become of a write of an instance's own row.                    *)
Wrote(i, upset) ==
    /\ row' \in Snapshots /\ (row' = row \/ row'.by = i)
    /\ late' \in BOOLEAN /\ (late => late') /\ (upset => late')
    /\ late' \/ proc = "closed"
       \/ (row'.by = i /\ row'.seq = inst[i].seq)

LEMMA WritesRow ==
    ASSUME RowTypes, NEW i \in Insts, NEW upset \in BOOLEAN, Rows!Store(Rows!RowOf(i), upset)
    PROVE  Wrote(i, upset)
<1> DEFINE r == Rows!RowOf(i)
<1>1. inst[i].who \in Whos /\ inst[i].seq \in Nat  BY Fields DEF RowTypes
<1>2. /\ r \in [by : Insts, who : Whos, seq : Nat, old : BOOLEAN]
      /\ r.by = i /\ r.seq = inst[i].seq
  BY <1>1 DEF Rows!RowOf
<1>3. Rows!Store(r, upset)  OBVIOUS
<1> HIDE DEF r
<1>4. r \in Snapshots  BY <1>2 DEF Snapshots
<1> QED BY <1>2, <1>3, <1>4, Stores DEF Wrote

LEMMA WorkKeeps ==
    ASSUME Rows!PersistConstantsOK, RowInv,
           \/ Rows!Attach \/ Rows!SignIn \/ Rows!Lapse
           \/ \E i \in Insts : Rows!Work(i) \/ Rows!WriteThrough(i)
    PROVE  RowInv'
<1>0. 0 \notin Insts /\ RowTypes  BY ZeroIsNone DEF RowInv
<1>1. inst \in [Insts -> Instances] /\ login \in Principals
      /\ row \in Snapshots /\ late \in BOOLEAN
  BY <1>0 DEF RowTypes
<1>2. CASE Rows!Attach
  <2>1. entry \in Insts /\ UNCHANGED <<adapter, row, entry, login, proc, code, saving, owner, late>>
    BY <1>0, <1>2 DEF Rows!Attach, RowTypes
  <2> DEFINE q == [inst[entry] EXCEPT !.attached = TRUE]
  <2>2. inst' = [inst EXCEPT ![entry] = q]  BY <1>2 DEF Rows!Attach
  <2>3. /\ q \in Instances /\ q.at = inst[entry].at /\ q.who = inst[entry].who
        /\ q.asked = inst[entry].asked /\ q.after = inst[entry].after
        /\ q.persist = inst[entry].persist /\ q.thenDelete = inst[entry].thenDelete
        /\ q.seq = inst[entry].seq /\ q.parked = inst[entry].parked
    BY <1>1, <2>1 DEF Instances
  <2> HIDE DEF q
  <2> QED BY <1>1, <2>1, <2>2, <2>3, StaysKeeps
<1>3. CASE Rows!SignIn
  <2>1. UNCHANGED <<adapter, row, entry, inst, proc, code, saving, owner, late>>
        /\ login' \in Principals
    BY <1>3 DEF Rows!SignIn
  <2> QED BY <1>1, <2>1, StaysKeeps
<1>4. CASE Rows!Lapse
  <2>1. /\ UNCHANGED <<adapter, entry, inst, login, proc, code, saving, owner, late>>
        /\ adapter = "session" /\ row' = [by |-> 0] /\ row'.by = 0
    BY <1>4 DEF Rows!Lapse, Rows!NoRow
  <2>2. row' \in Snapshots  BY <2>1 DEF Snapshots
  <2> QED BY <1>1, <2>1, <2>2, StaysKeeps
<1>5. ASSUME NEW i \in Insts, Rows!Work(i) PROVE RowInv'
  <2>1. inst[i].at = "live" /\ UNCHANGED <<adapter, row, entry, login, proc, code, saving, owner, late>>
    BY <1>5 DEF Rows!Work, Rows!At
  <2> DEFINE q == [inst[i] EXCEPT !.seq = @ + 1, !.unsaved = TRUE]
  <2>2. inst' = [inst EXCEPT ![i] = q]  BY <1>1, <1>5 DEF Rows!Work
  <2>3. /\ q \in Instances /\ q.at = inst[i].at /\ q.who = inst[i].who
        /\ q.asked = inst[i].asked /\ q.after = inst[i].after /\ q.parked = inst[i].parked
        /\ q.persist = inst[i].persist /\ q.thenDelete = inst[i].thenDelete
    <3> DEFINE n == inst[i].seq + 1
    <3>1. n \in Nat /\ inst[i] \in Instances  BY <1>1, Fields
    <3>2. q = [inst[i] EXCEPT !.seq = n, !.unsaved = TRUE]  OBVIOUS
    <3> HIDE DEF n, q
    <3> QED BY <3>1, <3>2 DEF Instances
  <2> HIDE DEF q
  <2> QED BY <1>1, <2>1, <2>2, <2>3, StaysKeeps
<1>6. ASSUME NEW i \in Insts, Rows!WriteThrough(i) PROVE RowInv'
  <2>1. /\ inst[i].at = "live" /\ Rows!Store(Rows!RowOf(i), FALSE)
        /\ UNCHANGED <<adapter, entry, login, proc, code, saving, owner>>
    BY <1>6 DEF Rows!WriteThrough, Rows!At
  <2> DEFINE q == [inst[i] EXCEPT !.unsaved = FALSE]
  <2>2. inst' = [inst EXCEPT ![i] = q]  BY <1>6 DEF Rows!WriteThrough
  <2>3. /\ q \in Instances /\ q.at = inst[i].at /\ q.who = inst[i].who
        /\ q.asked = inst[i].asked /\ q.after = inst[i].after /\ q.seq = inst[i].seq
        /\ q.persist = inst[i].persist /\ q.thenDelete = inst[i].thenDelete
        /\ q.parked = inst[i].parked
    BY <1>1 DEF Instances
  <2>4. Wrote(i, FALSE)  BY <1>0, <2>1, WritesRow
  <2> HIDE DEF q
  <2>5. late' \/ (Early => row'.by = i)  BY <2>4 DEF Wrote, Early
  <2> QED BY <1>1, <2>1, <2>2, <2>3, <2>4, <2>5, StaysKeeps DEF Wrote
<1> QED BY <1>2, <1>3, <1>4, <1>5, <1>6

(* A handler that throws when its instance is disposed of: it writes the   *)
(* row of one that is being disposed of, or of one that is gone and has no *)
(* successor yet.                                                          *)
LEMMA AckErrorKeeps ==
    ASSUME Rows!PersistConstantsOK, RowInv, NEW i \in Insts, Rows!AckError(i)
    PROVE  RowInv'
<1>0. 0 \notin Insts /\ RowTypes /\ (late \/ Careful)  BY ZeroIsNone DEF RowInv
<1> DEFINE upset == inst[i].at = "gone" /\ (owner # i \/ proc # "up")
<1>1. /\ inst[i].parked /\ Rows!Store(Rows!RowOf(i), upset)
      /\ UNCHANGED <<adapter, entry, login, proc, code, saving, owner>>
  BY DEF Rows!AckError, Rows!At
<1>2. inst \in [Insts -> Instances] /\ inst[i] \in Instances /\ login \in Principals
  BY <1>0 DEF RowTypes
<1>a. inst[i].at \in {"draining", "dropping", "gone"}  BY <1>0, <1>1 DEF RowTypes
<1> DEFINE n == inst[i].seq + 1
           q == [inst[i] EXCEPT !.parked = FALSE, !.seq = n]
<1>3. inst' = [inst EXCEPT ![i] = q]  BY <1>2 DEF Rows!AckError
<1>4. /\ q \in Instances /\ q.at = inst[i].at /\ q.who = inst[i].who
      /\ q.asked = inst[i].asked /\ q.after = inst[i].after /\ ~q.parked
      /\ q.persist = inst[i].persist /\ q.thenDelete = inst[i].thenDelete
  <2>1. n \in Nat  BY <1>2, Fields
  <2> HIDE DEF n
  <2>2. q \in [at : {inst[i].at}, who : {inst[i].who}, asked : {inst[i].asked}, seq : {n},
                unsaved : {inst[i].unsaved}, parked : {FALSE}, attached : {inst[i].attached},
                persist : {inst[i].persist}, thenDelete : {inst[i].thenDelete},
                after : {inst[i].after}]
    BY <1>2 DEF Instances
  <2> HIDE DEF q
  <2>3. q \in Instances  BY <1>2, <2>1, <2>2, Fields DEF Instances
  <2>4. ~q.parked  BY <2>2
  <2> QED BY <2>2, <2>3, <2>4
<1> HIDE DEF q, n
<1>5. /\ inst' \in [Insts -> Instances] /\ inst'[i] = q
      /\ \A k \in Insts \ {i} : inst'[k] = inst[k]
  BY <1>2, <1>3, <1>4
<1>6. Wrote(i, upset)  BY <1>0, <1>1, WritesRow
<1> HIDE DEF upset
<1>7. CASE inst[i].at \in {"draining", "dropping"}
  <2>1. late' \/ (Early => row'.by = i)  BY <1>6 DEF Wrote, Early
  <2>2. \A k \in Insts : /\ inst'[k].at = inst[k].at /\ inst'[k].who = inst[k].who
                         /\ inst'[k].asked = inst[k].asked /\ inst'[k].after = inst[k].after
                         /\ inst'[k].persist = inst[k].persist
                         /\ inst'[k].thenDelete = inst[k].thenDelete
                         /\ inst'[k].parked => inst[k].parked
                         /\ inst[k].at = "gone" => inst'[k].seq = inst[k].seq
    BY <1>4, <1>5, <1>7
  <2> QED BY <1>1, <1>2, <1>5, <1>6, <1>7, <2>1, <2>2, StaysKeeps DEF Wrote
<1>8. CASE inst[i].at = "gone"
  <2>1. RowTypes'
    <3>1. \A k \in Insts : inst'[k].at = "live" <=> entry = k
      BY <1>0, <1>4, <1>5 DEF RowTypes
    <3>2. \A k \in Insts : inst'[k].parked => inst'[k].at \in {"draining", "dropping", "gone"}
      BY <1>0, <1>4, <1>5 DEF RowTypes
    <3> QED BY <1>0, <1>1, <1>5, <1>6, <3>1, <3>2 DEF RowTypes, Wrote
  <2>2. ASSUME ~late' PROVE Careful'
    <3>1. /\ ~late /\ owner = i /\ proc = "up" /\ row'.by = i
      BY <1>6, <1>8, <2>2 DEF Wrote, upset
    <3>0. Alone /\ Kept /\ Wakes /\ Closes /\ Saves  BY <1>0, <3>1 DEF Careful
    <3>2. \A k \in Insts : (Active(k)' <=> Active(k)) /\ (Active(k) => k # i /\ inst'[k] = inst[k])
      BY <1>4, <1>5, <1>8 DEF Active
    <3>3. Alone'  BY <3>0, <3>2 DEF Alone
    <3>4. Kept'
      <4>1. ASSUME NEW k \in Insts, Active(k)' PROVE Fits(k)'
        <5>1. Fits(k) /\ k # i /\ inst'[k] = inst[k]
          BY <3>0, <3>1, <3>2, <4>1 DEF Kept, Early
        <5>2. inst[k].at = "creating"  BY <1>0, <3>1, <3>2, <4>1, <5>1 DEF Fits, Active
        <5> QED BY <1>1, <3>1, <5>1, <5>2 DEF Fits
      <4> QED BY <1>1, <3>1, <4>1 DEF Kept
    <3>5. Wakes'
      <4>1. ASSUME NEW k \in Insts, inst'[k].after # 0
            PROVE  /\ Active(k)' => inst'[k].who = inst'[k].asked
                   /\ inst'[k].at # "reading"
        <5>1. inst[k].after # 0 /\ inst'[k].at = inst[k].at  BY <1>4, <1>5, <4>1
        <5>2. inst[k].at # "reading"  BY <1>0, <3>0, <3>1, <5>1 DEF Wakes
        <5> QED BY <3>0, <3>2, <5>1, <5>2 DEF Wakes
      <4> QED BY <4>1 DEF Wakes
    <3> QED BY <1>1, <3>1, <3>3, <3>4, <3>5 DEF Careful, Closes, Saves
  <2> QED BY <2>1, <2>2 DEF RowInv
<1> QED BY <1>a, <1>7, <1>8

LEMMA EvictKeeps ==
    ASSUME Rows!PersistConstantsOK, RowInv, Rows!Evict
    PROVE  RowInv'
<1>0. 0 \notin Insts /\ RowTypes /\ (late \/ Careful)  BY ZeroIsNone DEF RowInv
<1>a. PICK e \in Insts : e = entry  BY <1>0 DEF Rows!Evict, RowTypes
<1> DEFINE q == Rows!Draining(inst[e], inst[e].attached, ~inst[e].attached)
<1>1. /\ e \in Insts /\ inst \in [Insts -> Instances] /\ inst[e].at = "live"
      /\ inst[e] \in Instances
  BY <1>0, <1>a DEF RowTypes
<1>2. /\ inst' = [inst EXCEPT ![e] = q] /\ owner' = (IF inst[e].attached THEN e ELSE 0)
      /\ entry' = 0 /\ UNCHANGED <<adapter, row, login, proc, code, saving, late>>
  BY <1>a DEF Rows!Evict
<1>3. /\ q \in Instances /\ q.at = "draining" /\ q.who = inst[e].who
      /\ q.asked = inst[e].asked /\ q.after = inst[e].after
      /\ (q.persist <=> inst[e].attached) /\ (q.thenDelete <=> ~inst[e].attached)
  BY <1>1, DrainsEvicted
<1>4. \A k \in Insts : inst[k].at = "live" => k = e  BY <1>0, <1>a DEF RowTypes
<1> HIDE DEF q
<1>5. /\ inst' \in [Insts -> Instances] /\ inst'[e] = q
      /\ \A k \in Insts \ {e} : inst'[k] = inst[k]
  BY <1>1, <1>2, <1>3
<1>6. RowTypes'
  <2>1. \A k \in Insts : inst'[k].at # "live"  BY <1>3, <1>4, <1>5
  <2>2. \A k \in Insts : inst'[k].parked => inst'[k].at \in {"draining", "dropping", "gone"}
    BY <1>0, <1>3, <1>5 DEF RowTypes
  <2> QED BY <1>0, <1>2, <1>5, <2>1, <2>2 DEF RowTypes
<1>7. ASSUME ~late PROVE Careful'
  <2>0. Alone /\ Kept /\ Wakes /\ Closes /\ Saves  BY <1>0, <1>7 DEF Careful
  <2>1. /\ Active(e) /\ \A k \in Insts : Active(k)' <=> Active(k)
        /\ \A k \in Insts : Rows!Making(k)' <=> Rows!Making(k)
    BY <1>1, <1>3, <1>5 DEF Active, Rows!Making
  <2>2. Alone' /\ Closes'  BY <1>2, <2>0, <2>1 DEF Alone, Closes
  <2>3. Kept'
    <3>1. Fits(e)'  BY <1>2, <1>3, <1>5 DEF Fits
    <3>2. \A k \in Insts : Active(k)' => k = e  BY <2>0, <2>1 DEF Alone
    <3> QED BY <2>1, <1>1, <3>1, <3>2 DEF Kept
  <2>4. Wakes'
    <3>1. \A k \in Insts : inst'[k].who = inst[k].who /\ inst'[k].asked = inst[k].asked
                           /\ inst'[k].after = inst[k].after
                           /\ (inst'[k].at = "reading" => inst[k].at = "reading")
      BY <1>3, <1>5
    <3>2. \A k \in Insts : inst'[k].after # 0 => inst'[k].at # "reading"
      BY <1>1, <2>0, <2>1, <3>1 DEF Wakes
    <3> QED BY <1>2, <2>0, <2>1, <3>1, <3>2 DEF Wakes
  <2>5. Saves'
    <3>1. ASSUME NEW i \in saving,
                 proc \in {"disposing", "hooking", "closed"} \/ (proc = "down" /\ code = 0)
          PROVE FALSE
      BY <1>1, <2>0, <2>1, <3>1 DEF Saves
    <3> QED BY <1>2, <3>1 DEF Saves
  <2> QED BY <2>2, <2>3, <2>4, <2>5 DEF Careful
<1> QED BY <1>2, <1>6, <1>7 DEF RowInv

LEMMA EndsKeeps ==
    ASSUME Rows!PersistConstantsOK, RowInv, NEW i \in Insts, Rows!Drained(i) \/ Rows!Dropped(i)
    PROVE  RowInv'
<1>0. 0 \notin Insts /\ RowTypes /\ (late \/ Careful)  BY ZeroIsNone DEF RowInv
<1> DEFINE to == IF inst[i].at = "draining" /\ inst[i].thenDelete THEN "dropping" ELSE "gone"
           q == [inst[i] EXCEPT !.at = to]
<1>1. /\ Rows!Running /\ inst[i].at \in {"draining", "dropping"} /\ inst' = [inst EXCEPT ![i] = q]
      /\ UNCHANGED <<adapter, entry, login, proc, code, saving, owner>>
      /\ inst[i].at = "draining" =>
            IF inst[i].persist THEN Rows!Store(Rows!RowOf(i), FALSE) ELSE UNCHANGED <<row, late>>
      /\ inst[i].at = "dropping" => Rows!Store(Rows!NoRow, FALSE)
  BY DEF Rows!Drained, Rows!Dropped, Rows!At
<1>2. inst \in [Insts -> Instances] /\ inst[i] \in Instances  BY <1>0 DEF RowTypes
<1>3. /\ q \in Instances /\ q.at = to /\ q.who = inst[i].who /\ q.asked = inst[i].asked
      /\ q.after = inst[i].after /\ q.seq = inst[i].seq
  <2>1. to \in Ats  BY DEF Ats
  <2> HIDE DEF to
  <2> QED BY <1>2, <2>1 DEF Instances
<1> HIDE DEF q
<1>4. /\ inst' \in [Insts -> Instances] /\ inst'[i] = q
      /\ \A k \in Insts \ {i} : inst'[k] = inst[k]
  BY <1>1, <1>2, <1>3
<1>5. /\ row' \in Snapshots /\ late' \in BOOLEAN /\ (late => late')
      /\ (inst[i].at = "draining" /\ inst[i].persist) => Wrote(i, FALSE)
      /\ (inst[i].at = "draining" /\ ~inst[i].persist) => UNCHANGED <<row, late>>
      /\ inst[i].at = "dropping" => late' \/ proc = "closed" \/ row'.by = 0
  <2>1. CASE inst[i].at = "draining" /\ inst[i].persist
    <3>1. Wrote(i, FALSE)  BY <1>0, <1>1, <2>1, WritesRow
    <3> QED BY <2>1, <3>1 DEF Wrote
  <2>2. CASE inst[i].at = "draining" /\ ~inst[i].persist  BY <1>0, <1>1, <2>2 DEF RowTypes
  <2>3. CASE inst[i].at = "dropping"
    <3>1. Rows!NoRow \in Snapshots /\ Rows!NoRow.by = 0  BY DEF Snapshots, Rows!NoRow
    <3>2. Rows!Store(Rows!NoRow, FALSE)  BY <1>1, <2>3
    <3>3. /\ row' \in Snapshots /\ late' \in BOOLEAN /\ (late => late')
          /\ late' \/ proc = "closed" \/ row' = Rows!NoRow
      BY <1>0, <3>1, <3>2, Stores
    <3> QED BY <2>3, <3>1, <3>3
  <2> QED BY <1>1, <2>1, <2>2, <2>3
<1>6. RowTypes'
  <2>1. \A k \in Insts : inst'[k].at = "live" <=> entry = k
    BY <1>0, <1>1, <1>3, <1>4 DEF RowTypes
  <2>2. \A k \in Insts : inst'[k].parked => inst'[k].at \in {"draining", "dropping", "gone"}
    BY <1>0, <1>3, <1>4 DEF RowTypes
  <2> QED BY <1>0, <1>1, <1>4, <1>5, <2>1, <2>2 DEF RowTypes
<1>7. ASSUME ~late' PROVE Careful'
  <2>0. Alone /\ Kept /\ Wakes /\ Closes /\ Saves  BY <1>0, <1>5, <1>7 DEF Careful
  <2>1. /\ Active(i) /\ \A k \in Insts : Active(k) => k = i
        /\ \A k \in Insts : Active(k)' => k = i
    BY <1>1, <1>4, <2>0 DEF Active, Alone
  <2>2. Alone'  BY <2>1 DEF Alone
  <2>3. Closes'
    <3>1. \A k \in Insts : Rows!Making(k)' => Rows!Making(k)  BY <1>3, <1>4 DEF Rows!Making
    <3> QED BY <1>1, <2>0, <3>1 DEF Closes
  <2>4. Kept'
    <3> SUFFICES ASSUME Early PROVE Kept'
      BY <1>1 DEF Kept, Early
    <3>0. proc # "closed"  BY DEF Early
    <3>1. Fits(i)  BY <2>0, <2>1 DEF Kept
    <3>2. CASE inst[i].at = "dropping"
      <4>1. row'.by = 0 /\ owner' = 0  BY <1>1, <1>5, <1>7, <3>0, <3>1, <3>2 DEF Fits
      <4>2. ~Active(i)'  BY <1>3, <1>4, <3>2 DEF Active
      <4> QED BY <2>1, <4>1, <4>2 DEF Kept
    <3>3. CASE inst[i].at = "draining" /\ inst[i].thenDelete
      <4>1. owner' = 0 /\ inst'[i].at = "dropping"  BY <1>1, <1>3, <1>4, <3>1, <3>3 DEF Fits
      <4>2. Fits(i)' /\ Active(i)'  BY <4>1 DEF Fits, Active
      <4> QED BY <2>1, <4>2 DEF Kept
    <3>4. CASE inst[i].at = "draining" /\ ~inst[i].thenDelete
      <4>1. owner' = i /\ (row'.by = i \/ Lapsed')
        <5>1. owner = i /\ (inst[i].persist \/ row.by = i \/ Lapsed)  BY <3>1, <3>4 DEF Fits
        <5>2. CASE inst[i].persist
          BY <1>1, <1>5, <1>7, <3>0, <3>4, <5>1, <5>2 DEF Wrote
        <5>3. CASE ~inst[i].persist  BY <1>1, <1>5, <3>4, <5>1, <5>3 DEF Lapsed
        <5> QED BY <5>2, <5>3
      <4>2. ~Active(i)'  BY <1>3, <1>4, <3>4 DEF Active
      <4> QED BY <2>1, <4>1, <4>2 DEF Kept
    <3> QED BY <1>1, <3>2, <3>3, <3>4
  <2>5. Wakes'
    <3>1. \A k \in Insts : inst'[k].who = inst[k].who /\ inst'[k].asked = inst[k].asked
                           /\ inst'[k].after = inst[k].after
                           /\ (inst'[k].at = "reading" => inst[k].at = "reading")
      BY <1>3, <1>4
    <3>2. \A k \in Insts : Active(k)' => Active(k)  BY <2>1
    <3>3. \A k \in Insts : inst'[k].after # 0 => inst'[k].at # "reading"
      BY <2>0, <2>1, <3>1 DEF Wakes
    <3> QED BY <2>0, <3>1, <3>2, <3>3 DEF Wakes
  <2>6. Saves'
    <3>1. ASSUME NEW j \in saving,
                 proc \in {"disposing", "hooking", "closed"} \/ (proc = "down" /\ code = 0)
          PROVE /\ \A k \in Insts : Active(k)' => k = j
                /\ inst'[j].at = "gone"
                /\ adapter \in Rows!Durable => row'.by = j /\ row'.seq = inst'[j].seq
      <4>1. j = i /\ j \in Insts  BY <1>0, <2>0, <2>1, <3>1 DEF Saves, RowTypes
      <4>2. proc = "disposing" /\ inst[i].at = "draining" /\ inst[i].persist /\ ~inst[i].thenDelete
        BY <1>1, <2>0, <3>1, <4>1 DEF Saves
      <4>3. row'.by = i /\ row'.seq = inst[i].seq
        BY <1>5, <1>7, <4>2 DEF Wrote
      <4> QED BY <1>3, <1>4, <2>1, <4>1, <4>2, <4>3
    <3> QED BY <1>1, <3>1 DEF Saves
  <2> QED BY <2>2, <2>3, <2>4, <2>5, <2>6 DEF Careful
<1> QED BY <1>6, <1>7 DEF RowInv

LEMMA DisposeKeeps ==
    ASSUME Rows!PersistConstantsOK, RowInv, Rows!Dispose
    PROVE  RowInv'
<1>0. 0 \notin Insts /\ RowTypes /\ (late \/ Careful)  BY ZeroIsNone DEF RowInv
<1>1. /\ proc = "stopping" /\ proc' = "disposing" /\ entry' = 0
      /\ saving' = (IF entry = 0 THEN {} ELSE {entry})
      /\ inst' = (IF entry = 0 THEN inst ELSE [inst EXCEPT ![entry] = Rows!Draining(@, TRUE, FALSE)])
      /\ late' = (late \/ \E i \in Insts : Rows!Making(i))
      /\ UNCHANGED <<adapter, row, login, code, owner>>
  BY DEF Rows!Dispose
<1>2. inst \in [Insts -> Instances] /\ \A k \in Insts : inst[k].at = "live" <=> entry = k
  BY <1>0 DEF RowTypes
<1>3. \A k \in Insts :
         /\ k # entry => inst'[k] = inst[k]
         /\ k = entry => /\ inst'[k] \in Instances /\ inst'[k].at = "draining"
                         /\ inst'[k].persist /\ ~inst'[k].thenDelete
                         /\ inst'[k].who = inst[k].who /\ inst'[k].asked = inst[k].asked
                         /\ inst'[k].after = inst[k].after
  <2> SUFFICES ASSUME NEW k \in Insts
      PROVE  /\ k # entry => inst'[k] = inst[k]
             /\ k = entry => /\ inst'[k] \in Instances /\ inst'[k].at = "draining"
                             /\ inst'[k].persist /\ ~inst'[k].thenDelete
                             /\ inst'[k].who = inst[k].who /\ inst'[k].asked = inst[k].asked
                             /\ inst'[k].after = inst[k].after
    OBVIOUS
  <2>1. CASE k # entry  BY <1>1, <1>2, <2>1
  <2>2. CASE k = entry
    <3>1. inst'[k] = Rows!Draining(inst[k], TRUE, FALSE) /\ inst[k] \in Instances
      BY <1>0, <1>1, <1>2, <2>2
    <3> QED BY <2>2, <3>1, DrainsSaving
  <2> QED BY <2>1, <2>2
<1>4. RowTypes'
  <2>1. inst' \in [Insts -> Instances]
    <3>1. \A k \in Insts : inst'[k] \in Instances  BY <1>2, <1>3
    <3>2. inst' = [k \in Insts |-> inst'[k]]  BY <1>1, <1>2
    <3> QED BY <3>1, <3>2
  <2>2. \A k \in Insts : inst'[k].at # "live"  BY <1>2, <1>3
  <2>3. saving' \subseteq Insts  BY <1>0, <1>1 DEF RowTypes
  <2>4. \A k \in Insts : inst'[k].parked => inst'[k].at \in {"draining", "dropping", "gone"}
    BY <1>0, <1>2, <1>3 DEF RowTypes
  <2>5. late' \in BOOLEAN  BY <1>0, <1>1 DEF RowTypes
  <2> QED BY <1>0, <1>1, <2>1, <2>2, <2>3, <2>4, <2>5 DEF RowTypes
<1>5. ASSUME ~late' PROVE Careful'
  <2>0. Alone /\ Kept /\ Wakes /\ Closes /\ Saves  BY <1>0, <1>1, <1>5 DEF Careful
  <2>a. \A k \in Insts : ~Rows!Making(k)  BY <1>1, <1>5
  <2>1. \A k \in Insts : (Active(k)' <=> Active(k)) /\ (Rows!Making(k)' => Rows!Making(k))
    BY <1>2, <1>3 DEF Active, Rows!Making
  <2>2. Alone' /\ Closes'  BY <2>a, <2>0, <2>1 DEF Alone, Closes
  <2>3. Kept'  BY <1>1 DEF Kept, Early
  <2>4. Wakes'
    <3>1. \A k \in Insts : inst'[k].who = inst[k].who /\ inst'[k].asked = inst[k].asked
                           /\ inst'[k].after = inst[k].after
                           /\ (inst'[k].at = "reading" => inst[k].at = "reading")
      BY <1>3
    <3> QED BY <1>1, <2>0, <2>1, <3>1 DEF Wakes
  <2>5. Saves'
    <3>1. ASSUME NEW j \in saving'
          PROVE  /\ \A k \in Insts : Active(k)' => k = j
                 /\ inst'[j].at = "draining" /\ inst'[j].persist /\ ~inst'[j].thenDelete
      <4>1. j = entry /\ j \in Insts  BY <1>0, <1>1, <3>1 DEF RowTypes
      <4>2. Active(j)  BY <1>2, <4>1 DEF Active
      <4> QED BY <1>3, <2>0, <2>1, <4>1, <4>2 DEF Alone
    <3>2. \A j \in saving' : inst'[j].at # "gone"  BY <3>1
    <3> QED BY <1>1, <3>1, <3>2 DEF Saves
  <2> QED BY <2>2, <2>3, <2>4, <2>5 DEF Careful
<1> QED BY <1>4, <1>5 DEF RowInv

LEMMA PhaseKeeps ==
    ASSUME RowInv, UNCHANGED <<adapter, row, entry, inst, login, saving, owner>>,
           \/ Rows!Signal \/ Rows!Disposed \/ Rows!CloseStorage \/ Rows!Exited \/ Rows!Forced
           \/ UNCHANGED <<proc, code, late>>
    PROVE  RowInv'
<1>0. RowTypes /\ (late \/ Careful)  BY DEF RowInv
<1>1. /\ proc' \in {"up", "stopping", "disposing", "hooking", "closed", "down"}
      /\ late' \in BOOLEAN /\ (late => late')
  BY <1>0 DEF Rows!Signal, Rows!Disposed, Rows!CloseStorage, Rows!Exited, Rows!Forced,
       Rows!Phase, Rows!Exit, RowTypes
<1>2. RowTypes'  BY <1>0, <1>1 DEF RowTypes
<1>3. ASSUME ~late' PROVE Careful'
  <2>0. ~late /\ Alone /\ Kept /\ Wakes /\ Closes /\ Saves  BY <1>0, <1>1, <1>3 DEF Careful
  <2>1. Alone' /\ Wakes'  BY <2>0 DEF Alone, Wakes, Active
  <2>2. Kept'
    <3>1. Early' => Early
      BY DEF Rows!Signal, Rows!Disposed, Rows!CloseStorage, Rows!Exited, Rows!Forced, Rows!Phase,
           Rows!Exit, Early
    <3> QED BY <2>0, <3>1 DEF Kept, Active, Fits, Lapsed
  <2>3. Closes'
    <3>1. CASE Rows!Signal  BY <3>1 DEF Rows!Signal, Rows!Phase, Closes
    <3>2. CASE ~Rows!Signal
      <4>1. proc' \in {"disposing", "hooking", "closed"} =>
               proc \in {"disposing", "hooking", "closed"}
        BY <3>2 DEF Rows!Disposed, Rows!CloseStorage, Rows!Exited, Rows!Forced, Rows!Phase,
             Rows!Exit
      <4> QED BY <2>0, <4>1 DEF Closes, Rows!Making
    <3> QED BY <3>1, <3>2
  <2>4. Saves'
    <3>1. CASE Rows!Disposed
      <4>1. proc = "disposing" /\ \A i \in saving : inst[i].at = "gone"
        BY <3>1 DEF Rows!Disposed, Rows!Phase, Rows!At
      <4>2. ASSUME NEW i \in saving
            PROVE  /\ \A j \in Insts : Active(j) => j = i
                   /\ inst[i].at = "gone" /\ (adapter \in Rows!Durable => row.by = i /\ row.seq = inst[i].seq)
        BY <2>0, <4>1 DEF Saves
      <4> QED BY <4>2 DEF Saves, Active
    <3>2. CASE ~Rows!Disposed
      <4>1. (proc' \in {"disposing", "hooking", "closed"} \/ (proc' = "down" /\ code' = 0)) =>
               /\ proc \in {"disposing", "hooking", "closed"} \/ (proc = "down" /\ code = 0)
               /\ proc = "disposing" => proc' = "disposing"
        BY <3>2 DEF Rows!Signal, Rows!CloseStorage, Rows!Exited, Rows!Forced, Rows!Phase, Rows!Exit
      <4>2. ASSUME NEW i \in saving,
                   proc' \in {"disposing", "hooking", "closed"} \/ (proc' = "down" /\ code' = 0)
            PROVE  /\ \A j \in Insts : Active(j) => j = i
                   /\ IF inst[i].at = "gone"
                      THEN adapter \in Rows!Durable => row.by = i /\ row.seq = inst[i].seq
                      ELSE proc' = "disposing" /\ inst[i].at = "draining"
                           /\ inst[i].persist /\ ~inst[i].thenDelete
        BY <2>0, <4>1, <4>2 DEF Saves
      <4> QED BY <4>2 DEF Saves, Active
    <3> QED BY <3>1, <3>2
  <2> QED BY <2>1, <2>2, <2>3, <2>4 DEF Careful
<1> QED BY <1>1, <1>2, <1>3 DEF RowInv

LEMMA RestartKeeps ==
    ASSUME Rows!PersistConstantsOK, RowInv, Rows!Restart
    PROVE  RowInv'
<1>0. 0 \notin Insts /\ RowTypes  BY ZeroIsNone DEF RowInv
<1>1. /\ proc' = "up" /\ code' = 0 /\ saving' = {} /\ owner' = row'.by /\ entry' = 0
      /\ \E deployed \in BOOLEAN :
            row' = IF adapter \notin Rows!Durable \/ row = Rows!NoRow THEN Rows!NoRow
                   ELSE [row EXCEPT !.old = row.old \/ deployed]
      /\ inst' = [i \in Insts |->
                     [Rows!Unborn EXCEPT !.at = IF inst[i].at = "unborn" THEN @ ELSE "gone"]]
      /\ late' = FALSE /\ UNCHANGED <<adapter, login>>
  BY DEF Rows!Restart, Rows!At
<1>2. \A i \in Insts : /\ inst'[i] \in Instances /\ inst'[i].at \in {"unborn", "gone"}
                       /\ inst'[i].after = 0 /\ ~inst'[i].parked
  BY <1>1 DEF Rows!Unborn, Instances, Ats, Whos
<1>3. RowTypes'
  <2>1. inst' \in [Insts -> Instances]
    <3>1. inst' = [i \in Insts |-> inst'[i]]  BY <1>1
    <3> QED BY <1>2, <3>1
  <2>2. row' \in Snapshots
    <3>1. CASE row' = Rows!NoRow  BY <3>1 DEF Rows!NoRow, Snapshots
    <3>2. CASE row # Rows!NoRow /\ \E deployed \in BOOLEAN : row' = [row EXCEPT !.old = row.old \/ deployed]
      <4>1. row \in [by : Insts, who : Whos, seq : Nat, old : BOOLEAN]
        BY <1>0, <3>2, NoRowIs DEF RowTypes
      <4>2. PICK old \in BOOLEAN : row' = [row EXCEPT !.old = old]  BY <3>2, <4>1
      <4>3. row' \in [by : Insts, who : Whos, seq : Nat, old : BOOLEAN]  BY <4>1, <4>2
      <4> QED BY <4>3 DEF Snapshots
    <3> QED BY <1>1, <3>1, <3>2
  <2>3. \A i \in Insts : inst'[i].at # "live" /\ entry' # i /\ ~inst'[i].parked
    BY <1>0, <1>1, <1>2
  <2>4. /\ login' \in Principals /\ proc' = "up" /\ entry' \in Insts \cup {0}
        /\ saving' \subseteq Insts /\ late' \in BOOLEAN
    BY <1>0, <1>1 DEF RowTypes
  <2> QED BY <2>1, <2>2, <2>3, <2>4 DEF RowTypes
<1>4. \A i \in Insts : ~Active(i)'  BY <1>2 DEF Active
<1>5. Careful'
  BY <1>1, <1>2, <1>4 DEF Careful, Alone, Kept, Wakes, Closes, Saves, Early
<1> QED BY <1>3, <1>5 DEF RowInv

LEMMA RowKeeps ==
    ASSUME Rows!PersistConstantsOK
    PROVE  RowInv /\ [Rows!Next]_(Rows!persistVars) => RowInv'
<1> SUFFICES ASSUME RowInv, [Rows!Next]_(Rows!persistVars) PROVE RowInv'
  OBVIOUS
<1>1. ASSUME NEW i \in Insts, Rows!Mount(i) PROVE RowInv'  BY <1>1, MountKeeps
<1>2. ASSUME NEW i \in Insts, Rows!Forgotten(i) PROVE RowInv'  BY <1>2, ForgottenKeeps
<1>3. ASSUME NEW i \in Insts, Rows!Read(i) PROVE RowInv'  BY <1>3, ReadKeeps
<1>4. ASSUME NEW i \in Insts, Rows!Create(i) PROVE RowInv'  BY <1>4, CreateKeeps
<1>5. ASSUME NEW i \in Insts, Rows!Register(i) PROVE RowInv'  BY <1>5, RegisterKeeps
<1>6. ASSUME \/ Rows!Attach \/ Rows!SignIn \/ Rows!Lapse
             \/ \E i \in Insts : Rows!Work(i) \/ Rows!WriteThrough(i)
      PROVE  RowInv'
  BY <1>6, WorkKeeps
<1>7. CASE Rows!Evict  BY <1>7, EvictKeeps
<1>8. ASSUME NEW i \in Insts, Rows!Drained(i) \/ Rows!Dropped(i) PROVE RowInv'  BY <1>8, EndsKeeps
<1>a. ASSUME NEW i \in Insts, Rows!Bail(i) PROVE RowInv'
  BY <1>a, BailsKeep DEF Rows!Bail
<1>b. ASSUME NEW i \in Insts, Rows!AckError(i) PROVE RowInv'  BY <1>b, AckErrorKeeps
<1>9. CASE Rows!Dispose  BY <1>9, DisposeKeeps
<1>10. CASE Rows!Restart  BY <1>10, RestartKeeps
<1>11. CASE \/ Rows!Signal \/ Rows!Disposed \/ Rows!CloseStorage \/ Rows!Exited \/ Rows!Forced
            \/ UNCHANGED Rows!persistVars
  <2>1. UNCHANGED <<adapter, row, entry, inst, login, saving, owner>>
    BY <1>11 DEF Rows!Signal, Rows!Disposed, Rows!CloseStorage, Rows!Exited, Rows!Forced,
         Rows!Phase, Rows!Exit, Rows!persistVars
  <2>2. \/ Rows!Signal \/ Rows!Disposed \/ Rows!CloseStorage \/ Rows!Exited \/ Rows!Forced
        \/ UNCHANGED <<proc, code, late>>
    BY <1>11 DEF Rows!persistVars
  <2> QED BY <2>1, <2>2, PhaseKeeps
<1> QED
  BY <1>1, <1>2, <1>3, <1>4, <1>5, <1>6, <1>7, <1>8, <1>a, <1>b, <1>9, <1>10, <1>11 DEF Rows!Next

LEMMA RowPromises == Rows!PersistConstantsOK /\ RowInv => Rows!RowFollowsInstance
<1> SUFFICES ASSUME Rows!PersistConstantsOK, RowInv, ~late PROVE Rows!RowFollowsInstance
  BY DEF Rows!RowFollowsInstance
<1>0. RowTypes /\ Alone /\ Kept /\ Wakes /\ Saves  BY DEF RowInv, Careful
<1>1. row = Rows!NoRow <=> row.by = 0  BY <1>0, ZeroIsNone, NoRowIs DEF RowTypes
<1>2. ASSUME Rows!Quiet PROVE row.by = owner \/ (adapter = "session" /\ row = Rows!NoRow)
  <2>1. proc = "up" /\ \A i \in Insts : Active(i) => inst[i].at = "live"
    BY <1>2 DEF Rows!Quiet, Rows!InMotion, Active
  <2> QED BY <1>0, <1>1, <2>1 DEF Kept, Fits, Lapsed, Early
<1>3. ASSUME NEW i \in Insts, inst[i].after # 0, Rows!InMotion(i) PROVE inst[i].who = inst[i].asked
  BY <1>0, <1>3 DEF Wakes, Rows!InMotion, Active
<1>4. ASSUME proc = "down", code = 0, adapter \in Rows!Durable, NEW i \in saving
      PROVE  row.by = i /\ row.seq = inst[i].seq
  BY <1>0, <1>4 DEF Saves
<1> QED BY <1>2, <1>3, <1>4 DEF Rows!RowFollowsInstance

(* The row of a session and page is the snapshot of the instance it should *)
(* be of, what replaces another session's instance starts afresh, and a    *)
(* clean exit has saved what was registered, through any mounts,           *)
(* evictions, logins, shutdowns, crashes and restarts, on every adapter    *)
(* (mountInstance, evictEntry, create and dispose, shutdown.ts).           *)
THEOREM RowsCorrect == ASSUME Rows!PersistConstantsOK PROVE Rows!Spec => []Rows!RowFollowsInstance
<1>1. Rows!Init => RowInv  BY RowStarts
<1>2. RowInv /\ [Rows!Next]_(Rows!persistVars) => RowInv'  BY RowKeeps
<1>3. RowInv => Rows!RowFollowsInstance  BY RowPromises
<1> QED BY <1>1, <1>2, <1>3, PTL DEF Rows!Spec
-----------------------------------------------------------------------------
(* Boot.  What is fresh was made from what is on disk, and codegen leaves  *)
(* nothing for a second run to rewrite.                                    *)

Sound(c) ==
    \/ c = Tree!Absent
    \/ /\ c = [calls |-> c.calls, exported |-> c.exported, pattern |-> c.pattern,
               chain |-> c.chain, uses |-> c.uses]
       /\ c.chain \in Seq({"server", "kept", "break"})
       /\ \A use \in c.uses : use.path \in Seq([kind : STRING, binds : BOOLEAN])
IsDisk(d) == d = [f \in Files |-> d[f]] /\ \A f \in Files : Sound(d[f])
Routed(d) == Tree!RouteFiles(d, "page") \cup Tree!RouteFiles(d, "http")

(* What the servers make of the files they find.                           *)
Served(fails, t) ==
    IF fails \/ Tree!Refused(t.pages \cup t.slots)
    THEN [state |-> "refused", tables |-> Tree!Nothing] ELSE [state |-> "up", tables |-> t]

(* Two disks on which codegen sees the same.                               *)
Alike(d, e, inc) ==
    \A f \in Files : (Place[f] \in {"routes", "source"} \/ (inc /\ Place[f] = "excluded")) =>
        d[f] = e[f]

BootInv ==
    /\ include \in BOOLEAN /\ IsDisk(disk)
    /\ (dev.state = "up" /\ ~waiting /\ ~Tree!ScanFails(disk, include)) =>
           gen = Tree!Generated(disk, include) /\ disk = Tree!Maintained(disk)
    /\ "gen" \notin stale =>
           /\ disk = Tree!Maintained(disk) /\ ~Tree!ScanFails(disk, include)
           /\ gen = Tree!Generated(disk, include)
    /\ "dev" \notin stale =>
           /\ disk = Tree!Maintained(disk)
           /\ dev = Served(Tree!ScanFails(disk, include) \/ Tree!ScanFails(disk, FALSE),
                           Tree!DevTables(disk))
    /\ "bundle" \notin stale =>
           /\ disk = Tree!Maintained(disk) /\ ~Tree!ScanFails(disk, include)
           /\ bundle = {Tree!Generated(disk, include)}
    /\ "prod" \notin stale =>
           /\ disk = Tree!Maintained(disk) /\ ~Tree!ScanFails(disk, include)
           /\ prod = Served(FALSE, Tree!Generated(disk, include))

LEMMA Rewritten ==
    ASSUME NEW c, Sound(c), c # Tree!Absent, NEW p
    PROVE  LET m == [c EXCEPT !.pattern = p] IN
           /\ Sound(m) /\ m # Tree!Absent /\ [m EXCEPT !.pattern = p] = m
<1>1. /\ c = [calls |-> c.calls, exported |-> c.exported, pattern |-> c.pattern,
              chain |-> c.chain, uses |-> c.uses]
      /\ c.chain \in Seq({"server", "kept", "break"})
      /\ \A use \in c.uses : use.path \in Seq([kind : STRING, binds : BOOLEAN])
  BY DEF Sound
<1> DEFINE m == [c EXCEPT !.pattern = p]
           n == [calls |-> c.calls, exported |-> c.exported, pattern |-> p,
                 chain |-> c.chain, uses |-> c.uses]
<1>2. m = n  BY <1>1
<1>3. /\ n.calls = c.calls /\ n.exported = c.exported /\ n.pattern = p
      /\ n.chain = c.chain /\ n.uses = c.uses
  OBVIOUS
<1>4. Sound(n)  BY <1>1, <1>3 DEF Sound
<1>5. n # Tree!Absent
  <2>1. DOMAIN n = {"calls", "exported", "pattern", "chain", "uses"} /\ DOMAIN Tree!Absent = {"calls"}
    BY DEF Tree!Absent
  <2>2. "uses" \in DOMAIN n /\ "uses" \notin DOMAIN Tree!Absent  BY <2>1
  <2> QED BY <2>2
<1>6. [n EXCEPT !.pattern = p] = n  OBVIOUS
<1> QED BY <1>2, <1>4, <1>5, <1>6

LEMMA MaintainedOnce ==
    ASSUME NEW d, IsDisk(d)
    PROVE  IsDisk(Tree!Maintained(d)) /\ Tree!Maintained(Tree!Maintained(d)) = Tree!Maintained(d)
<1> DEFINE e == Tree!Maintained(d)
<1>1. e = [f \in Files |-> IF f \in Routed(d) THEN [d[f] EXCEPT !.pattern = Url[f]] ELSE d[f]]
  BY DEF Tree!Maintained, Routed
<1>2. ASSUME NEW f \in Files
      PROVE  /\ Sound(e[f]) /\ (e[f] = Tree!Absent <=> d[f] = Tree!Absent)
             /\ f \in Routed(d) => [e[f] EXCEPT !.pattern = Url[f]] = e[f]
  <2>1. Sound(d[f]) /\ (f \in Routed(d) => d[f] # Tree!Absent)
    BY DEF IsDisk, Routed, Tree!RouteFiles, Tree!There
  <2>2. CASE f \in Routed(d)
    <3>1. e[f] = [d[f] EXCEPT !.pattern = Url[f]]  BY <1>1, <2>2
    <3> HIDE DEF e
    <3> QED BY <2>1, <2>2, <3>1, Rewritten
  <2>3. CASE f \notin Routed(d)
    <3>1. e[f] = d[f]  BY <1>1, <2>3
    <3> HIDE DEF e
    <3> QED BY <2>1, <2>3, <3>1
  <2> QED BY <2>2, <2>3
<1>3. e = [f \in Files |-> e[f]]  BY <1>1
<1>4. Routed(e) = Routed(d)
  <2> HIDE DEF e
  <2> QED BY <1>2 DEF Routed, Tree!RouteFiles, Tree!There
<1>5. Tree!Maintained(e) = [f \in Files |-> IF f \in Routed(e) THEN [e[f] EXCEPT !.pattern = Url[f]] ELSE e[f]]
  BY DEF Tree!Maintained, Routed
<1> HIDE DEF e
<1>6. Tree!Maintained(e) = [f \in Files |-> e[f]]  BY <1>2, <1>4, <1>5
<1> QED BY <1>2, <1>3, <1>6 DEF IsDisk, e

LEMMA SameTable ==
    ASSUME NEW fs, NEW k, NEW l, \A f \in fs : k[f] = l[f], NEW wins
    PROVE  Tree!TableOf(fs, k, wins) = Tree!TableOf(fs, l, wins)
<1>1. {k[f] : f \in fs} = {l[f] : f \in fs}  OBVIOUS
<1>2. \A x : {f \in fs : k[f] = x} = {f \in fs : l[f] = x}  OBVIOUS
<1> DEFINE Of(same) == IF wins = "first" THEN Tree!Min(same) ELSE Tree!Max(same)
           K(x) == Of({f \in fs : k[f] = x})
           L(x) == Of({f \in fs : l[f] = x})
<1>3. Tree!TableOf(fs, k, wins) = {<<x, K(x)>> : x \in {k[f] : f \in fs}}
  BY Zenon DEF Tree!TableOf
<1>4. Tree!TableOf(fs, l, wins) = {<<x, L(x)>> : x \in {l[f] : f \in fs}}
  BY Zenon DEF Tree!TableOf
<1>5. ASSUME NEW x PROVE K(x) = L(x)
  <2> HIDE DEF Of
  <2> QED BY <1>2
<1> HIDE DEF K, L
<1> QED BY <1>1, <1>3, <1>4, <1>5

LEMMA AlikeSame ==
    ASSUME NEW d, NEW e, NEW inc \in BOOLEAN, Alike(d, e, inc), IsDisk(d), IsDisk(e)
    PROVE  /\ Tree!Generated(d, inc) = Tree!Generated(e, inc)
           /\ Tree!ScanFails(d, inc) <=> Tree!ScanFails(e, inc)
           /\ d = Tree!Maintained(d) => e = Tree!Maintained(e)
<1>1. \A kind : Tree!RouteFiles(d, kind) = Tree!RouteFiles(e, kind)
  BY DEF Tree!RouteFiles, Tree!There, Alike
<1>2. Tree!Scanned(d, inc) = Tree!Scanned(e, inc)  BY DEF Tree!Scanned, Tree!There, Alike
<1>3. \A f \in Tree!Scanned(d, inc) : d[f] = e[f] /\ f \in Files /\ Tree!There(d, f) /\ Tree!There(e, f)
  BY DEF Tree!Scanned, Tree!There, Alike
<1>4. Tree!ScanFails(d, inc) <=> Tree!ScanFails(e, inc)
  BY <1>1, <1>2, <1>3 DEF Tree!ScanFails
<1>5. \A f \in Tree!Scanned(d, inc) : Tree!PatternOf(d)[f] = Tree!PatternOf(e)[f]
  BY <1>3 DEF Tree!PatternOf
<1>6. Tree!Slots(d, inc) = Tree!Slots(e, inc)  BY <1>2, <1>5, SameTable DEF Tree!Slots
<1>7. Tree!Generated(d, inc) = Tree!Generated(e, inc)  BY <1>1, <1>6 DEF Tree!Generated
<1>8. ASSUME d = Tree!Maintained(d) PROVE e = Tree!Maintained(e)
  <2>1. \A f \in Files : d[f] = IF f \in Routed(d) THEN [d[f] EXCEPT !.pattern = Url[f]] ELSE d[f]
    <3> DEFINE M(g) == IF g \in Routed(d) THEN [d[g] EXCEPT !.pattern = Url[g]] ELSE d[g]
    <3>1. d = [g \in Files |-> M(g)]  BY <1>8 DEF Tree!Maintained, Routed
    <3> HIDE DEF M
    <3>2. \A f \in Files : d[f] = M(f)  BY <3>1
    <3> QED BY <3>2 DEF M
  <2>2. Routed(d) = Routed(e) /\ \A f \in Routed(d) : f \in Files /\ d[f] = e[f]
    BY <1>1 DEF Routed, Tree!RouteFiles, Alike
  <2>3. \A f \in Files : e[f] = IF f \in Routed(e) THEN [e[f] EXCEPT !.pattern = Url[f]] ELSE e[f]
    BY <2>1, <2>2
  <2>4. e = [f \in Files |-> e[f]]  BY DEF IsDisk
  <2>5. Tree!Maintained(e) = [f \in Files |-> IF f \in Routed(e) THEN [e[f] EXCEPT !.pattern = Url[f]] ELSE e[f]]
    BY DEF Tree!Maintained, Routed
  <2> QED BY <2>3, <2>4, <2>5
<1> QED BY <1>4, <1>7, <1>8

LEMMA UniqueTable ==
    ASSUME Tree!BootConstantsOK, NEW fs \in SUBSET Files, NEW key, NEW wins,
           \A f, g \in fs : f # g => key[f] # key[g]
    PROVE  Tree!TableOf(fs, key, wins) = {<<key[f], f>> : f \in fs}
<1> DEFINE Of(same) == IF wins = "first" THEN Tree!Min(same) ELSE Tree!Max(same)
           K(x) == Of({f \in fs : key[f] = x})
<1>1. Tree!TableOf(fs, key, wins) = {<<x, K(x)>> : x \in {key[f] : f \in fs}}
  BY Zenon DEF Tree!TableOf
<1>2. ASSUME NEW f \in fs PROVE K(key[f]) = f
  <2>1. {g \in fs : key[g] = key[f]} = {f}  OBVIOUS
  <2>2. f \in Nat  BY DEF Tree!BootConstantsOK
  <2>3. Tree!Min({f}) = f /\ Tree!Max({f}) = f  BY <2>2 DEF Tree!Min, Tree!Max
  <2>4. Of({f}) = f  BY <2>3
  <2> HIDE DEF Of
  <2> QED BY <2>1, <2>4
<1> HIDE DEF K
<1> QED BY <1>1, <1>2

(* Without two files for one path, the dev server's tables are the build's.*)
LEMMA SameTables ==
    ASSUME Tree!BootConstantsOK, ~Tree!Ambiguous
    PROVE  Tree!DevTables(disk) = Tree!Generated(disk, FALSE)
<1>1. \A kind : Tree!RouteFiles(disk, kind) \in SUBSET Files  BY DEF Tree!RouteFiles
<1>2. ASSUME NEW kind \in {"page", "http", "shell"}, NEW wins
      PROVE  Tree!TableOf(Tree!RouteFiles(disk, kind), Url, wins) =
                 {<<Url[f], f>> : f \in Tree!RouteFiles(disk, kind)}
  <2>1. \A f, g \in Tree!RouteFiles(disk, kind) : f # g => Url[f] # Url[g]
    BY DEF Tree!Ambiguous, Tree!Twice
  <2> QED BY <1>1, <2>1, UniqueTable
<1> QED BY <1>2 DEF Tree!DevTables, Tree!Generated

LEMMA BootStarts == Tree!Init => BootInv
<1> SUFFICES ASSUME Tree!Init PROVE BootInv
  OBVIOUS
<1>1. IsDisk(disk)
  <2>1. disk = [f \in Files |-> Tree!Absent]  BY DEF Tree!Init
  <2> HIDE DEF Tree!Absent
  <2> QED BY <2>1 DEF IsDisk, Sound
<1>2. dev.state = "off" /\ include \in BOOLEAN /\ stale = {"gen", "dev", "bundle", "prod"}
  BY DEF Tree!Init, Tree!Off
<1> QED BY <1>1, <1>2 DEF BootInv

LEMMA SaveKeeps ==
    ASSUME Tree!BootConstantsOK, BootInv, NEW f \in Files, Tree!Save(f)
    PROVE  BootInv'
<1>1. PICK c \in Contents[f] : disk' = [disk EXCEPT ![f] = c]  BY DEF Tree!Save
<1>2. /\ waiting' = (waiting \/ (dev.state = "up" /\ Tree!Watched(f)))
      /\ stale' = {"gen", "dev", "bundle", "prod"} /\ UNCHANGED <<include, gen, dev, bundle, prod>>
  BY DEF Tree!Save
<1>3. Sound(c) /\ IsDisk(disk) /\ include \in BOOLEAN
  BY DEF Tree!BootConstantsOK, BootInv, Sound
<1>4. IsDisk(disk')
  <2>1. disk' = [g \in Files |-> IF g = f THEN c ELSE disk[g]]  BY <1>1, <1>3 DEF IsDisk
  <2>2. \A g \in Files : disk'[g] = IF g = f THEN c ELSE disk[g]  BY <2>1
  <2>3. disk' = [g \in Files |-> disk'[g]]  BY <2>1
  <2> QED BY <1>3, <2>2, <2>3 DEF IsDisk
<1>5. ASSUME dev.state = "up", ~waiting', ~Tree!ScanFails(disk', include)
      PROVE  gen = Tree!Generated(disk', include) /\ disk' = Tree!Maintained(disk')
  <2>1. ~waiting /\ ~Tree!Watched(f)  BY <1>2, <1>5
  <2>2. Alike(disk, disk', include)  BY <1>1, <1>3, <2>1 DEF Alike, Tree!Watched, IsDisk
  <2>3. /\ Tree!Generated(disk, include) = Tree!Generated(disk', include)
        /\ Tree!ScanFails(disk, include) <=> Tree!ScanFails(disk', include)
        /\ disk = Tree!Maintained(disk) => disk' = Tree!Maintained(disk')
    BY <1>3, <1>4, <2>2, AlikeSame
  <2> QED BY <1>5, <2>1, <2>3 DEF BootInv
<1> QED BY <1>2, <1>3, <1>4, <1>5 DEF BootInv

(* A step with codegen: nothing is left to rewrite, and what is fresh was  *)
(* made from a disk with nothing to rewrite.                               *)
LEMMA CodegenKeeps ==
    ASSUME BootInv, Tree!Codegen, UNCHANGED include
    PROVE  /\ IsDisk(disk') /\ disk' = Tree!Maintained(disk')
           /\ ~Tree!ScanFails(disk', include') => gen' = Tree!Generated(disk', include')
           /\ {"gen", "dev", "bundle", "prod"} \subseteq stale \/ disk' = disk
           /\ "gen" \notin stale => ~Tree!ScanFails(disk', include')
<1>1. IsDisk(disk) /\ disk' = Tree!Maintained(disk)  BY DEF BootInv, Tree!Codegen
<1>2. IsDisk(disk') /\ disk' = Tree!Maintained(disk')  BY <1>1, MaintainedOnce
<1>3. {"gen", "dev", "bundle", "prod"} \subseteq stale \/ disk = Tree!Maintained(disk)
  BY DEF BootInv
<1>4. "gen" \notin stale => ~Tree!ScanFails(disk, include) /\ disk = Tree!Maintained(disk)
  BY DEF BootInv
<1> QED BY <1>1, <1>2, <1>3, <1>4 DEF Tree!Codegen

LEMMA RewatchKeeps == ASSUME BootInv, Tree!Watch PROVE BootInv'
<1>1. /\ Tree!Codegen /\ UNCHANGED <<include, dev, bundle, prod>>
      /\ stale' = stale \/ stale' = stale \ {"gen"}
  BY DEF Tree!Watch
<1>2. /\ IsDisk(disk') /\ disk' = Tree!Maintained(disk')
      /\ ~Tree!ScanFails(disk', include') => gen' = Tree!Generated(disk', include')
      /\ {"gen", "dev", "bundle", "prod"} \subseteq stale \/ disk' = disk
      /\ "gen" \notin stale => ~Tree!ScanFails(disk', include')
  BY <1>1, CodegenKeeps
<1>3. \A x \in {"dev", "bundle", "prod"} : x \in stale' <=> x \in stale  BY <1>1
<1>4. "gen" \notin stale' => ~Tree!ScanFails(disk', include')  BY <1>1, <1>2 DEF Tree!Watch
<1> QED BY <1>1, <1>2, <1>3, <1>4 DEF BootInv

LEMMA BootDevKeeps == ASSUME BootInv, Tree!BootDev PROVE BootInv'
<1>1. /\ Tree!Codegen /\ UNCHANGED <<include, bundle, prod>>
      /\ stale' = (stale \ {"dev"}) \/ stale' = (stale \ {"dev"}) \ {"gen"}
  BY DEF Tree!BootDev
<1>2. /\ IsDisk(disk') /\ disk' = Tree!Maintained(disk')
      /\ ~Tree!ScanFails(disk', include') => gen' = Tree!Generated(disk', include')
      /\ {"gen", "dev", "bundle", "prod"} \subseteq stale \/ disk' = disk
      /\ "gen" \notin stale => ~Tree!ScanFails(disk', include')
  BY <1>1, CodegenKeeps
<1>3. dev' = Served(Tree!ScanFails(disk', include) \/ Tree!ScanFails(disk', FALSE), Tree!DevTables(disk'))
  BY DEF Tree!BootDev, Served
<1>4. \A x \in {"bundle", "prod"} : x \in stale' <=> x \in stale  BY <1>1
<1>5. "gen" \notin stale' => ~Tree!ScanFails(disk', include')  BY <1>1, <1>2 DEF Tree!BootDev
<1> QED BY <1>1, <1>2, <1>3, <1>4, <1>5 DEF BootInv

LEMMA BuildKeeps == ASSUME BootInv, Tree!Build PROVE BootInv'
<1>1. Tree!Codegen /\ UNCHANGED <<include, dev, prod>>  BY DEF Tree!Build
<1>2. /\ IsDisk(disk') /\ disk' = Tree!Maintained(disk')
      /\ ~Tree!ScanFails(disk', include') => gen' = Tree!Generated(disk', include')
      /\ {"gen", "dev", "bundle", "prod"} \subseteq stale \/ disk' = disk
      /\ "gen" \notin stale => ~Tree!ScanFails(disk', include')
  BY <1>1, CodegenKeeps
<1>3. \A x \in {"dev", "prod"} : x \in stale' <=> x \in stale  BY DEF Tree!Build
<1>4. CASE Tree!ScanFails(disk', include)
  <2>1. UNCHANGED <<bundle, stale>>  BY <1>4 DEF Tree!Build
  <2> QED BY <1>1, <1>2, <1>4, <2>1 DEF BootInv
<1>5. CASE ~Tree!ScanFails(disk', include)
  <2>1. bundle' = {gen'}  BY <1>5 DEF Tree!Build
  <2> QED BY <1>1, <1>2, <1>3, <1>5, <2>1 DEF BootInv
<1> QED BY <1>4, <1>5

LEMMA StartKeeps == ASSUME BootInv, Tree!Start PROVE BootInv'
<1>1. /\ UNCHANGED <<include, disk, gen, waiting, dev, bundle>>
      /\ \A x \in {"gen", "dev", "bundle"} : x \in stale' <=> x \in stale
      /\ "prod" \notin stale' => "bundle" \notin stale
  BY DEF Tree!Start
<1>2. ASSUME "bundle" \notin stale
      PROVE  /\ disk = Tree!Maintained(disk) /\ ~Tree!ScanFails(disk, include)
             /\ prod' = Served(FALSE, Tree!Generated(disk, include))
  <2> DEFINE t == Tree!Generated(disk, include)
  <2>1. bundle = {t} /\ disk = Tree!Maintained(disk) /\ ~Tree!ScanFails(disk, include)
    BY <1>2 DEF BootInv
  <2>2. prod' = IF \E u \in bundle : ~Tree!Refused(u.pages \cup u.slots)
                THEN [state |-> "up", tables |-> CHOOSE u \in bundle : TRUE]
                ELSE [state |-> "refused", tables |-> Tree!Nothing]
    BY DEF Tree!Start
  <2> HIDE DEF t
  <2>3. (CHOOSE u \in bundle : TRUE) = t  BY <2>1
  <2>4. prod' = Served(FALSE, t)  BY <2>1, <2>2, <2>3 DEF Served
  <2> QED BY <2>1, <2>4 DEF t
<1> QED BY <1>1, <1>2 DEF BootInv

LEMMA BootKeeps == ASSUME Tree!BootConstantsOK PROVE BootInv /\ [Tree!Next]_(Tree!bootVars) => BootInv'
<1> SUFFICES ASSUME BootInv, [Tree!Next]_(Tree!bootVars) PROVE BootInv'
  OBVIOUS
<1>1. ASSUME NEW f \in Files, Tree!Save(f) PROVE BootInv'  BY <1>1, SaveKeeps
<1>2. CASE Tree!Watch  BY <1>2, RewatchKeeps
<1>3. CASE Tree!BootDev  BY <1>3, BootDevKeeps
<1>4. CASE Tree!Build  BY <1>4, BuildKeeps
<1>5. CASE Tree!Start  BY <1>5, StartKeeps
<1>6. CASE UNCHANGED Tree!bootVars  BY <1>6 DEF Tree!bootVars, BootInv
<1> QED BY <1>1, <1>2, <1>3, <1>4, <1>5, <1>6 DEF Tree!Next

LEMMA BootPromises == Tree!BootConstantsOK /\ BootInv => Tree!TablesFollowDisk
<1> SUFFICES ASSUME Tree!BootConstantsOK, BootInv PROVE Tree!TablesFollowDisk
  OBVIOUS
<1>1. ASSUME ~include, ~Tree!Ambiguous, "dev" \notin stale, "prod" \notin stale PROVE dev = prod
  <2>1. include = FALSE  BY <1>1 DEF BootInv
  <2>2. /\ dev = Served(Tree!ScanFails(disk, FALSE) \/ Tree!ScanFails(disk, FALSE), Tree!DevTables(disk))
        /\ ~Tree!ScanFails(disk, FALSE) /\ prod = Served(FALSE, Tree!Generated(disk, FALSE))
    BY <1>1, <2>1 DEF BootInv
  <2>3. Tree!DevTables(disk) = Tree!Generated(disk, FALSE)  BY <1>1, SameTables
  <2> QED BY <2>2, <2>3 DEF Served
<1>2. {"dev", "prod"} \cap stale = {} => "dev" \notin stale /\ "prod" \notin stale  OBVIOUS
<1> QED BY <1>1, <1>2 DEF Tree!TablesFollowDisk, BootInv

(* Of finitely many numbers one is the first and one the last.             *)
LEMMA Extremes ==
    ASSUME NEW S \in SUBSET Nat, IsFiniteSet(S), S # {}
    PROVE  Tree!Min(S) \in S /\ Tree!Max(S) \in S
<1> DEFINE n == Cardinality(S)
<1>1. n \in Nat /\ ExistsBijection(1 .. n, S)  BY FS_CardinalityType
<1>2. PICK f \in Bijection(1 .. n, S) : TRUE  BY <1>1 DEF ExistsBijection
<1>3. f \in [1 .. n -> S] /\ \A x \in S : \E i \in 1 .. n : f[i] = x
  BY <1>2 DEF Bijection, Surjection
<1> HIDE DEF n
<1>4. \A i \in 1 .. n : f[i] \in Nat  BY <1>3
<1> DEFINE T == {k \in 0 .. n : k = 0 \/ (/\ \E i \in 1 .. k : \A j \in 1 .. k : f[i] <= f[j]
                                        /\ \E i \in 1 .. k : \A j \in 1 .. k : f[i] >= f[j])}
<1>5. \A k \in 0 .. n : k \in T
  <2>1. 0 \in T  BY <1>1
  <2>2. ASSUME NEW k \in 0 .. n - 1, k \in T PROVE k + 1 \in T
    <3>1. k + 1 \in 0 .. n /\ k + 1 \in 1 .. k + 1 /\ \A i \in 1 .. k : i \in 1 .. k + 1
      BY <1>1
    <3>2. \A i \in 1 .. k + 1 : (i \in 1 .. k \/ i = k + 1) /\ f[i] \in Nat  BY <1>1, <1>4
    <3>3. CASE k = 0
      <4>1. \A i \in 1 .. k + 1 : i = k + 1  BY <3>3
      <4>2. f[k + 1] \in Nat  BY <3>1, <3>2
      <4>3. \A j \in 1 .. k + 1 : f[k + 1] <= f[j] /\ f[k + 1] >= f[j]  BY <4>1, <4>2
      <4> QED BY <3>1, <4>3
    <3>4. CASE k # 0
      <4>1. PICK a \in 1 .. k : \A j \in 1 .. k : f[a] <= f[j]  BY <2>2, <3>4
      <4>2. PICK b \in 1 .. k : \A j \in 1 .. k : f[b] >= f[j]  BY <2>2, <3>4
      <4>3. \E i \in 1 .. k + 1 : \A j \in 1 .. k + 1 : f[i] <= f[j]
        <5>1. CASE f[a] <= f[k + 1]  BY <3>1, <3>2, <4>1, <5>1
        <5>2. CASE ~(f[a] <= f[k + 1])
          <6>1. \A j \in 1 .. k + 1 : f[k + 1] <= f[j]  BY <3>1, <3>2, <4>1, <5>2
          <6> QED BY <3>1, <6>1
        <5> QED BY <5>1, <5>2
      <4>4. \E i \in 1 .. k + 1 : \A j \in 1 .. k + 1 : f[i] >= f[j]
        <5>1. CASE f[b] >= f[k + 1]  BY <3>1, <3>2, <4>2, <5>1
        <5>2. CASE ~(f[b] >= f[k + 1])
          <6>1. \A j \in 1 .. k + 1 : f[k + 1] >= f[j]  BY <3>1, <3>2, <4>2, <5>2
          <6> QED BY <3>1, <6>1
        <5> QED BY <5>1, <5>2
      <4> QED BY <3>1, <4>3, <4>4
    <3> QED BY <3>3, <3>4
  <2> HIDE DEF T
  <2> QED BY <1>1, <2>1, <2>2, UpToInduction
<1>6. n # 0 /\ n \in 0 .. n
  <2>1. PICK x \in S : TRUE  OBVIOUS
  <2>2. PICK i \in 1 .. n : f[i] = x  BY <1>3
  <2> QED BY <1>1, <2>2
<1>7. /\ \E i \in 1 .. n : \A j \in 1 .. n : f[i] <= f[j]
      /\ \E i \in 1 .. n : \A j \in 1 .. n : f[i] >= f[j]
  BY <1>5, <1>6
<1> HIDE DEF T
<1>8. (\E x \in S : \A y \in S : x <= y) /\ (\E x \in S : \A y \in S : x >= y)
  <2>1. PICK a \in 1 .. n : \A j \in 1 .. n : f[a] <= f[j]  BY <1>7
  <2>2. PICK b \in 1 .. n : \A j \in 1 .. n : f[b] >= f[j]  BY <1>7
  <2>3. f[a] \in S /\ \A y \in S : f[a] <= y  BY <1>3, <2>1
  <2>4. f[b] \in S /\ \A y \in S : f[b] >= y  BY <1>3, <2>2
  <2> QED BY <2>3, <2>4
<1> QED BY <1>8 DEF Tree!Min, Tree!Max

(* What a table names is one of the files it is of.                        *)
LEMMA TableNames ==
    ASSUME Tree!BootConstantsOK, NEW fs \in SUBSET Files, NEW key, NEW wins,
           NEW p \in Tree!TableOf(fs, key, wins)
    PROVE  p[2] \in fs
<1> DEFINE Of(same) == IF wins = "first" THEN Tree!Min(same) ELSE Tree!Max(same)
           Same(k) == {f \in fs : key[f] = k}
           K(k) == Of(Same(k))
<1>1. Tree!TableOf(fs, key, wins) = {<<k, K(k)>> : k \in {key[f] : f \in fs}}
  BY Zenon DEF Tree!TableOf
<1>2. PICK k \in {key[f] : f \in fs} : p = <<k, K(k)>>  BY <1>1
<1>3. Same(k) # {} /\ Same(k) \in SUBSET Nat /\ Same(k) \in SUBSET Files /\ Same(k) \in SUBSET fs
  BY <1>2 DEF Tree!BootConstantsOK
<1>4. IsFiniteSet(Same(k))
  <2>1. IsFiniteSet(Files)  BY DEF Tree!BootConstantsOK, Tree!IsFiniteSet, IsFiniteSet
  <2> HIDE DEF Same
  <2> QED BY <1>3, <2>1, FS_Subset
<1> HIDE DEF Same
<1>5. Tree!Min(Same(k)) \in fs /\ Tree!Max(Same(k)) \in fs  BY <1>3, <1>4, Extremes
<1>6. K(k) \in fs  BY <1>5
<1> HIDE DEF K
<1> QED BY <1>2, <1>6

(* The walk takes no scope for the use's that the use is evaluated before. *)
LEMMA WalkIsSound ==
    ASSUME NEW use, use.path \in Seq([kind : STRING, binds : BOOLEAN]), Tree!ShadowedLocally(use)
    PROVE  Tree!MeansLocal(use)
<1> DEFINE path == use.path
<1>1. PICK k \in DOMAIN path :
         ~Tree!Skips(path, k) /\ Tree!InParentOwnScope(path, k) /\ Tree!ScopeIntroduces(path[k])
  BY DEF Tree!ShadowedLocally
<1>2. k \in Nat /\ path[k].binds  BY <1>1 DEF Tree!ScopeIntroduces
<1>3. ASSUME Tree!BeforeScope(path, k) PROVE FALSE
  <2>1. path[k].kind = "function"  BY <1>3 DEF Tree!BeforeScope
  <2>2. CASE k > 1 /\ path[k - 1].kind \in {"name", "decorator"}
    BY <1>1, <2>1, <2>2 DEF Tree!InParentOwnScope
  <2>3. CASE k > 2 /\ path[k - 1].kind = "parameter" /\ path[k - 2].kind = "decorator"
    <3>1. k - 1 \in 2 .. k - 1 /\ (k - 1) - 1 = k - 2 /\ (k - 1) + 1 .. k - 1 = {}
      BY <1>2, <2>3
    <3>2. Tree!Decorates(path, k - 1)  BY <2>3, <3>1 DEF Tree!Decorates
    <3>3. Tree!Skips(path, k)  BY <2>1, <3>1, <3>2 DEF Tree!Skips
    <3> QED BY <1>1, <3>3
  <2> QED BY <1>3, <2>2, <2>3 DEF Tree!BeforeScope
<1> QED BY <1>1, <1>2, <1>3 DEF Tree!MeansLocal

LEMMA ClientPromises == Tree!BootConstantsOK /\ BootInv => Tree!ClientIsStripped
<1> SUFFICES ASSUME Tree!BootConstantsOK, BootInv, "gen" \notin stale,
                    NEW f \in Tree!Registered(gen), disk[f].calls = 1
             PROVE  /\ (\A k \in DOMAIN disk[f].chain : disk[f].chain[k] # "break")
                          => Tree!ServerSteps(disk[f]) \subseteq Tree!Removed(f)
                    /\ (Tree!Stripped(f) /\ Tree!ImportPruned(disk[f])) =>
                           \A u \in disk[f].uses : u.step \notin Tree!Removed(f) => Tree!MeansLocal(u)
  BY DEF Tree!ClientIsStripped
<1>1. gen = Tree!Generated(disk, include) /\ IsDisk(disk)  BY DEF BootInv
<1>2. f \in Tree!RouteFiles(disk, "page") \cup Tree!Scanned(disk, include)
  <2>1. PICK p \in gen.pages \cup gen.slots : p[2] = f  BY DEF Tree!Registered
  <2>2. /\ gen.pages = Tree!TableOf(Tree!RouteFiles(disk, "page"), Url, "last")
        /\ gen.slots = Tree!TableOf(Tree!Scanned(disk, include), Tree!PatternOf(disk), "last")
    BY <1>1 DEF Tree!Generated, Tree!Slots
  <2>3. Tree!RouteFiles(disk, "page") \in SUBSET Files /\ Tree!Scanned(disk, include) \in SUBSET Files
    BY DEF Tree!RouteFiles, Tree!Scanned
  <2> QED BY <2>1, <2>2, <2>3, TableNames
<1>3. f \in Files /\ Tree!There(disk, f) /\ Tree!Watched(f)
  BY <1>2 DEF Tree!RouteFiles, Tree!Scanned, Tree!Watched
<1> DEFINE m == disk[f]
<1>4. /\ m.chain \in Seq({"server", "kept", "break"})
      /\ \A u \in m.uses : u.path \in Seq([kind : STRING, binds : BOOLEAN])
  BY <1>1, <1>3 DEF IsDisk, Sound, Tree!There
<1>5. ASSUME \A k \in DOMAIN m.chain : m.chain[k] # "break", NEW s \in Tree!ServerSteps(m)
      PROVE  s \in Tree!Removed(f)
  <2>1. s \in 1 .. Len(m.chain) /\ DOMAIN m.chain = 1 .. Len(m.chain)
    BY <1>4 DEF Tree!ServerSteps
  <2>2. \A j \in 1 .. s : j \in DOMAIN m.chain  BY <1>4, <2>1
  <2>3. s \in Tree!Spans(m)  BY <1>5, <2>2 DEF Tree!Spans
  <2> QED BY <1>3, <2>3 DEF Tree!Removed, Tree!Stripped
<1>6. ASSUME Tree!Stripped(f), Tree!ImportPruned(m), NEW u \in m.uses, u.step \notin Tree!Removed(f)
      PROVE  Tree!MeansLocal(u)
  <2>1. u.step \notin Tree!Spans(m)  BY <1>6 DEF Tree!Removed
  <2>2. Tree!ShadowedLocally(u)  BY <1>6, <2>1 DEF Tree!ImportPruned
  <2> QED BY <1>4, <2>2, WalkIsSound
<1> HIDE DEF m
<1>7. (\A k \in DOMAIN m.chain : m.chain[k] # "break") => Tree!ServerSteps(m) \subseteq Tree!Removed(f)
  BY <1>5
<1>8. (Tree!Stripped(f) /\ Tree!ImportPruned(m)) =>
         \A u \in m.uses : u.step \notin Tree!Removed(f) => Tree!MeansLocal(u)
  BY <1>6
<1> QED BY <1>7, <1>8 DEF m

(* From the files of an app, however they are saved, watched, built and    *)
(* served: the generated tables follow the disk while the dev server       *)
(* watches, and a dev server and a production server of the same files     *)
(* both refuse or both serve the same tables (runCodegen, createDevServer, *)
(* buildApp, startApp).  Every module in them reaches the client stripped, *)
(* with all the imports the client's code still means (strip.ts).          *)
THEOREM TreeCorrect ==
    ASSUME Tree!BootConstantsOK
    PROVE  Tree!Spec => [](Tree!TablesFollowDisk /\ Tree!ClientIsStripped)
<1>1. Tree!Init => BootInv  BY BootStarts
<1>2. BootInv /\ [Tree!Next]_(Tree!bootVars) => BootInv'  BY BootKeeps
<1>3. BootInv => Tree!TablesFollowDisk /\ Tree!ClientIsStripped  BY BootPromises, ClientPromises
<1> QED BY <1>1, <1>2, <1>3, PTL DEF Tree!Spec
-----------------------------------------------------------------------------
(* Egress.  Each stream keeps its own promise: what is not watched has not *)
(* begun or was killed, and what is dead holds nothing.                    *)

Conns ==
    [kind : {"sse", "ws"}, body : {"none", "open", "errored", "closed"}, queue : Seq(Nat),
     listens : SUBSET Sources, named : BOOLEAN, watched : BOOLEAN, gone : BOOLEAN,
     loop : {"none", "auth", "reading", "parked", "over"}, early : BOOLEAN]

Within(c) ==
    \/ Total(c.queue) <= Budget
    \/ /\ c.body = "errored"
       /\ \E size \in Sizes : Total(c.queue) <= Budget + size

StreamOK(c) ==
    /\ c \in Conns /\ Within(c)
    /\ c.loop \in {"none", "auth"} => c.body = "none" /\ (c.gone => c.early)
    /\ c.body = "none" => c.listens = {} /\ ~c.named /\ ~c.watched
    /\ ~c.watched => c.body = "none" \/ (c.body = "errored" /\ c.kind = "sse")
    /\ (c.body = "errored" /\ c.kind = "sse") \/ (c.gone /\ ~c.early) => c.listens = {} /\ ~c.named

(* A stream while it is being joined to the instances of its session.      *)
Joining(c) ==
    /\ c \in Conns /\ Within(c) /\ c.loop = "reading" /\ c.body \in {"open", "errored"}
    /\ c.gone => c.early

EgressInv == conn \in [Streams -> Conns] /\ \A s \in Streams : StreamOK(conn[s])

LEMMA SameTotal == ASSUME NEW seq PROVE Out!Total(seq) = Total(seq)
  BY DEF Total, Out!Total

LEMMA ConnFields ==
    ASSUME NEW c \in Conns
    PROVE  /\ c.kind \in {"sse", "ws"} /\ c.body \in {"none", "open", "errored", "closed"}
           /\ c.queue \in Seq(Nat) /\ c.listens \subseteq Sources /\ c.named \in BOOLEAN
           /\ c.watched \in BOOLEAN /\ c.gone \in BOOLEAN /\ c.early \in BOOLEAN
           /\ c.loop \in {"none", "auth", "reading", "parked", "over"}
  BY DEF Conns

LEMMA SizesAreSizes ==
    ASSUME Out!EgressConstantsOK
    PROVE  /\ Budget \in Nat /\ \A size \in Sizes : size \in Nat
           /\ Out!Max(Sizes) \in Sizes /\ \A size \in Sizes : size <= Out!Max(Sizes)
<1>1. PICK m \in Sizes : \A size \in Sizes : m >= size  BY DEF Out!EgressConstantsOK
<1>2. Out!Max(Sizes) \in Sizes /\ \A size \in Sizes : Out!Max(Sizes) >= size  BY <1>1 DEF Out!Max
<1> QED BY <1>2 DEF Out!EgressConstantsOK

(* What a push may make of a stream.                                       *)
Pushed(p, c, handle) ==
    /\ p \in Conns /\ Within(p)
    /\ p.kind = c.kind /\ p.watched = c.watched /\ p.gone = c.gone /\ p.early = c.early
    /\ p.loop = c.loop
    /\ c.body # "open" => p = c
    /\ c.body = "open" => p.body \in {"open", "errored"}
    /\ \/ p.listens = {} /\ ~p.named
       \/ /\ p.listens = c.listens /\ p.named = c.named
          /\ p.body = "errored" /\ c.body = "open" /\ c.kind = "sse" => ~handle

(* `d` is the stream with the chunk queued.                                *)
LEMMA PushWays ==
    ASSUME Out!EgressConstantsOK, NEW c \in Conns, NEW size \in Sizes, NEW handle \in BOOLEAN, Within(c)
    PROVE  Pushed(Out!Push(c, size, handle), c, handle)
<1> DEFINE p == Out!Push(c, size, handle)
           d == [c EXCEPT !.queue = Append(@, size)]
<1>1. ASSUME c.body # "open" PROVE Pushed(p, c, handle)
  <2>1. p = c  BY <1>1 DEF Out!Push
  <2> HIDE DEF p
  <2> QED BY <1>1, <2>1 DEF Pushed
<1>2. ASSUME c.body = "open" PROVE Pushed(p, c, handle)
  <2>0. size \in Nat /\ Budget \in Nat /\ c.queue \in Seq(Nat)  BY SizesAreSizes, ConnFields
  <2>1. /\ d.queue = Append(c.queue, size) /\ d.kind = c.kind /\ d.body = c.body
        /\ d.listens = c.listens /\ d.named = c.named /\ d.watched = c.watched
        /\ d.gone = c.gone /\ d.loop = c.loop /\ d.early = c.early
    BY DEF Conns
  <2>2. /\ d.queue \in Seq(Nat) /\ Total(d.queue) = Total(c.queue) + size
        /\ Total(c.queue) \in Nat
    BY <2>0, <2>1, TotalMore, TotalNat
  <2>3. d \in Conns  BY <2>1, <2>2 DEF Conns
  <2>4. Total(c.queue) <= Budget  BY <1>2 DEF Within
  <2>5. CASE ~(Total(d.queue) > Budget)
    <3>1. p = d  BY <1>2, <2>5, SameTotal DEF Out!Push, Out!Unread
    <3>2. Within(d)  BY <2>0, <2>2, <2>5 DEF Within
    <3> HIDE DEF p, d
    <3> QED BY <1>2, <2>1, <2>3, <3>1, <3>2 DEF Pushed
  <2>6. CASE Total(d.queue) > Budget
    <3>0. p = Out!Kill(d, handle)  BY <1>2, <2>6, SameTotal DEF Out!Push, Out!Unread
    <3>1. CASE c.kind = "ws"
      <4>1. p = [d EXCEPT !.body = "errored"]
        <5> HIDE DEF p, d
        <5> QED BY <2>1, <3>0, <3>1 DEF Out!Kill
      <4> HIDE DEF p, d
      <4>2. /\ p \in Conns /\ p.body = "errored" /\ p.queue = d.queue /\ p.kind = d.kind
            /\ p.listens = d.listens /\ p.named = d.named /\ p.watched = d.watched
            /\ p.gone = d.gone /\ p.loop = d.loop /\ p.early = d.early
        BY <2>3, <4>1 DEF Conns
      <4>3. Within(p)  BY <2>0, <2>2, <2>4, <4>2 DEF Within
      <4> QED BY <1>2, <2>1, <3>1, <4>2, <4>3 DEF Pushed
    <3>2. CASE c.kind = "sse" /\ handle
      <4>1. p = [[d EXCEPT !.named = FALSE, !.listens = {}] EXCEPT !.body = "errored", !.queue = <<>>]
        <5> HIDE DEF p, d
        <5> QED BY <2>1, <3>0, <3>2 DEF Out!Kill, Out!Detached
      <4> HIDE DEF p, d
      <4>2. <<>> \in Seq(Nat)  OBVIOUS
      <4>3. /\ p \in Conns /\ p.body = "errored" /\ p.queue = <<>> /\ p.kind = d.kind
            /\ p.listens = {} /\ p.named = FALSE /\ p.watched = d.watched
            /\ p.gone = d.gone /\ p.loop = d.loop /\ p.early = d.early
        BY <2>3, <4>1, <4>2 DEF Conns
      <4>4. Within(p)  BY <2>0, <4>3, TotalEmpty DEF Within
      <4> QED BY <1>2, <2>1, <4>3, <4>4 DEF Pushed
    <3>3. CASE c.kind = "sse" /\ ~handle
      <4>1. p = [d EXCEPT !.body = "errored", !.queue = <<>>]
        <5> HIDE DEF p, d
        <5> QED BY <2>1, <3>0, <3>3 DEF Out!Kill
      <4> HIDE DEF p, d
      <4>2. <<>> \in Seq(Nat)  OBVIOUS
      <4>3. /\ p \in Conns /\ p.body = "errored" /\ p.queue = <<>> /\ p.kind = d.kind
            /\ p.listens = d.listens /\ p.named = d.named /\ p.watched = d.watched
            /\ p.gone = d.gone /\ p.loop = d.loop /\ p.early = d.early
        BY <2>3, <4>1, <4>2 DEF Conns
      <4>4. Within(p)  BY <2>0, <4>3, TotalEmpty DEF Within
      <4> QED BY <1>2, <2>1, <3>3, <4>3, <4>4 DEF Pushed
    <3> QED BY <3>1, <3>2, <3>3, ConnFields
  <2> QED BY <2>5, <2>6
<1> QED BY <1>1, <1>2

LEMMA PushKeeps ==
    ASSUME Out!EgressConstantsOK, NEW c, StreamOK(c), NEW size \in Sizes, NEW handle \in BOOLEAN, handle
    PROVE  StreamOK(Out!Push(c, size, handle))
<1> DEFINE p == Out!Push(c, size, handle)
<1>0. c \in Conns /\ Within(c)  BY DEF StreamOK
<1>1. Pushed(p, c, handle)  BY <1>0, PushWays
<1> HIDE DEF p
<1>2. StreamOK(p)  BY <1>0, <1>1 DEF StreamOK, Pushed
<1> QED BY <1>2 DEF p

LEMMA PushJoins ==
    ASSUME Out!EgressConstantsOK, NEW c, Joining(c), NEW size \in Sizes, NEW handle \in BOOLEAN
    PROVE  Joining(Out!Push(c, size, handle))
<1> DEFINE p == Out!Push(c, size, handle)
<1>0. c \in Conns /\ Within(c)  BY DEF Joining
<1>1. Pushed(p, c, handle)  BY <1>0, PushWays
<1> HIDE DEF p
<1>2. Joining(p)  BY <1>0, <1>1 DEF Joining, Pushed
<1> QED BY <1>2 DEF p

(* The streams while s is being joined, and after it is.                   *)
Others(cs, s) ==
    cs \in [Streams -> Conns] /\ Joining(cs[s]) /\ \A t \in Streams \ {s} : StreamOK(cs[t])

LEMMA JoinKeeps ==
    ASSUME Out!EgressConstantsOK, NEW s \in Streams, NEW i \in Sources, NEW size \in Sizes,
           NEW cs, Others(cs, s)
    PROVE  Others(Out!Join(cs, s, i, size), s)
<1> DEFINE c == [cs[s] EXCEPT !.listens = @ \cup {i}]
           ds == [cs EXCEPT ![s] = c]
           es == Out!Join(cs, s, i, size)
<1>1. c \in Conns /\ c.body = cs[s].body /\ c.queue = cs[s].queue /\ c.loop = cs[s].loop
      /\ c.gone = cs[s].gone /\ c.early = cs[s].early
  BY DEF Others, Conns
<1>2. Joining(c)  BY <1>1 DEF Others, Joining, Within
<1>3. [cs EXCEPT ![s].listens = @ \cup {i}] = ds  BY DEF Others
<1>4. es = [t \in Streams |-> IF i \in ds[t].listens THEN Out!Push(ds[t], size, t # s) ELSE ds[t]]
  BY <1>3, Zenon DEF Out!Join, Out!Sent
<1>5. ds \in [Streams -> Conns] /\ ds[s] = c /\ \A t \in Streams \ {s} : ds[t] = cs[t]
  BY <1>1 DEF Others
<1> HIDE DEF c, ds
<1>6. \A t \in Streams : es[t] = IF i \in ds[t].listens THEN Out!Push(ds[t], size, t # s) ELSE ds[t]
  <2> DEFINE E(t) == IF i \in ds[t].listens THEN Out!Push(ds[t], size, t # s) ELSE ds[t]
  <2>1. es = [t \in Streams |-> E(t)]  BY <1>4, Zenon
  <2> HIDE DEF E, es
  <2>2. \A t \in Streams : es[t] = E(t)  BY <2>1
  <2> QED BY <2>2 DEF E
<1>7. Joining(es[s])
  <2>1. es[s] = c \/ es[s] = Out!Push(c, size, s # s)  BY <1>5, <1>6
  <2>2. (s # s) \in BOOLEAN  OBVIOUS
  <2> HIDE DEF es
  <2>3. CASE es[s] = Out!Push(c, size, s # s)
    <3>1. Joining(Out!Push(c, size, s # s))  BY <1>2, <2>2, PushJoins
    <3> QED BY <2>3, <3>1
  <2> QED BY <1>2, <2>1, <2>3
<1>8. ASSUME NEW t \in Streams \ {s} PROVE StreamOK(es[t])
  <2>1. StreamOK(cs[t]) /\ ds[t] = cs[t]  BY <1>5 DEF Others
  <2>2. es[t] = cs[t] \/ es[t] = Out!Push(cs[t], size, t # s)  BY <1>6, <2>1
  <2>3. (t # s) \in BOOLEAN /\ t # s  OBVIOUS
  <2> HIDE DEF es
  <2>4. CASE es[t] = Out!Push(cs[t], size, t # s)
    <3>1. StreamOK(Out!Push(cs[t], size, t # s))  BY <2>1, <2>3, PushKeeps
    <3> QED BY <2>4, <3>1
  <2> QED BY <2>1, <2>2, <2>4
<1>9. es \in [Streams -> Conns]
  <2>1. \A t \in Streams : es[t] \in Conns
    <3> HIDE DEF es
    <3> QED BY <1>7, <1>8 DEF Joining, StreamOK
  <2>2. es = [t \in Streams |-> es[t]]  BY DEF Out!Join, Out!Sent
  <2> HIDE DEF es
  <2> QED BY <2>1, <2>2
<1> HIDE DEF es
<1>10. Others(es, s)  BY <1>7, <1>8, <1>9 DEF Others
<1> QED BY <1>10 DEF es

(* The sources in an order, each once.                                     *)
LEMMA SourcesInOrder ==
    ASSUME Out!EgressConstantsOK
    PROVE  Out!SetToSeq(Sources) \in Seq(Sources)
<1>0. IsFiniteSet(Sources)
  <2>1. Out!IsFiniteSet(Sources) = IsFiniteSet(Sources)  BY DEF Out!IsFiniteSet, IsFiniteSet
  <2> QED BY <2>1 DEF Out!EgressConstantsOK
<1>1. Cardinality(Sources) \in Nat /\ ExistsBijection(1 .. Cardinality(Sources), Sources)
  BY <1>0, FS_CardinalityType
<1>2. PICK f \in Bijection(1 .. Cardinality(Sources), Sources) : TRUE
  BY <1>1 DEF ExistsBijection
<1>3. f \in [1 .. Cardinality(Sources) -> Sources] /\ Out!IsInjective(f)
  BY <1>2 DEF Bijection, Injection, IsInjective, Out!IsInjective
<1>4. Out!Cardinality(Sources) = Cardinality(Sources)
  BY DEF Out!Cardinality, Cardinality
<1>5. Out!SetToSeq(Sources) \in [1 .. Cardinality(Sources) -> Sources]
  BY <1>3, <1>4 DEF Out!SetToSeq
<1> QED BY <1>1, <1>5

LEMMA FannedKeeps ==
    ASSUME Out!EgressConstantsOK, NEW s \in Streams, NEW size \in Sizes, NEW line \in Seq(Sources),
           NEW cs, Others(cs, s)
    PROVE  Others(Out!Fanned(cs, s, size, line), s)
<1> DEFINE S == {ds \in [Streams -> Conns] : Others(ds, s)}
           N == Len(line)
           Body(g) == [n \in 0 .. N |-> IF n = 0 THEN cs ELSE Out!Join(g[n - 1], s, line[n], size)]
           joined == CHOOSE g : g = Body(g)
           step == [n \in 1 .. N |-> [ds \in S |-> Out!Join(ds, s, line[n], size)]]
<1>1. N \in Nat /\ \A n \in 1 .. N : line[n] \in Sources  BY ElementOfSeq
<1>2. cs \in S  BY DEF Others
<1>3. \A n \in 1 .. N, ds \in S : Out!Join(ds, s, line[n], size) \in S
  <2> SUFFICES ASSUME NEW n \in 1 .. N, NEW ds \in S PROVE Out!Join(ds, s, line[n], size) \in S
    OBVIOUS
  <2>1. Others(Out!Join(ds, s, line[n], size), s)  BY <1>1, JoinKeeps
  <2> QED BY <2>1 DEF Others
<1> HIDE DEF N
<1>4. step \in [1 .. N -> [S -> S]]
  <2> DEFINE J(n, ds) == Out!Join(ds, s, line[n], size)
  <2>1. \A n \in 1 .. N, ds \in S : J(n, ds) \in S  BY <1>3
  <2> HIDE DEF J, S
  <2>2. [n \in 1 .. N |-> [ds \in S |-> J(n, ds)]] \in [1 .. N -> [S -> S]]  BY <2>1
  <2> QED BY <2>2 DEF J
<1> HIDE DEF S
<1>5. PICK f \in [0 .. N -> S] : f[0] = cs /\ \A n \in 1 .. N : f[n] = step[n][f[n - 1]]
  <2> HIDE DEF step
  <2>1. PICK f : IsRecursion(f, N, S, cs, step)
    BY <1>1, <1>2, <1>4, RecursionExists, Zenon
  <2> QED BY <2>1 DEF IsRecursion
<1>6. f = Body(f)
  <2>1. ASSUME NEW n \in 0 .. N PROVE f[n] = Body(f)[n]
    <3>1. CASE n = 0  BY <1>5, <3>1
    <3>2. CASE n # 0
      <4>1. n \in 1 .. N /\ n - 1 \in 0 .. N  BY <1>1, <3>2
      <4>2. f[n - 1] \in S /\ f[n] = step[n][f[n - 1]]  BY <1>5, <4>1
      <4>3. f[n] = Out!Join(f[n - 1], s, line[n], size)  BY <4>1, <4>2, Zenon
      <4> QED BY <3>2, <4>3
    <3> QED BY <3>1, <3>2
  <2>2. DOMAIN Body(f) = 0 .. N /\ Body(f) = [n \in 0 .. N |-> Body(f)[n]]
    OBVIOUS
  <2> HIDE DEF Body
  <2> QED BY <2>1, <2>2
<1>7. joined = Body(joined)
  <2> HIDE DEF Body
  <2> QED BY <1>6
<1>8. Out!Fanned(cs, s, size, line) = joined[N]  BY DEF Out!Fanned, N
<1> HIDE DEF joined
<1>9. joined[0] = cs /\ \A n \in 1 .. N : joined[n] = Out!Join(joined[n - 1], s, line[n], size)
  <2>1. \A n \in 0 .. N : joined[n] = Body(joined)[n]  BY <1>7, Zenon
  <2>2. \A n \in 0 .. N : Body(joined)[n] =
           IF n = 0 THEN cs ELSE Out!Join(joined[n - 1], s, line[n], size)
    BY Zenon
  <2> HIDE DEF Body
  <2>3. 0 \in 0 .. N /\ \A n \in 1 .. N : n \in 0 .. N /\ n # 0
    BY <1>1
  <2>4. joined[0] = cs  BY <2>1, <2>2, <2>3, Zenon
  <2>5. \A n \in 1 .. N : joined[n] = Out!Join(joined[n - 1], s, line[n], size)
    BY <2>1, <2>2, <2>3, Zenon
  <2> QED BY <2>4, <2>5
<1> DEFINE T == {n \in 0 .. N : joined[n] \in S}
<1>10. 0 \in T  BY <1>1, <1>2, <1>9
<1>11. \A n \in 0 .. N - 1 : n \in T => n + 1 \in T
  <2> SUFFICES ASSUME NEW n \in 0 .. N - 1, n \in T PROVE n + 1 \in T
    OBVIOUS
  <2>1. n + 1 \in 1 .. N /\ (n + 1) - 1 = n  BY <1>1
  <2>2. joined[n + 1] = Out!Join(joined[n], s, line[n + 1], size)  BY <1>9, <2>1
  <2>3. joined[n] \in S  OBVIOUS
  <2>4. joined[n + 1] \in S  BY <1>3, <2>1, <2>2, <2>3
  <2> QED BY <2>1, <2>4
<1> HIDE DEF T
<1>12. \A n \in 0 .. N : n \in T  BY <1>1, <1>10, <1>11, UpToInduction
<1>13. joined[N] \in S  BY <1>1, <1>12 DEF T
<1> QED BY <1>8, <1>13 DEF S

LEMMA EgressStarts == ASSUME Out!EgressConstantsOK PROVE Out!Init => EgressInv
<1> SUFFICES ASSUME Out!Init PROVE EgressInv
  OBVIOUS
<1>1. <<>> \in Seq(Nat) /\ Total(<<>>) = 0 /\ Budget \in Nat
  BY TotalEmpty, SizesAreSizes
<1>2. ASSUME NEW kind \in {"sse", "ws"} PROVE StreamOK(Out!Closed(kind))
  BY <1>1 DEF StreamOK, Out!Closed, Conns, Within
<1>3. conn \in [Streams -> {Out!Closed("sse"), Out!Closed("ws")}]  BY DEF Out!Init
<1>4. \A s \in Streams : StreamOK(conn[s])  BY <1>2, <1>3
<1> QED BY <1>3, <1>4 DEF EgressInv, StreamOK

LEMMA StreamStartKeeps ==
    ASSUME Out!EgressConstantsOK, EgressInv, NEW s \in Streams, NEW size \in Sizes, Out!Start(s, size)
    PROVE  EgressInv'
<1> DEFINE q == IF conn[s].queue = <<>> /\ conn[s].kind = "sse" THEN <<1>> ELSE conn[s].queue
           c == [conn[s] EXCEPT !.body = "open", !.loop = "reading", !.queue = q]
           opened == [conn EXCEPT ![s].body = "open", ![s].loop = "reading",
                                  ![s].queue = IF @ = <<>> /\ conn[s].kind = "sse" THEN <<1>> ELSE @]
           fanned == Out!Fanned(opened, s, size, Out!SetToSeq(Sources))
<1>0. StreamOK(conn[s]) /\ conn[s] \in Conns /\ conn[s].loop = "auth"
  BY DEF EgressInv, StreamOK, Out!Start
<1>1. opened = [conn EXCEPT ![s] = c]  BY DEF EgressInv
<1>2. q \in Seq(Nat) /\ Total(q) <= Budget
  <2>1. conn[s].queue \in Seq(Nat) /\ Total(conn[s].queue) <= Budget
    BY <1>0 DEF StreamOK, Within, Conns
  <2>2. <<>> \in Seq(Nat) /\ Append(<<>>, 1) = <<1>>  OBVIOUS
  <2>3. <<1>> \in Seq(Nat) /\ Total(<<1>>) = 1
    <3>1. /\ Append(<<>>, 1) \in Seq(Nat)
          /\ Total(Append(<<>>, 1)) = Total(<<>>) + 1
      BY <2>2, TotalMore
    <3> DEFINE w == Append(<<>>, 1)
    <3>2. w = <<1>>  BY <2>2
    <3> HIDE DEF w
    <3>3. w \in Seq(Nat) /\ Total(w) = 1  BY <3>1, TotalEmpty DEF w
    <3> QED BY <3>2, <3>3
  <2>4. 1 <= Budget  BY DEF Out!EgressConstantsOK
  <2> QED BY <2>1, <2>3, <2>4
<1> HIDE DEF q
<1>3. c \in Conns /\ c.queue = q /\ c.body = "open" /\ c.loop = "reading"
      /\ c.gone = conn[s].gone /\ c.early = conn[s].early
  BY <1>0, <1>2 DEF Conns
<1>4. Joining(c)
  <2> HIDE DEF c
  <2> QED BY <1>0, <1>2, <1>3 DEF Joining, Within, StreamOK
<1>5. Others(opened, s)
  <2> HIDE DEF c, opened
  <2> QED BY <1>1, <1>3, <1>4 DEF Others, EgressInv
<1>6. Others(fanned, s)
  <2> HIDE DEF opened
  <2> QED BY <1>5, SourcesInOrder, FannedKeeps
<1>7. conn' = [fanned EXCEPT ![s] = Out!Named(@)]  BY DEF Out!Start
<1> HIDE DEF opened, fanned, c
<1>8. conn' = [fanned EXCEPT ![s] = Out!Named(fanned[s])]  BY <1>7
<1>9. StreamOK(Out!Named(fanned[s]))
  <2> DEFINE d == fanned[s]
             e == Out!Named(d)
  <2>0. Joining(d) /\ d \in Conns  BY <1>6 DEF Others, Joining
  <2>1. CASE d.body = "errored" /\ d.kind = "sse"
    <3>1. e = [d EXCEPT !.named = FALSE, !.listens = {}]
      <4> HIDE DEF d
      <4> QED BY <2>1 DEF Out!Named, Out!Detached
    <3> HIDE DEF e, d
    <3>2. /\ e \in Conns /\ e.body = d.body /\ e.kind = d.kind /\ e.queue = d.queue
          /\ e.listens = {} /\ ~e.named /\ e.loop = d.loop /\ e.gone = d.gone /\ e.early = d.early
      BY <2>0, <3>1 DEF Conns
    <3>3. StreamOK(e)  BY <2>0, <2>1, <3>2 DEF StreamOK, Joining, Within
    <3> QED BY <3>3 DEF e, d
  <2>2. CASE ~(d.body = "errored" /\ d.kind = "sse")
    <3>1. e = [d EXCEPT !.named = (d.kind = "sse"), !.watched = TRUE]
      <4> HIDE DEF d
      <4> QED BY <2>2 DEF Out!Named
    <3> HIDE DEF e, d
    <3>2. /\ e \in Conns /\ e.body = d.body /\ e.kind = d.kind /\ e.queue = d.queue
          /\ e.watched /\ e.loop = d.loop /\ e.gone = d.gone /\ e.early = d.early
      BY <2>0, <3>1 DEF Conns
    <3>3. StreamOK(e)  BY <2>0, <2>2, <3>2 DEF StreamOK, Joining, Within
    <3> QED BY <3>3 DEF e, d
  <2> QED BY <2>1, <2>2
<1>10. \A t \in Streams : StreamOK(conn'[t])  BY <1>6, <1>8, <1>9 DEF Others
<1>11. conn' \in [Streams -> Conns]  BY <1>6, <1>8, <1>9 DEF Others, StreamOK
<1> QED BY <1>10, <1>11 DEF EgressInv

LEMMA EmitKeeps ==
    ASSUME Out!EgressConstantsOK, EgressInv, NEW i \in Sources, NEW size \in Sizes, Out!Emit(i, size)
    PROVE  EgressInv'
<1> DEFINE E(s) == IF i \in conn[s].listens THEN Out!Push(conn[s], size, s # "nobody") ELSE conn[s]
<1>1. conn' = [s \in Streams |-> E(s)]  BY DEF Out!Emit, Out!Sent
<1>2. ASSUME NEW s \in Streams PROVE StreamOK(E(s))
  <2>1. StreamOK(conn[s])  BY DEF EgressInv
  <2>2. (s # "nobody") \in BOOLEAN /\ s # "nobody"  BY DEF Out!EgressConstantsOK
  <2>3. StreamOK(Out!Push(conn[s], size, s # "nobody"))  BY <2>1, <2>2, PushKeeps
  <2> QED BY <2>1, <2>3
<1> HIDE DEF E
<1>3. \A s \in Streams : conn'[s] = E(s)  BY <1>1
<1>4. conn' \in [Streams -> Conns]  BY <1>1, <1>2 DEF StreamOK
<1> QED BY <1>2, <1>3, <1>4 DEF EgressInv

LEMMA GoneKeeps ==
    ASSUME NEW c, StreamOK(c), ~c.gone, c.loop # "none"
    PROVE  StreamOK(Out!Gone(c))
<1> DEFINE d == [c EXCEPT !.gone = TRUE, !.early = (c.loop = "auth")]
           g == Out!Gone(c)
<1>0. c \in Conns  BY DEF StreamOK
<1>1. /\ d \in Conns /\ d.kind = c.kind /\ d.body = c.body /\ d.queue = c.queue
      /\ d.listens = c.listens /\ d.named = c.named /\ d.watched = c.watched
      /\ d.gone = TRUE /\ d.loop = c.loop /\ d.early = (c.loop = "auth")
  BY <1>0 DEF Conns
<1>2. CASE ~c.watched
  <2>1. g = d  BY <1>2 DEF Out!Gone
  <2> HIDE DEF d, g
  <2>2. StreamOK(g)  BY <1>1, <1>2, <2>1 DEF StreamOK, Within
  <2> QED BY <2>2 DEF g
<1>3. CASE c.watched
  <2>1. g = [[d EXCEPT !.named = FALSE, !.listens = {}]
                EXCEPT !.body = IF d.body = "open" THEN "closed" ELSE d.body]
    BY <1>3 DEF Out!Gone, Out!Detached
  <2> HIDE DEF d, g
  <2>2. /\ g \in Conns /\ g.kind = c.kind /\ g.queue = c.queue /\ g.loop = c.loop
        /\ g.listens = {} /\ ~g.named /\ g.watched = c.watched /\ g.gone /\ g.early = d.early
        /\ g.body = IF c.body = "open" THEN "closed" ELSE c.body
    BY <1>1, <2>1 DEF Conns
  <2> HIDE DEF g
  <2>3. StreamOK(g)  BY <1>1, <1>3, <2>2 DEF StreamOK, Within
  <2> QED BY <2>3 DEF g
<1> QED BY <1>2, <1>3

LEMMA StepKeeps ==
    ASSUME EgressInv, NEW s \in Streams, NEW c, StreamOK(c), Out!Step(s, c)
    PROVE  EgressInv'
<1>1. conn' = [conn EXCEPT ![s] = c] /\ c \in Conns  BY DEF Out!Step, StreamOK
<1>2. conn' \in [Streams -> Conns]  BY <1>1 DEF EgressInv
<1>3. \A t \in Streams : StreamOK(conn'[t])  BY <1>1 DEF EgressInv
<1> QED BY <1>2, <1>3 DEF EgressInv

(* A step of the write loop: less is unread, the body is what it was or is *)
(* closed.                                                                 *)
Turned(s, queue, loop, body) ==
    /\ conn' = [conn EXCEPT ![s] = [conn[s] EXCEPT !.queue = queue, !.loop = loop, !.body = body]]
    /\ UNCHANGED sends
    /\ queue \in Seq(Nat) /\ Total(queue) <= Total(conn[s].queue)
    /\ loop \in {"auth", "reading", "parked", "over"}
    /\ loop = "auth" => conn[s].loop = "none"
    /\ conn[s].loop \in {"none", "auth"} => loop \in {"auth", "over"}
    /\ body = conn[s].body \/ (conn[s].body = "open" /\ body = "closed")

LEMMA LoopKeeps ==
    ASSUME Out!EgressConstantsOK, EgressInv, NEW s \in Streams,
           NEW queue, NEW loop, NEW body, Turned(s, queue, loop, body)
    PROVE  EgressInv'
<1> DEFINE c == conn[s]
           d == [c EXCEPT !.queue = queue, !.loop = loop, !.body = body]
<1>0. c \in Conns /\ StreamOK(c)  BY DEF StreamOK, EgressInv
<1>1. /\ d \in Conns /\ d.kind = c.kind /\ d.body = body /\ d.queue = queue
      /\ d.listens = c.listens /\ d.named = c.named /\ d.watched = c.watched
      /\ d.gone = c.gone /\ d.loop = loop /\ d.early = c.early
  <2>1. body \in {"none", "open", "errored", "closed"}  BY <1>0 DEF Conns, Turned
  <2> QED BY <1>0, <2>1 DEF Conns, Turned
<1>2. /\ queue \in Seq(Nat) /\ Total(queue) <= Total(c.queue)
      /\ loop \in {"auth", "reading", "parked", "over"}
      /\ loop = "auth" => c.loop = "none"
      /\ c.loop \in {"none", "auth"} => loop \in {"auth", "over"}
      /\ body = c.body \/ (c.body = "open" /\ body = "closed")
  BY DEF Turned
<1>3. Out!Step(s, d)  BY DEF Turned, Out!Step
<1> HIDE DEF c, d
<1>4. Within(d)
  <2>1. Total(queue) \in Nat /\ Total(c.queue) \in Nat  BY <1>0, <1>2, TotalNat, ConnFields
  <2>2. Total(queue) <= Total(c.queue)  BY <1>2
  <2>3. CASE Total(c.queue) <= Budget
    <3>1. Total(queue) <= Budget  BY <2>1, <2>2, <2>3, SizesAreSizes
    <3> QED BY <1>1, <3>1 DEF Within
  <2>4. CASE ~(Total(c.queue) <= Budget)
    <3>1. c.body = "errored" /\ \E size \in Sizes : Total(c.queue) <= Budget + size
      BY <1>0, <2>4 DEF StreamOK, Within
    <3>2. PICK size \in Sizes : Total(c.queue) <= Budget + size  BY <3>1
    <3>3. Total(queue) <= Budget + size  BY <2>1, <2>2, <3>2, SizesAreSizes
    <3>4. body = "errored"  BY <1>2, <3>1
    <3> QED BY <1>1, <3>3, <3>4 DEF Within
  <2> QED BY <2>3, <2>4
<1>5. StreamOK(d)  BY <1>0, <1>1, <1>2, <1>4 DEF StreamOK
<1> QED BY <1>3, <1>5, StepKeeps

LEMMA WriteKeeps ==
    ASSUME Out!EgressConstantsOK, EgressInv, NEW s \in Streams, Out!Write(s)
    PROVE  EgressInv'
<1>0. conn[s] \in Conns  BY DEF EgressInv
<1>1. PICK full \in BOOLEAN :
         /\ conn' = [conn EXCEPT ![s] = [conn[s] EXCEPT !.queue = Tail(@),
                                              !.loop = IF full THEN "parked" ELSE "reading"]]
         /\ UNCHANGED sends /\ conn[s].loop = "reading" /\ conn[s].queue # <<>>
  BY DEF Out!Write, Out!Step
<1> DEFINE queue == Tail(conn[s].queue)
           loop == IF full THEN "parked" ELSE "reading"
           body == conn[s].body
           d == [conn[s] EXCEPT !.queue = queue, !.loop = loop, !.body = body]
<1>2. queue \in Seq(Nat) /\ Total(queue) <= Total(conn[s].queue)
  BY <1>0, <1>1, ConnFields, TotalLess
<1>3. conn' = [conn EXCEPT ![s] = d]  BY <1>0, <1>1 DEF Conns
<1>4. loop \in {"parked", "reading"} /\ body \in {"none", "open", "errored", "closed"}
  BY <1>0 DEF Conns
<1> HIDE DEF queue, loop
<1>5. Turned(s, queue, loop, body)  BY <1>1, <1>2, <1>3, <1>4 DEF Turned
<1> HIDE DEF body
<1> QED BY <1>5, LoopKeeps

(* The steps that only turn the loop.                                      *)
LEMMA TurnKeeps ==
    ASSUME Out!EgressConstantsOK, EgressInv, NEW s \in Streams, Out!Request(s) \/ Out!Refused(s) \/ Out!Drain(s)
    PROVE  EgressInv'
<1>0. conn[s] \in Conns  BY DEF EgressInv
<1>1. PICK loop \in {"auth", "reading", "over"} :
         /\ conn' = [conn EXCEPT ![s].loop = loop] /\ UNCHANGED sends
         /\ loop = "auth" => conn[s].loop = "none"
         /\ conn[s].loop \in {"none", "auth"} => loop \in {"auth", "over"}
  <2>1. CASE Out!Request(s)  BY <2>1 DEF Out!Request
  <2>2. CASE Out!Refused(s)  BY <2>2 DEF Out!Refused
  <2>3. CASE Out!Drain(s)
    <3>1. conn' = [conn EXCEPT ![s].loop = "reading"]  BY <2>3 DEF Out!Drain, Out!Step
    <3> QED BY <2>3, <3>1 DEF Out!Drain, Out!Step
  <2> QED BY <2>1, <2>2, <2>3
<1> DEFINE queue == conn[s].queue
           body == conn[s].body
           d == [conn[s] EXCEPT !.queue = queue, !.loop = loop, !.body = body]
<1>2. queue \in Seq(Nat) /\ Total(queue) <= Total(conn[s].queue)
  <2>1. queue \in Seq(Nat) /\ Total(queue) \in Nat  BY <1>0, ConnFields, TotalNat
  <2> QED BY <2>1
<1>3. conn' = [conn EXCEPT ![s] = d]  BY <1>0, <1>1 DEF Conns
<1>4. body \in {"none", "open", "errored", "closed"}  BY <1>0 DEF Conns
<1>5. Turned(s, queue, loop, body)  BY <1>1, <1>2, <1>3, <1>4 DEF Turned
<1> HIDE DEF queue, body
<1> QED BY <1>5, LoopKeeps

LEMMA FinishKeeps ==
    ASSUME Out!EgressConstantsOK, EgressInv, NEW s \in Streams, Out!Finish(s)
    PROVE  EgressInv'
<1>0. conn[s] \in Conns  BY DEF EgressInv
<1> DEFINE body == IF conn[s].body = "open" THEN "closed" ELSE conn[s].body
           d == [conn[s] EXCEPT !.queue = <<>>, !.loop = "over", !.body = body]
<1>1. /\ conn' = [conn EXCEPT ![s] = [conn[s] EXCEPT !.loop = "over", !.queue = <<>>,
                                       !.body = IF @ = "open" THEN "closed" ELSE @]]
      /\ UNCHANGED sends
  BY DEF Out!Finish, Out!Step
<1>2. <<>> \in Seq(Nat) /\ Total(<<>>) <= Total(conn[s].queue)
  <2>1. Total(conn[s].queue) \in Nat  BY <1>0, ConnFields, TotalNat
  <2> QED BY <2>1, TotalEmpty
<1>3. conn' = [conn EXCEPT ![s] = d]  BY <1>0, <1>1 DEF Conns
<1>4. body \in {"none", "open", "errored", "closed"}  BY <1>0 DEF Conns
<1>5. Turned(s, <<>>, "over", body)  BY <1>1, <1>2, <1>3, <1>4 DEF Turned
<1> HIDE DEF body
<1> QED BY <1>5, LoopKeeps

LEMMA LeaveKeeps ==
    ASSUME EgressInv, NEW s \in Streams, Out!Leave(s) \/ Out!Reap(s)
    PROVE  EgressInv'
<1>1. StreamOK(conn[s])  BY DEF EgressInv
<1>2. Out!Step(s, Out!Gone(conn[s])) /\ ~conn[s].gone /\ conn[s].loop # "none"
  BY <1>1 DEF Out!Leave, Out!Reap, StreamOK
<1>3. StreamOK(Out!Gone(conn[s]))  BY <1>1, <1>2, GoneKeeps
<1> QED BY <1>2, <1>3, StepKeeps

LEMMA EgressKeeps ==
    ASSUME Out!EgressConstantsOK
    PROVE  EgressInv /\ [Out!Next]_(Out!egressVars) => EgressInv'
<1> SUFFICES ASSUME EgressInv, [Out!Next]_(Out!egressVars) PROVE EgressInv'
  OBVIOUS
<1>1. ASSUME NEW s \in Streams, Out!Request(s) \/ Out!Refused(s) \/ Out!Drain(s) PROVE EgressInv'
  BY <1>1, TurnKeeps
<1>2. ASSUME NEW s \in Streams, Out!Leave(s) \/ Out!Reap(s) PROVE EgressInv'  BY <1>2, LeaveKeeps
<1>3. ASSUME NEW s \in Streams, Out!Write(s) PROVE EgressInv'  BY <1>3, WriteKeeps
<1>4. ASSUME NEW s \in Streams, Out!Finish(s) PROVE EgressInv'  BY <1>4, FinishKeeps
<1>5. ASSUME NEW s \in Streams, NEW size \in Sizes, Out!Start(s, size) PROVE EgressInv'
  BY <1>5, StreamStartKeeps
<1>6. ASSUME NEW i \in Sources, NEW size \in Sizes, Out!Emit(i, size) PROVE EgressInv'
  BY <1>6, EmitKeeps
<1>7. CASE UNCHANGED Out!egressVars  BY <1>7 DEF Out!egressVars, EgressInv
<1> QED BY <1>1, <1>2, <1>3, <1>4, <1>5, <1>6, <1>7 DEF Out!Next

LEMMA EgressPromises == Out!EgressConstantsOK /\ EgressInv => Out!StreamsCostLittle
<1> SUFFICES ASSUME Out!EgressConstantsOK, EgressInv PROVE Out!StreamsCostLittle
  OBVIOUS
<1>1. Out!DeadHoldNothing  BY DEF EgressInv, StreamOK, Out!DeadHoldNothing
<1>2. ASSUME NEW s \in Streams
      PROVE  Total(conn[s].queue) <= Budget + (IF conn[s].body = "errored" THEN Out!Max(Sizes) ELSE 0)
  <2> DEFINE unread == Total(conn[s].queue)
  <2>1. Within(conn[s]) /\ conn[s] \in Conns  BY DEF EgressInv, StreamOK
  <2>2. unread \in Nat  BY <2>1, ConnFields, TotalNat
  <2>3. unread <= Budget \/ (conn[s].body = "errored" /\ \E size \in Sizes : unread <= Budget + size)
    BY <2>1 DEF Within
  <2> HIDE DEF unread
  <2>4. Out!Max(Sizes) \in Nat /\ Budget \in Nat /\ \A size \in Sizes : size \in Nat /\ size <= Out!Max(Sizes)
    BY SizesAreSizes
  <2>5. CASE conn[s].body = "errored"
    <3>1. unread <= Budget + Out!Max(Sizes)  BY <2>2, <2>3, <2>4
    <3> QED BY <2>5, <3>1 DEF unread
  <2>6. CASE conn[s].body # "errored"
    <3>1. unread <= Budget + 0  BY <2>2, <2>3, <2>4, <2>6
    <3> QED BY <2>6, <3>1 DEF unread
  <2> QED BY <2>5, <2>6
<1> QED BY <1>1, <1>2, SameTotal DEF Out!StreamsCostLittle, Out!BudgetHolds, Out!Unread

(* Clients that stall, are killed or leave, however requests, envelopes,   *)
(* drains and aborts interleave: what a stream holds unread stays within   *)
(* the budget, plus the envelope that kills a socket, and a stream that    *)
(* was killed or whose client left holds no listener and no name           *)
(* (handleStream, ws.ts, writeWebResponse).                                *)
THEOREM OutCorrect == ASSUME Out!EgressConstantsOK PROVE Out!Spec => []Out!StreamsCostLittle
<1>1. Out!Init => EgressInv  BY EgressStarts
<1>2. EgressInv /\ [Out!Next]_(Out!egressVars) => EgressInv'  BY EgressKeeps
<1>3. EgressInv => Out!StreamsCostLittle  BY EgressPromises
<1> QED BY <1>1, <1>2, <1>3, PTL DEF Out!Spec
-----------------------------------------------------------------------------
(* Ingress.  What is known of a request at each of its stages.             *)

Before == {"idle", "origin", "throttle", "auth", "dispatch", "body", "reconciling"}
Shaped(q) ==
    q = [in |-> q.in, at |-> q.at, status |-> q.status, error |-> q.error, results |-> q.results,
         built |-> q.built, ran |-> q.ran, charged |-> q.charged, told |-> q.told]
Asked(q) == 1 .. (IF q.in.plane = "page" THEN 1 ELSE q.in.size)

(* Nothing was done for it.                                                *)
Untouched(q) == q.built = {} /\ q.ran = "nobody"

(* What the results of the entries say is what became of them.             *)
Tells(q) ==
    /\ q.results = [i \in Asked(q) |-> q.results[i]]
    /\ \A i \in Asked(q) : q.results[i] = "instance" <=> i \in q.built

(* The promise made with an answer.                                        *)
Truthful(q) ==
    /\ In!Refuses(q) => Untouched(q)
    /\ q.status \in {400, 413, 429} /\ q.error = "none" => q.charged = 0
    /\ q.in.plane = "batch" /\ q.status = 200 => Tells(q)
    /\ q.in.isNew /\ q.built # {} /\ q.status # 500 => q.told
    /\ q.in.plane = "batch" /\ q.in.body = "good" => q.status # 500

(* The entries are paid for before the first of them is mounted.           *)
PaidFor(q) ==
    q.in.plane # "page" => q.built = {} \/ (q.built \subseteq 1 .. q.in.size /\ q.charged = q.in.size)

(* What the application's own code throws may come after it did something. *)
Hooked == {"page", "route", "url"}
Excused(q, e) == e = "crash" \/ (e \in In!Thrown /\ q.in.plane \in Hooked)

RequestOK(q) ==
    /\ Shaped(q) /\ q.in \in Inputs /\ q.charged \in Nat /\ PaidFor(q)
    /\ q.at \in Before => Untouched(q) /\ q.charged = 0 /\ q.error = "none"
    /\ q.at = "body" => q.in.plane \in In!Control \ {"stream"}
    /\ q.at = "reconciling" => q.in.plane = "url"
    /\ q.at = "mounting" =>
         /\ q.in.plane \in {"page", "mount", "batch"} /\ q.error = "none" /\ q.ran = "nobody"
         /\ q.in.plane # "page" => q.charged = q.in.size
         /\ q.in.plane # "batch" => q.built = {}
         /\ Tells(q) /\ q.built \subseteq Asked(q)
    /\ q.at = "render" => q.in.plane = "page" /\ q.error = "none" /\ q.ran = "nobody"
    /\ q.at = "threw" =>
         /\ q.error \in {"large", "redirect", "invalid", "shed", "missing", "crash"}
         /\ Excused(q, q.error) \/ Untouched(q)
         /\ ~(q.in.plane = "batch" /\ q.in.body = "good")
    /\ q.at = "done" => Truthful(q)

IngressInv ==
    /\ rq = [r \in Requests |-> rq[r]] /\ \A r \in Requests : RequestOK(rq[r])
    /\ tokens \in Nat /\ tokens + In!Paid(rq) = Burst /\ holder \in {"us", "them", "gone"}

-----------------------------------------------------------------------------
LEMMA SameSize == ASSUME NEW S PROVE In!Cardinality(S) = Cardinality(S)
  BY DEF In!Cardinality, Cardinality

LEMMA PaidIs ==
    ASSUME NEW qs
    PROVE  In!Paid(qs) = Total([n \in 1 .. Cardinality(Requests) |->
                                   qs[In!SetToSeq(Requests)[n]].charged])
<1>1. \A seq : In!Total(seq) = Total(seq)  BY DEF In!Total, Total
<1> QED BY <1>1, SameSize DEF In!Paid

(* The requests in their order, each once.                                 *)
LEMMA RequestsInOrder ==
    ASSUME In!IngressConstantsOK
    PROVE  /\ Cardinality(Requests) \in Nat
           /\ In!SetToSeq(Requests) \in [1 .. Cardinality(Requests) -> Requests]
           /\ IsInjective(In!SetToSeq(Requests))
           /\ \A r \in Requests : \E k \in 1 .. Cardinality(Requests) : In!SetToSeq(Requests)[k] = r
<1> DEFINE l == Cardinality(Requests)
           o == In!SetToSeq(Requests)
<1>1. IsFiniteSet(Requests)
  <2>1. In!IsFiniteSet(Requests) = IsFiniteSet(Requests)  BY DEF In!IsFiniteSet, IsFiniteSet
  <2> QED BY <2>1 DEF In!IngressConstantsOK
<1>2. l \in Nat /\ ExistsBijection(1 .. l, Requests)  BY <1>1, FS_CardinalityType
<1>3. PICK f \in Bijection(1 .. l, Requests) : TRUE  BY <1>2 DEF ExistsBijection
<1>4. f \in [1 .. l -> Requests] /\ In!IsInjective(f)
  BY <1>3 DEF Bijection, Injection, IsInjective, In!IsInjective
<1>5. In!SetToSeq(Requests) \in [1 .. In!Cardinality(Requests) -> Requests]
      /\ In!IsInjective(In!SetToSeq(Requests))
  BY <1>4, SameSize DEF In!SetToSeq
<1>6. o \in [1 .. l -> Requests] /\ IsInjective(o)
  BY <1>5, SameSize DEF In!IsInjective, IsInjective
<1>7. o \in Injection(1 .. l, Requests)  BY <1>6 DEF Injection, IsInjective
<1>8. Cardinality(1 .. l) = l  BY <1>2, FS_Interval
<1> HIDE DEF o
<1>9. o \in Surjection(1 .. l, Requests)  BY <1>1, <1>7, <1>8, FS_Injection
<1>10. \A r \in Requests : \E k \in 1 .. l : o[k] = r  BY <1>9 DEF Surjection
<1> QED BY <1>2, <1>6, <1>10 DEF o

(* What is charged to one of the requests is charged to them together.     *)
LEMMA PaidGrows ==
    ASSUME In!IngressConstantsOK, NEW r \in Requests, NEW c \in Nat, NEW p, NEW qs,
           qs = [s \in Requests |-> qs[s]], \A s \in Requests : qs[s].charged \in Nat,
           p.charged = qs[r].charged + c
    PROVE  In!Paid([qs EXCEPT ![r] = p]) = In!Paid(qs) + c /\ In!Paid(qs) \in Nat
<1> DEFINE l == Cardinality(Requests)
           o == In!SetToSeq(Requests)
           ps == [qs EXCEPT ![r] = p]
           q == [n \in 1 .. l |-> qs[o[n]].charged]
           w == [n \in 1 .. l |-> ps[o[n]].charged]
<1>1. l \in Nat /\ o \in [1 .. l -> Requests] /\ IsInjective(o)  BY RequestsInOrder
<1>2. PICK k \in 1 .. l : o[k] = r  BY RequestsInOrder
<1>3. \A n \in 1 .. l : n # k => o[n] # r
  <2> HIDE DEF o, l
  <2> QED BY <1>1, <1>2 DEF IsInjective
<1>4. q \in [1 .. l -> Nat]
  <2> HIDE DEF o, l
  <2> QED BY <1>1
<1>5. \A n \in 1 .. l : w[n] = IF n = k THEN q[n] + c ELSE q[n]
  <2> HIDE DEF l, o
  <2>1. \A s \in Requests : ps[s] = IF s = r THEN p ELSE qs[s]  OBVIOUS
  <2> HIDE DEF ps
  <2>2. \A n \in 1 .. l : o[n] \in Requests /\ w[n] = ps[o[n]].charged /\ q[n] = qs[o[n]].charged
    BY <1>1
  <2> HIDE DEF w, q
  <2> QED BY <1>2, <1>3, <2>1, <2>2
<1>6. w = [q EXCEPT ![k] = @ + c]
  <2>1. w = [n \in 1 .. l |-> w[n]] /\ q = [n \in 1 .. l |-> q[n]]  OBVIOUS
  <2> HIDE DEF w, q, l
  <2> QED BY <1>5, <2>1
<1>7. In!Paid(qs) = Total(q) /\ In!Paid(ps) = Total(w)  BY PaidIs
<1>8. q \in Seq(Nat)
  <2> HIDE DEF q, l
  <2> QED BY <1>1, <1>4
<1> HIDE DEF q, w, ps, l
<1>9. Total(q) \in Nat  BY <1>8, TotalNat
<1>10. Total(w) = Total(q) + c  BY <1>1, <1>4, <1>6, TotalGrows
<1> QED BY <1>7, <1>9, <1>10 DEF ps

LEMMA IngressStarts == ASSUME In!IngressConstantsOK PROVE In!Init => IngressInv
<1> SUFFICES ASSUME In!Init PROVE IngressInv
  OBVIOUS
<1>1. In!Idle.in \in Inputs  BY DEF In!Idle, In!IngressConstantsOK
<1>2. RequestOK(In!Idle)
  BY <1>1 DEF In!Idle, RequestOK, Shaped, PaidFor, Before, Untouched
<1>3. \A r \in Requests : rq[r] = In!Idle  BY DEF In!Init
<1>4. In!Paid(rq) = 0
  <2> DEFINE l == Cardinality(Requests)
             o == In!SetToSeq(Requests)
  <2>1. l \in Nat /\ o \in [1 .. l -> Requests]  BY RequestsInOrder
  <2>2. [n \in 1 .. l |-> rq[o[n]].charged] = [n \in 1 .. l |-> 0]
    <3>1. In!Idle.charged = 0  BY DEF In!Idle
    <3> HIDE DEF o, l
    <3> QED BY <1>3, <2>1, <3>1
  <2>3. In!Paid(rq) = Total([n \in 1 .. l |-> rq[o[n]].charged])  BY PaidIs
  <2> HIDE DEF o, l
  <2> QED BY <2>1, <2>2, <2>3, TotalZero
<1> QED BY <1>2, <1>3, <1>4 DEF In!Init, IngressInv, In!IngressConstantsOK

(* A step of one request, charged with c tokens.                           *)
LEMMA StepPays ==
    ASSUME In!IngressConstantsOK, IngressInv, NEW r \in Requests, NEW p, NEW c \in Nat,
           RequestOK(p), p.charged = rq[r].charged + c, c <= tokens,
           rq' = [rq EXCEPT ![r] = p], tokens' = tokens - c, holder' = holder
    PROVE  IngressInv'
<1>1. \A s \in Requests : rq[s].charged \in Nat  BY DEF IngressInv, RequestOK
<1>2. rq = [s \in Requests |-> rq[s]]  BY DEF IngressInv
<1>3. In!Paid(rq') = In!Paid(rq) + c /\ In!Paid(rq) \in Nat  BY <1>1, <1>2, PaidGrows
<1>4. rq' = [s \in Requests |-> rq'[s]] /\ \A s \in Requests : rq'[s] = IF s = r THEN p ELSE rq[s]
  BY <1>2
<1>5. \A s \in Requests : RequestOK(rq'[s])  BY <1>4 DEF IngressInv
<1>6. tokens' \in Nat /\ tokens' + In!Paid(rq') = Burst
  BY <1>3 DEF IngressInv, In!IngressConstantsOK
<1>7. IngressInv' = (/\ rq' = [s \in Requests |-> rq'[s]] /\ \A s \in Requests : RequestOK(rq'[s])
                     /\ tokens' \in Nat /\ tokens' + In!Paid(rq') = Burst
                     /\ holder' \in {"us", "them", "gone"})
  BY DEF IngressInv, In!Paid, RequestOK, Shaped, PaidFor, Before, Untouched, Asked, Tells, Truthful
<1> QED BY <1>4, <1>5, <1>6, <1>7 DEF IngressInv

LEMMA OneStep ==
    ASSUME In!IngressConstantsOK, IngressInv, NEW r \in Requests, NEW p,
           RequestOK(p), p.charged = rq[r].charged, In!Step(r, p)
    PROVE  IngressInv'
<1>1. tokens \in Nat /\ rq[r].charged \in Nat  BY DEF IngressInv, RequestOK
<1>2. tokens' = tokens - 0 /\ p.charged = rq[r].charged + 0 /\ 0 <= tokens /\ 0 \in Nat
  BY <1>1 DEF In!Step
<1>3. rq' = [rq EXCEPT ![r] = p] /\ holder' = holder  BY DEF In!Step
<1> QED BY <1>2, <1>3, StepPays

-----------------------------------------------------------------------------
(* How a stage ends *)

(* What the inputs are.                                                    *)
LEMMA InputFields ==
    ASSUME In!IngressConstantsOK, NEW q, RequestOK(q)
    PROVE  /\ q.in.plane \in In!Control \cup {"route", "page", "other"} /\ q.in.isNew \in BOOLEAN
           /\ q.in.sameOrigin \in BOOLEAN
           /\ q.in.body \in {"good", "over", "garbled", "odd"} /\ q.in.size \in Nat
<1>1. q.in \in In!Input  BY DEF In!IngressConstantsOK, RequestOK
<1> QED BY <1>1 DEF In!Input

(* The same request, at the same account.                                  *)
SameAs(p, q) ==
    /\ Shaped(p) /\ p.in = q.in /\ p.built = q.built /\ p.charged = q.charged

LEMMA Ends ==
    ASSUME NEW q, Shaped(q), NEW x
    PROVE  /\ SameAs(In!At(q, x), q) /\ In!At(q, x).at = x /\ In!At(q, x).error = q.error /\ In!At(q, x).ran = q.ran
           /\ SameAs(In!Plain(q, x), q) /\ In!Plain(q, x).at = "done" /\ In!Plain(q, x).status = x
           /\ In!Plain(q, x).error = q.error /\ In!Plain(q, x).ran = q.ran /\ In!Plain(q, x).results = q.results
           /\ SameAs(In!Done(q, x), q) /\ In!Done(q, x).at = "done" /\ In!Done(q, x).status = x
           /\ In!Done(q, x).error = q.error /\ In!Done(q, x).ran = q.ran /\ In!Done(q, x).results = q.results
           /\ In!Done(q, x).told = q.in.isNew
           /\ SameAs(In!Throw(q, x), q) /\ In!Throw(q, x).at = "threw" /\ In!Throw(q, x).error = x
           /\ In!Throw(q, x).ran = q.ran
<1>1. SameAs(In!At(q, x), q) /\ In!At(q, x).at = x /\ In!At(q, x).error = q.error /\ In!At(q, x).ran = q.ran
  BY DEF Shaped, SameAs, In!At
<1>2. /\ SameAs(In!Plain(q, x), q) /\ In!Plain(q, x).at = "done" /\ In!Plain(q, x).status = x
      /\ In!Plain(q, x).error = q.error /\ In!Plain(q, x).ran = q.ran /\ In!Plain(q, x).results = q.results
  <2> DEFINE d == [q EXCEPT !.at = "done"]
  <2>1. /\ Shaped(d) /\ d.in = q.in /\ d.built = q.built /\ d.charged = q.charged
        /\ d.at = "done" /\ d.error = q.error /\ d.ran = q.ran /\ d.results = q.results
    BY DEF Shaped
  <2>2. In!Plain(q, x) = [d EXCEPT !.status = x]  BY DEF In!Plain
  <2> HIDE DEF d
  <2> QED BY <2>1, <2>2 DEF Shaped, SameAs
<1>3. /\ SameAs(In!Done(q, x), q) /\ In!Done(q, x).at = "done" /\ In!Done(q, x).status = x
      /\ In!Done(q, x).error = q.error /\ In!Done(q, x).ran = q.ran /\ In!Done(q, x).results = q.results
      /\ In!Done(q, x).told = q.in.isNew
  <2> DEFINE d == In!Plain(q, x)
  <2>1. In!Done(q, x) = [d EXCEPT !.told = q.in.isNew]  BY DEF In!Done
  <2> HIDE DEF d
  <2> QED BY <1>2, <2>1 DEF Shaped, SameAs, d
<1>4. /\ SameAs(In!Throw(q, x), q) /\ In!Throw(q, x).at = "threw" /\ In!Throw(q, x).error = x
      /\ In!Throw(q, x).ran = q.ran
  <2> DEFINE d == [q EXCEPT !.at = "threw"]
  <2>1. /\ Shaped(d) /\ d.in = q.in /\ d.built = q.built /\ d.charged = q.charged
        /\ d.at = "threw" /\ d.ran = q.ran
    BY DEF Shaped
  <2>2. In!Throw(q, x) = [d EXCEPT !.error = x]  BY DEF In!Throw
  <2> HIDE DEF d
  <2> QED BY <2>1, <2>2 DEF Shaped, SameAs
<1> QED BY <1>1, <1>2, <1>3, <1>4

(* A request answered: what its status says holds, and a new session that  *)
(* was given something is told.                                            *)
Answers(q, status) ==
    /\ \/ status \in {400, 403, 404, 405, 413, 429}
       \/ status \in {302, 422} /\ q.in.plane \notin Hooked
       => Untouched(q)
    /\ status \in {400, 413, 429} /\ q.error = "none" => q.charged = 0
    /\ q.in.plane = "batch" /\ status = 200 => Tells(q)
    /\ q.in.plane = "batch" /\ q.in.body = "good" => status # 500

LEMMA Answered ==
    ASSUME NEW q, RequestOK(q), NEW status, NEW p, Answers(q, status),
           p = In!Done(q, status) \/ (p = In!Plain(q, status) /\ (q.built = {} \/ status = 500))
    PROVE  RequestOK(p) /\ p.charged = q.charged
<1>0. Shaped(q) /\ q.in \in Inputs /\ q.charged \in Nat /\ PaidFor(q)  BY DEF RequestOK
<1>1. /\ SameAs(p, q) /\ p.at = "done" /\ p.status = status /\ p.error = q.error
      /\ p.ran = q.ran /\ p.results = q.results
      /\ q.built # {} /\ status # 500 => p.told = q.in.isNew
  BY <1>0, Ends
<1>2. Truthful(p)
  BY <1>1 DEF Truthful, Answers, Untouched, Tells, Asked, SameAs, In!Refuses, Hooked
<1> QED BY <1>0, <1>1, <1>2 DEF RequestOK, SameAs, PaidFor, Before

(* Before anything was done, an answer is about nothing.                   *)
LEMMA AnsweredBefore ==
    ASSUME NEW q, RequestOK(q), q.at \in Before, NEW status, NEW p,
           q.in.plane = "batch" => status \notin {200, 500},
           p = In!Done(q, status) \/ p = In!Plain(q, status)
    PROVE  RequestOK(p) /\ p.charged = q.charged
<1>1. Untouched(q) /\ q.charged = 0  BY DEF RequestOK
<1>2. Answers(q, status)  BY <1>1 DEF Answers
<1> QED BY <1>1, <1>2, Answered DEF Untouched

(* A request goes on to its next stage.                                    *)
LEMMA GoesOn ==
    ASSUME NEW q, RequestOK(q), q.at \in Before, NEW stage \in Before,
           stage = "body" => q.in.plane \in In!Control \ {"stream"},
           stage = "reconciling" => q.in.plane = "url"
    PROVE  RequestOK(In!At(q, stage)) /\ In!At(q, stage).charged = q.charged
<1> DEFINE p == In!At(q, stage)
<1>1. SameAs(p, q) /\ p.at = stage /\ p.error = q.error /\ p.ran = q.ran
  BY Ends DEF RequestOK
<1> HIDE DEF p
<1>2. RequestOK(p)
  BY <1>1 DEF RequestOK, SameAs, PaidFor, Untouched, Before
<1> QED BY <1>1, <1>2 DEF p, SameAs

(* A request throws: after it has done something, it crashes, or the       *)
(* application's own code threw.                                           *)
LEMMA Threw ==
    ASSUME NEW q, RequestOK(q), ~(q.in.plane = "batch" /\ q.in.body = "good"),
           NEW e \in {"large", "redirect", "invalid", "shed", "missing", "crash"},
           Excused(q, e) \/ Untouched(q)
    PROVE  RequestOK(In!Throw(q, e)) /\ In!Throw(q, e).charged = q.charged
<1> DEFINE p == In!Throw(q, e)
<1>1. SameAs(p, q) /\ p.at = "threw" /\ p.error = e /\ p.ran = q.ran
  BY Ends DEF RequestOK
<1> HIDE DEF p
<1>2. RequestOK(p)
  BY <1>1 DEF RequestOK, SameAs, PaidFor, Untouched, Before, Excused
<1> QED BY <1>1, <1>2 DEF p, SameAs

(* A request runs something, and is answered that it did, or throws.       *)
LEMMA Ran ==
    ASSUME NEW q, RequestOK(q), q.at \in Before, q.in.plane # "batch",
           NEW status \in {200, 202, 204}, NEW who, NEW e \in In!Thrown
    PROVE  LET d == [q EXCEPT !.ran = who] IN
           /\ RequestOK(In!Done(d, status)) /\ In!Done(d, status).charged = q.charged
           /\ q.in.plane \in Hooked =>
                 RequestOK(In!Throw(d, e)) /\ In!Throw(d, e).charged = q.charged
<1> DEFINE d == [q EXCEPT !.ran = who]
<1>1. /\ Shaped(d) /\ d.in = q.in /\ d.built = q.built /\ d.charged = q.charged
      /\ d.error = q.error
  BY DEF RequestOK, Shaped
<1>2. q.in \in Inputs /\ q.charged = 0 /\ q.built = {}  BY DEF RequestOK, Untouched
<1> HIDE DEF d
<1>3. RequestOK(In!Done(d, status)) /\ In!Done(d, status).charged = q.charged
  <2> DEFINE p == In!Done(d, status)
  <2>1. SameAs(p, d) /\ p.at = "done" /\ p.status = status  BY <1>1, Ends
  <2> HIDE DEF p
  <2>2. Truthful(p)  BY <1>1, <1>2, <2>1 DEF Truthful, SameAs, In!Refuses
  <2>3. RequestOK(p)  BY <1>1, <1>2, <2>1, <2>2 DEF RequestOK, SameAs, PaidFor, Before
  <2> QED BY <1>1, <2>1, <2>3 DEF p, SameAs
<1>4. ASSUME q.in.plane \in Hooked
      PROVE  RequestOK(In!Throw(d, e)) /\ In!Throw(d, e).charged = q.charged
  <2> DEFINE p == In!Throw(d, e)
  <2>1. SameAs(p, d) /\ p.at = "threw" /\ p.error = e  BY <1>1, Ends
  <2> HIDE DEF p
  <2>2. e \in {"redirect", "invalid", "crash"}  BY DEF In!Thrown
  <2>3. RequestOK(p)
    BY <1>1, <1>2, <1>4, <2>1, <2>2 DEF RequestOK, SameAs, PaidFor, Before, Excused, Hooked, In!Thrown
  <2> QED BY <1>1, <2>1, <2>3 DEF p, SameAs
<1> QED BY <1>3, <1>4 DEF d

-----------------------------------------------------------------------------
(* The stages *)

LEMMA ArriveKeeps ==
    ASSUME In!IngressConstantsOK, IngressInv, NEW r \in Requests, In!Arrive(r)
    PROVE  IngressInv'
<1>1. PICK i \in Inputs : In!Step(r, [In!Idle EXCEPT !.in = i, !.at = "origin"])  BY DEF In!Arrive
<1> DEFINE p == [In!Idle EXCEPT !.in = i, !.at = "origin"]
<1>2. /\ Shaped(p) /\ p.in = i /\ p.at = "origin" /\ p.built = {} /\ p.ran = "nobody"
      /\ p.charged = 0 /\ p.error = "none"
  <2> DEFINE d == [In!Idle EXCEPT !.in = i]
  <2>1. /\ Shaped(d) /\ d.in = i /\ d.built = {} /\ d.ran = "nobody"
        /\ d.charged = 0 /\ d.error = "none"
    BY DEF In!Idle, Shaped
  <2>2. p = [d EXCEPT !.at = "origin"]  OBVIOUS
  <2> HIDE DEF p, d
  <2> QED BY <2>1, <2>2 DEF Shaped
<1>3. rq[r].charged = 0  BY DEF In!Arrive, IngressInv, RequestOK, Before
<1>4. In!Step(r, p)  BY <1>1
<1> HIDE DEF p
<1>5. RequestOK(p)  BY <1>2 DEF RequestOK, PaidFor, Before, Untouched
<1> QED BY <1>2, <1>3, <1>4, <1>5, OneStep

LEMMA GatesKeep ==
    ASSUME In!IngressConstantsOK, IngressInv, NEW r \in Requests,
           In!Origin(r) \/ In!Throttle(r) \/ In!Authenticate(r)
    PROVE  IngressInv'
<1> DEFINE q == rq[r]
<1>1. RequestOK(q) /\ q.at \in Before  BY DEF IngressInv, In!Origin, In!Throttle, In!Authenticate, Before
<1>2. \/ \E status \in {403, 429} : In!Step(r, In!Plain(q, status))
      \/ \E stage \in {"throttle", "auth", "dispatch"} : In!Step(r, In!At(q, stage))
  BY DEF In!Origin, In!Throttle, In!Authenticate
<1>3. ASSUME NEW status \in {403, 429}, In!Step(r, In!Plain(q, status)) PROVE IngressInv'
  <2> DEFINE p == In!Plain(q, status)
  <2>1. p = In!Plain(q, status) /\ In!Step(r, p)  BY <1>3
  <2> HIDE DEF p, q
  <2>2. RequestOK(p) /\ p.charged = q.charged  BY <1>1, <2>1, AnsweredBefore
  <2> QED BY <2>1, <2>2, OneStep DEF q
<1>4. ASSUME NEW stage \in {"throttle", "auth", "dispatch"}, In!Step(r, In!At(q, stage))
      PROVE  IngressInv'
  <2>1. stage \in Before /\ stage # "reconciling"  BY DEF Before
  <2> HIDE DEF q
  <2>2. RequestOK(In!At(q, stage)) /\ In!At(q, stage).charged = q.charged  BY <1>1, <2>1, GoesOn
  <2> QED BY <1>4, <2>2, OneStep DEF q
<1> QED BY <1>2, <1>3, <1>4

(* Mounting begins: no entry has settled.                                  *)
LEMMA MountsBegin ==
    ASSUME NEW q, Shaped(q), q.in \in Inputs, q.charged \in Nat,
           q.built = {}, q.ran = "nobody", q.error = "none",
           q.in.plane \in {"page", "mount", "batch"}, q.in.plane # "page" => q.charged = q.in.size,
           NEW n, n = IF q.in.plane = "page" THEN 1 ELSE q.in.size
    PROVE  RequestOK(In!Mounting(q, n)) /\ In!Mounting(q, n).charged = q.charged
<1> DEFINE d == [q EXCEPT !.at = "mounting"]
           p == In!Mounting(q, n)
<1>1. /\ Shaped(d) /\ d.in = q.in /\ d.built = q.built /\ d.charged = q.charged
      /\ d.at = "mounting" /\ d.error = q.error /\ d.ran = q.ran
  BY DEF Shaped
<1>2. p = [d EXCEPT !.results = [i \in 1 .. n |-> "none"]]  BY DEF In!Mounting
<1> HIDE DEF d, p
<1>3. /\ SameAs(p, q) /\ p.at = "mounting" /\ p.error = "none" /\ p.ran = "nobody"
      /\ p.results = [i \in 1 .. n |-> "none"]
  BY <1>1, <1>2 DEF Shaped, SameAs
<1>4. Asked(p) = 1 .. n  BY <1>3 DEF Asked, SameAs
<1>5. Tells(p)  BY <1>3, <1>4 DEF Tells, SameAs
<1>6. RequestOK(p)  BY <1>3, <1>5 DEF RequestOK, SameAs, PaidFor, Before
<1> QED BY <1>3, <1>6 DEF SameAs, p

LEMMA DispatchKeeps ==
    ASSUME In!IngressConstantsOK, IngressInv, NEW r \in Requests, In!Dispatch(r)
    PROVE  IngressInv'
<1> DEFINE q == rq[r]
<1>1. RequestOK(q) /\ q.at = "dispatch"  BY DEF IngressInv, In!Dispatch
<1>2. /\ q.at \in Before /\ Untouched(q) /\ q.error = "none"
  BY <1>1 DEF RequestOK, Before
<1>3. \/ q.in.plane # "batch" /\ \E status \in {200, 403, 405} : In!Step(r, In!Done(q, status))
      \/ q.in.plane \in In!Control \ {"stream"} /\ In!Step(r, In!At(q, "body"))
      \/ q.in.plane # "batch" /\ In!Step(r, In!Done([q EXCEPT !.ran = "us"], 200))
      \/ q.in.plane = "route" /\ \E e \in In!Thrown : In!Step(r, In!Throw([q EXCEPT !.ran = "us"], e))
      \/ q.in.plane # "batch" /\ \E e \in {"missing", "invalid"} : In!Step(r, In!Throw(q, e))
      \/ q.in.plane = "page" /\ In!Step(r, In!Mounting(q, 1))
      \/ In!Step(r, In!Plain(q, 404))
  <2>1. q.in.plane \in In!Control \cup {"route", "page", "other"}  BY <1>1, InputFields
  <2>2. CASE q.in.plane = "stream"  BY <2>2 DEF In!Dispatch
  <2>3. CASE q.in.plane \in In!Control \ {"stream"}
    <3>1. q.in.plane \notin {"stream", "route", "page", "other"}  BY <2>3 DEF In!Control
    <3> QED BY <2>3, <3>1 DEF In!Dispatch
  <2>4. CASE q.in.plane = "route"
    <3>1. "route" \notin In!Control  BY DEF In!Control
    <3> QED BY <2>4, <3>1 DEF In!Dispatch
  <2>5. CASE q.in.plane = "page"
    <3>1. "page" \notin In!Control  BY DEF In!Control
    <3> QED BY <2>5, <3>1 DEF In!Dispatch
  <2>6. CASE q.in.plane = "other"
    <3>1. "other" \notin In!Control  BY DEF In!Control
    <3> QED BY <2>6, <3>1 DEF In!Dispatch
  <2> QED BY <2>1, <2>2, <2>3, <2>4, <2>5, <2>6
<1>4. ASSUME NEW p, RequestOK(p), p.charged = q.charged, In!Step(r, p) PROVE IngressInv'
  BY <1>4, OneStep
<1> HIDE DEF q
<1>5. ASSUME NEW status \in {200, 403, 405}, q.in.plane # "batch"
      PROVE  RequestOK(In!Done(q, status)) /\ In!Done(q, status).charged = q.charged
  BY <1>1, <1>2, <1>5, AnsweredBefore
<1>6. ASSUME q.in.plane \in In!Control \ {"stream"}
      PROVE  RequestOK(In!At(q, "body")) /\ In!At(q, "body").charged = q.charged
  <2>1. "body" \in Before /\ "body" # "reconciling"  BY DEF Before
  <2> QED BY <1>1, <1>2, <1>6, <2>1, GoesOn
<1>7. ASSUME q.in.plane # "batch", NEW e \in In!Thrown
      PROVE  LET d == [q EXCEPT !.ran = "us"] IN
             /\ RequestOK(In!Done(d, 200)) /\ In!Done(d, 200).charged = q.charged
             /\ q.in.plane = "route" =>
                   RequestOK(In!Throw(d, e)) /\ In!Throw(d, e).charged = q.charged
  <2>1. 200 \in {200, 202, 204} /\ "route" \in Hooked  BY DEF Hooked
  <2> QED BY <1>1, <1>2, <1>7, <2>1, Ran
<1>11. ASSUME q.in.plane # "batch"
       PROVE  LET d == [q EXCEPT !.ran = "us"] IN
              RequestOK(In!Done(d, 200)) /\ In!Done(d, 200).charged = q.charged
  <2>1. "crash" \in In!Thrown  BY DEF In!Thrown
  <2> QED BY <1>7, <1>11, <2>1
<1>8. ASSUME NEW e \in {"missing", "invalid"}, q.in.plane # "batch"
      PROVE  RequestOK(In!Throw(q, e)) /\ In!Throw(q, e).charged = q.charged
  BY <1>1, <1>2, <1>8, Threw
<1>9. ASSUME q.in.plane = "page"
      PROVE  RequestOK(In!Mounting(q, 1)) /\ In!Mounting(q, 1).charged = q.charged
  BY <1>1, <1>2, <1>9, MountsBegin DEF RequestOK, Untouched
<1>10. RequestOK(In!Plain(q, 404)) /\ In!Plain(q, 404).charged = q.charged
  <2> DEFINE p == In!Plain(q, 404)
             status == 404
  <2>1. p = In!Plain(q, status) /\ status \notin {200, 500}  OBVIOUS
  <2> HIDE DEF p, status
  <2>2. RequestOK(p) /\ p.charged = q.charged  BY <1>1, <1>2, <2>1, AnsweredBefore
  <2> QED BY <2>2 DEF p
<1> QED BY <1>3, <1>4, <1>5, <1>6, <1>7, <1>8, <1>9, <1>10, <1>11

-----------------------------------------------------------------------------
(* The control plane *)

LEMMA AskMountKeeps ==
    ASSUME In!IngressConstantsOK, IngressInv, NEW r \in Requests, rq[r].at = "body",
           rq[r].in.plane \in {"mount", "batch"}, In!AskMount(r)
    PROVE  IngressInv'
<1> DEFINE o == rq[r]
           c == In!Charged(o)
           q == [o EXCEPT !.charged = c]
           p == rq'[r]
<1>1. RequestOK(o) /\ tokens \in Nat /\ rq = [s \in Requests |-> rq[s]]  BY DEF IngressInv
<1>2. o.in.size \in Nat /\ Shaped(o) /\ o.in \in Inputs  BY <1>1, InputFields DEF RequestOK
<1>3. o.built = {} /\ o.ran = "nobody" /\ o.charged = 0 /\ o.error = "none"
  BY <1>1 DEF RequestOK, Untouched, Before
<1>4. /\ Shaped(q) /\ q.in = o.in /\ q.built = {} /\ q.ran = "nobody" /\ q.charged = c
      /\ q.error = "none" /\ q.at = "body"
  <2> HIDE DEF c
  <2>1. Shaped(o) /\ o.at = "body"  BY <1>2
  <2> HIDE DEF o
  <2> QED BY <1>3, <2>1 DEF Shaped
<1>5. In!Refusal(q) = In!Refusal(o) /\ In!Charged(q) = c
  <2>1. In!Refusal(q) = In!Refusal(o)
    <3> HIDE DEF q
    <3> QED BY <1>4 DEF In!Refusal
  <2> HIDE DEF q
  <2> QED BY <1>4, <2>1 DEF In!Charged
<1>6. /\ c \in Nat /\ c <= tokens
      /\ In!Refusal(o) # 0 => c = 0 /\ In!Refusal(o) \in {400, 413, 429}
      /\ In!Refusal(o) = 0 => c = o.in.size
  <2> HIDE DEF o
  <2> QED BY <1>1, <1>2 DEF In!Charged, In!Refusal
<1>7. rq' = [rq EXCEPT ![r] = p] /\ tokens' = tokens - c /\ holder' = holder
  <2> DEFINE t == IF In!Refusal(q) # 0 THEN In!Done(q, In!Refusal(q))
                  ELSE IF q.in.plane = "mount" /\ q.in.body = "odd" THEN In!Throw(q, "crash")
                  ELSE In!Mounting(q, q.in.size)
  <2>1. rq' = [rq EXCEPT ![r] = t] /\ tokens' = tokens - In!Charged(q) /\ holder' = holder
    BY Zenon DEF In!AskMount
  <2> HIDE DEF t, q, c
  <2> QED BY <1>1, <1>5, <2>1
<1>8. p = IF In!Refusal(q) # 0 THEN In!Done(q, In!Refusal(q))
          ELSE IF q.in.plane = "mount" /\ q.in.body = "odd" THEN In!Throw(q, "crash")
          ELSE In!Mounting(q, q.in.size)
  BY <1>1 DEF In!AskMount
<1> HIDE DEF o, c, q, p
<1>11. q.in.plane \in In!Control \ {"stream"}  BY <1>4 DEF In!Control, o
<1>9. RequestOK(p) /\ p.charged = c
  <2>1. CASE In!Refusal(q) # 0
    <3>1. RequestOK(q) /\ q.at \in Before
      BY <1>2, <1>4, <1>5, <1>6, <1>11, <2>1 DEF RequestOK, PaidFor, Untouched, Before
    <3>2. p = In!Done(q, In!Refusal(q)) /\ In!Refusal(q) \notin {200, 500}
      BY <1>5, <1>6, <1>8, <2>1
    <3> QED BY <1>4, <3>1, <3>2, AnsweredBefore
  <2>2. CASE In!Refusal(q) = 0 /\ q.in.plane = "mount" /\ q.in.body = "odd"
    <3> DEFINE t == In!Throw(q, "crash")
    <3>1. p = t  BY <1>8, <2>2
    <3>2. SameAs(t, q) /\ t.at = "threw" /\ t.error = "crash"  BY <1>4, Ends
    <3> HIDE DEF t
    <3>3. RequestOK(t)
      BY <1>2, <1>4, <1>6, <2>2, <3>2 DEF RequestOK, SameAs, PaidFor, Before, Excused
    <3> QED BY <1>4, <3>1, <3>2, <3>3 DEF SameAs
  <2>3. CASE In!Refusal(q) = 0 /\ ~(q.in.plane = "mount" /\ q.in.body = "odd")
    <3>1. p = In!Mounting(q, q.in.size)  BY <1>8, <2>3
    <3>2. q.in.plane \in {"mount", "batch"} /\ q.charged = q.in.size
      BY <1>4, <1>5, <1>6, <2>3 DEF o
    <3> QED BY <1>2, <1>4, <1>6, <3>1, <3>2, MountsBegin
  <2> QED BY <2>1, <2>2, <2>3
<1>10. p.charged = rq[r].charged + c  BY <1>3, <1>6, <1>9 DEF o
<1> QED BY <1>6, <1>7, <1>9, <1>10, StepPays

LEMMA ReadBodyKeeps ==
    ASSUME In!IngressConstantsOK, IngressInv, NEW r \in Requests, In!ReadBody(r)
    PROVE  IngressInv'
<1> DEFINE q == rq[r]
<1>1. RequestOK(q) /\ q.at = "body"  BY DEF IngressInv, In!ReadBody
<1>2. q.at \in Before /\ Untouched(q)  BY <1>1 DEF RequestOK, Before
<1>3. \/ q.in.body # "good" /\ \E e \in {"large", "crash"} : In!Step(r, In!Throw(q, e))
      \/ q.in.plane = "rpc" /\ In!Step(r, In!Accept(q))
      \/ q.in.plane \in {"mount", "batch"} /\ In!AskMount(r)
      \/ q.in.plane \notin {"rpc", "mount", "batch"} /\ In!Step(r, In!Named(q))
  BY DEF In!ReadBody
<1>4. ASSUME NEW p, RequestOK(p), p.charged = q.charged, In!Step(r, p) PROVE IngressInv'
  BY <1>4, OneStep
<1>5. ASSUME q.in.plane \in {"mount", "batch"}, In!AskMount(r) PROVE IngressInv'
  BY <1>1, <1>5, AskMountKeeps
<1>6. holder \in {"us", "them", "gone"}  BY DEF IngressInv
<1> HIDE DEF q
<1>7. ASSUME NEW e \in {"large", "crash"}, q.in.body # "good"
      PROVE  RequestOK(In!Throw(q, e)) /\ In!Throw(q, e).charged = q.charged
  BY <1>1, <1>2, <1>7, Threw DEF Excused
<1>8. ASSUME NEW status \in {200, 202, 204}, q.in.plane # "batch"
      PROVE  LET d == [q EXCEPT !.ran = holder] IN
             RequestOK(In!Done(d, status)) /\ In!Done(d, status).charged = q.charged
  <2>1. "crash" \in In!Thrown  BY DEF In!Thrown
  <2> QED BY <1>1, <1>2, <1>8, <2>1, Ran
<1>9. ASSUME NEW status \in {204, 400, 404}
      PROVE  RequestOK(In!Done(q, status)) /\ In!Done(q, status).charged = q.charged
  BY <1>1, <1>2, AnsweredBefore
<1>10. ASSUME q.in.plane = "rpc"
       PROVE  RequestOK(In!Accept(q)) /\ In!Accept(q).charged = q.charged
  <2>1. In!Accept(q) \in {In!Done(q, 400), In!Done(q, 404), In!Done([q EXCEPT !.ran = holder], 202)}
    BY DEF In!Accept
  <2> QED BY <1>8, <1>9, <1>10, <2>1
<1>11. ASSUME q.in.plane \notin {"rpc", "mount", "batch"}
       PROVE  RequestOK(In!Named(q)) /\ In!Named(q).charged = q.charged
  <2>1. CASE In!Named(q) \in {In!Done(q, 204), In!Done(q, 404), In!Done([q EXCEPT !.ran = holder], 204)}
    BY <1>8, <1>9, <1>11, <2>1
  <2>2. CASE q.in.plane \notin {"release", "resync"} /\ In!Named(q) = In!At(q, "reconciling")
    <3>1. "reconciling" \in Before /\ "reconciling" # "body" /\ q.in.plane = "url"
      BY <1>1, <1>11, <2>2 DEF Before, RequestOK, In!Control
    <3> QED BY <1>1, <1>2, <2>2, <3>1, GoesOn
  <2> QED BY <2>1, <2>2 DEF In!Named
<1> QED BY <1>3, <1>4, <1>5, <1>7, <1>10, <1>11

LEMMA ReconcileKeeps ==
    ASSUME In!IngressConstantsOK, IngressInv, NEW r \in Requests, In!Reconcile(r)
    PROVE  IngressInv'
<1> DEFINE q == rq[r]
           d == [q EXCEPT !.ran = "us"]
<1>1. RequestOK(q) /\ q.at = "reconciling"  BY DEF IngressInv, In!Reconcile
<1>2. q.at \in Before /\ Untouched(q) /\ q.in.plane = "url"  BY <1>1 DEF RequestOK, Before
<1>3. \/ In!Step(r, In!Throw(q, "invalid"))
      \/ \E e \in In!Thrown : In!Step(r, In!Throw(d, e))
      \/ \E status \in {200, 204} : In!Step(r, In!Done(d, status))
  BY DEF In!Reconcile
<1>4. ASSUME NEW p, RequestOK(p), p.charged = q.charged, In!Step(r, p) PROVE IngressInv'
  BY <1>4, OneStep
<1> HIDE DEF q
<1>5. RequestOK(In!Throw(q, "invalid")) /\ In!Throw(q, "invalid").charged = q.charged
  BY <1>1, <1>2, Threw
<1>6. ASSUME NEW status \in {200, 204}, NEW e \in In!Thrown
      PROVE  /\ RequestOK(In!Done(d, status)) /\ In!Done(d, status).charged = q.charged
             /\ RequestOK(In!Throw(d, e)) /\ In!Throw(d, e).charged = q.charged
  <2>1. status \in {200, 202, 204} /\ q.in.plane \in Hooked /\ q.in.plane # "batch"
    BY <1>2 DEF Hooked
  <2> QED BY <1>1, <1>2, <2>1, Ran
<1>7. "crash" \in In!Thrown /\ 200 \in {200, 204}  BY DEF In!Thrown
<1> HIDE DEF d
<1> QED BY <1>3, <1>4, <1>5, <1>6, <1>7

LEMMA MountSettlesKeeps ==
    ASSUME In!IngressConstantsOK, IngressInv, NEW r \in Requests, NEW i \in Nat, In!MountSettles(r, i)
    PROVE  IngressInv'
<1> DEFINE q == rq[r]
<1>1. /\ RequestOK(q) /\ q.at = "mounting" /\ i \in DOMAIN q.results
      /\ q.results[i] = "none"
  BY DEF IngressInv, In!MountSettles
<1>2. PICK o \in In!Outcomes : In!Step(r, In!Settled(q, i, o))  BY DEF In!MountSettles
<1> HIDE DEF q
<1>3. /\ q.in.plane \in {"page", "mount", "batch"} /\ q.error = "none" /\ q.ran = "nobody"
      /\ q.in.plane # "page" => q.charged = q.in.size
      /\ q.in.plane # "batch" => q.built = {}
      /\ Tells(q) /\ q.built \subseteq Asked(q)
      /\ Shaped(q) /\ q.in \in Inputs /\ q.charged \in Nat /\ PaidFor(q)
  BY <1>1 DEF RequestOK
<1>4. i \in Asked(q) /\ q.results = [k \in Asked(q) |-> q.results[k]]
  BY <1>1, <1>3 DEF Tells
<1> DEFINE results == [q.results EXCEPT ![i] = In!Result(o)]
           built == IF o = "instance" THEN q.built \cup {i} ELSE q.built
           s == [q EXCEPT !.results[i] = In!Result(o),
                          !.built = IF o = "instance" THEN @ \cup {i} ELSE @]
<1>5. /\ Shaped(s) /\ s.in = q.in /\ s.built = built /\ s.charged = q.charged /\ s.at = "mounting"
      /\ s.error = "none" /\ s.ran = "nobody" /\ s.results = results
  <2> DEFINE d == [q EXCEPT !.results = results]
  <2>1. /\ Shaped(d) /\ d.in = q.in /\ d.built = q.built /\ d.charged = q.charged
        /\ d.at = "mounting" /\ d.error = "none" /\ d.ran = "nobody" /\ d.results = results
    <3> HIDE DEF results
    <3> QED BY <1>1, <1>3 DEF Shaped
  <2>2. s = [d EXCEPT !.built = built]
    <3>1. s = [[q EXCEPT !.results = results] EXCEPT
                 !.built = IF o = "instance" THEN @ \cup {i} ELSE @]
      BY <1>3 DEF Shaped
    <3> QED BY <2>1, <3>1
  <2> HIDE DEF s, d, results, built
  <2> QED BY <2>1, <2>2 DEF Shaped
<1>6. In!Result(o) = "instance" <=> o = "instance"  BY DEF In!Result, In!Outcomes
<1>7. Asked(s) = Asked(q)
  <2> HIDE DEF s
  <2> QED BY <1>5 DEF Asked
<1>8. Tells(s) /\ s.built \subseteq Asked(s)
  <2>1. results = [k \in Asked(q) |-> IF k = i THEN In!Result(o) ELSE q.results[k]]
    BY <1>4
  <2> HIDE DEF s, results
  <2>2. s.results = [k \in Asked(s) |-> s.results[k]]  BY <1>5, <1>7, <2>1
  <2>3. ASSUME NEW k \in Asked(q) PROVE s.results[k] = "instance" <=> k \in s.built
    <3>1. q.results[k] = "instance" <=> k \in q.built  BY <1>3 DEF Tells
    <3>2. k = i => k \notin q.built  BY <1>1, <3>1
    <3> QED BY <1>5, <1>6, <2>1, <3>1, <3>2
  <2> QED BY <1>3, <1>4, <1>5, <1>7, <2>2, <2>3 DEF Tells
<1>9. PaidFor(s)
  <2> HIDE DEF s
  <2> QED BY <1>3, <1>5, <1>7, <1>8 DEF PaidFor, Asked
<1>10. s.built = {} \/ o = "instance" \/ q.in.plane = "batch"
  <2> HIDE DEF s
  <2> QED BY <1>3, <1>5
<1>11. In!Settled(q, i, o) = CASE q.in.plane = "batch" -> s
                            [] q.in.plane = "page" /\ o = "instance" -> In!At(s, "render")
                            [] q.in.plane = "mount" /\ o \in {"instance", "redirect"} -> In!Done(s, 200)
                            [] OTHER -> In!Throw(s, o)
  BY DEF In!Settled
<1> DEFINE p == In!Settled(q, i, o)
<1>12. In!Step(r, p)  BY <1>2
<1> HIDE DEF s, p
<1>13. RequestOK(p) /\ p.charged = q.charged
  <2>1. CASE q.in.plane = "batch"
    <3>1. p = s  BY <1>11, <2>1 DEF p
    <3> QED BY <1>3, <1>5, <1>8, <1>9, <2>1, <3>1 DEF RequestOK, Before
  <2>2. CASE q.in.plane = "page" /\ o = "instance"
    <3> DEFINE t == In!At(s, "render")
    <3>1. p = t  BY <1>11, <2>2 DEF p
    <3>2. SameAs(t, s) /\ t.at = "render" /\ t.error = "none" /\ t.ran = "nobody"
      BY <1>5, Ends
    <3> HIDE DEF t
    <3>3. RequestOK(t)
      BY <1>3, <1>5, <2>2, <3>2 DEF RequestOK, SameAs, PaidFor, Before
    <3> QED BY <1>5, <3>1, <3>2, <3>3 DEF SameAs
  <2>3. CASE q.in.plane = "mount" /\ o \in {"instance", "redirect"}
    <3> DEFINE t == In!Done(s, 200)
    <3>1. p = t  BY <1>11, <2>3 DEF p
    <3>2. SameAs(t, s) /\ t.at = "done" /\ t.status = 200 /\ t.told = s.in.isNew
      BY <1>5, Ends
    <3> HIDE DEF t
    <3>3. Truthful(t)
      BY <1>5, <2>3, <3>2 DEF Truthful, SameAs, In!Refuses
    <3>4. RequestOK(t)
      BY <1>3, <1>5, <1>9, <2>3, <3>2, <3>3 DEF RequestOK, SameAs, PaidFor, Before
    <3> QED BY <1>5, <3>1, <3>2, <3>4 DEF SameAs
  <2>4. CASE q.in.plane # "batch" /\ o # "instance" /\ ~(q.in.plane = "mount" /\ o = "redirect")
    <3> DEFINE t == In!Throw(s, o)
    <3>1. p = t  BY <1>11, <2>4 DEF p
    <3>2. SameAs(t, s) /\ t.at = "threw" /\ t.error = o /\ t.ran = "nobody"
      BY <1>5, Ends
    <3> HIDE DEF t
    <3>3. s.built = {}  BY <1>10, <2>4
    <3>4. RequestOK(t)
      BY <1>3, <1>5, <1>9, <2>4, <3>2, <3>3
      DEF RequestOK, SameAs, PaidFor, Before, Untouched, In!Outcomes
    <3> QED BY <1>5, <3>1, <3>2, <3>4 DEF SameAs
  <2> QED BY <1>3, <2>1, <2>2, <2>3, <2>4
<1> QED BY <1>12, <1>13, OneStep DEF q

LEMMA AnswerBatchKeeps ==
    ASSUME In!IngressConstantsOK, IngressInv, NEW r \in Requests, In!AnswerBatch(r)
    PROVE  IngressInv'
<1> DEFINE q == rq[r]
           p == In!Done(q, 200)
<1>1. RequestOK(q) /\ q.at = "mounting" /\ In!Step(r, p)  BY DEF IngressInv, In!AnswerBatch
<1> HIDE DEF q
<1>2. Answers(q, 200)  BY <1>1 DEF RequestOK, Answers
<1>3. RequestOK(p) /\ p.charged = q.charged  BY <1>1, <1>2, Answered
<1> HIDE DEF p
<1> QED BY <1>1, <1>3, OneStep DEF q

LEMMA RenderKeeps ==
    ASSUME In!IngressConstantsOK, IngressInv, NEW r \in Requests, In!Render(r)
    PROVE  IngressInv'
<1> DEFINE q == rq[r]
<1>1. /\ RequestOK(q) /\ q.at = "render"
      /\ In!Step(r, In!Done(q, 200)) \/ \E e \in In!Thrown : In!Step(r, In!Throw(q, e))
  BY DEF IngressInv, In!Render
<1>2. ASSUME NEW p, RequestOK(p), p.charged = q.charged, In!Step(r, p) PROVE IngressInv'
  BY <1>2, OneStep
<1> HIDE DEF q
<1>3. q.in.plane = "page"  BY <1>1 DEF RequestOK
<1>4. Answers(q, 200)  BY <1>3 DEF Answers
<1>5. RequestOK(In!Done(q, 200)) /\ In!Done(q, 200).charged = q.charged  BY <1>1, <1>4, Answered
<1>6. ASSUME NEW e \in In!Thrown
      PROVE  RequestOK(In!Throw(q, e)) /\ In!Throw(q, e).charged = q.charged
  <2>1. e \in {"large", "redirect", "invalid", "shed", "missing", "crash"} /\ Excused(q, e)
    BY <1>3 DEF In!Thrown, Excused, Hooked
  <2> QED BY <1>1, <1>3, <2>1, Threw
<1> QED BY <1>1, <1>2, <1>5, <1>6

LEMMA MapErrorKeeps ==
    ASSUME In!IngressConstantsOK, IngressInv, NEW r \in Requests, In!MapError(r)
    PROVE  IngressInv'
<1> DEFINE q == rq[r]
           status == In!StatusOf[q.error]
<1>1. /\ RequestOK(q) /\ q.at = "threw"
      /\ \/ In!Step(r, In!Done(q, status))
         \/ q.error \in {"missing", "crash"} /\ In!Step(r, In!Plain(q, status))
         \/ In!Step(r, In!At(q, "rejected"))
  BY DEF IngressInv, In!MapError
<1>2. ASSUME NEW p, RequestOK(p), p.charged = q.charged, In!Step(r, p) PROVE IngressInv'
  BY <1>2, OneStep
<1> HIDE DEF q
<1>3. /\ q.error \in {"large", "redirect", "invalid", "shed", "missing", "crash"}
      /\ Excused(q, q.error) \/ Untouched(q)
      /\ ~(q.in.plane = "batch" /\ q.in.body = "good")
      /\ Shaped(q)
  BY <1>1 DEF RequestOK
<1>4. /\ status # 200 /\ (q.error = "crash" => status = 500)
      /\ q.error \in In!Thrown => status \in {302, 422, 500}
  BY <1>3 DEF In!StatusOf, In!Thrown
<1> HIDE DEF status
<1>5. Answers(q, status)
  <2>1. CASE Excused(q, q.error)  BY <1>3, <1>4, <2>1 DEF Answers, Excused
  <2>2. CASE Untouched(q)  BY <1>3, <1>4, <2>2 DEF Answers
  <2> QED BY <1>3, <2>1, <2>2
<1>6. RequestOK(In!Done(q, status)) /\ In!Done(q, status).charged = q.charged  BY <1>1, <1>5, Answered
<1>7. ASSUME q.error \in {"missing", "crash"}
      PROVE  RequestOK(In!Plain(q, status)) /\ In!Plain(q, status).charged = q.charged
  <2>1. q.built = {} \/ status = 500  BY <1>3, <1>4, <1>7 DEF Untouched, Excused, In!Thrown
  <2> QED BY <1>1, <1>5, <2>1, Answered
<1>8. RequestOK(In!At(q, "rejected")) /\ In!At(q, "rejected").charged = q.charged
  <2> DEFINE p == In!At(q, "rejected")
  <2>1. SameAs(p, q) /\ p.at = "rejected"  BY <1>3, Ends
  <2> HIDE DEF p
  <2>2. RequestOK(p)  BY <1>1, <2>1 DEF RequestOK, SameAs, PaidFor, Before
  <2> QED BY <2>1, <2>2 DEF p, SameAs
<1> QED BY <1>1, <1>2, <1>6, <1>7, <1>8

LEMMA IngressKeeps ==
    ASSUME In!IngressConstantsOK, IngressInv, [In!Next]_(In!ingressVars)
    PROVE  IngressInv'
<1>1. CASE In!Evict
  <2>1. rq' = rq /\ tokens' = tokens /\ holder' = "gone"  BY <1>1 DEF In!Evict
  <2> QED BY <2>1 DEF IngressInv, In!Paid
<1>2. CASE UNCHANGED In!ingressVars
  BY <1>2 DEF In!ingressVars, IngressInv, In!Paid
<1>3. ASSUME NEW r \in Requests,
             \/ In!Arrive(r) \/ In!Origin(r) \/ In!Throttle(r) \/ In!Authenticate(r) \/ In!Dispatch(r)
             \/ In!ReadBody(r) \/ In!Reconcile(r) \/ In!AnswerBatch(r) \/ In!Render(r) \/ In!MapError(r)
      PROVE  IngressInv'
  BY <1>3, ArriveKeeps, GatesKeep, DispatchKeeps, ReadBodyKeeps, ReconcileKeeps,
     AnswerBatchKeeps, RenderKeeps, MapErrorKeeps
<1>4. ASSUME NEW r \in Requests, NEW i \in 1 .. MaxBatch, In!MountSettles(r, i)
      PROVE  IngressInv'
  <2>1. i \in Nat  BY DEF In!IngressConstantsOK
  <2> QED BY <1>4, <2>1, MountSettlesKeeps
<1> QED BY <1>1, <1>2, <1>3, <1>4 DEF In!Next

LEMMA IngressPromises == In!IngressConstantsOK /\ IngressInv => In!AnswersAreTrue
<1> SUFFICES ASSUME In!IngressConstantsOK, IngressInv PROVE In!AnswersAreTrue
  OBVIOUS
<1> DEFINE Answer(q) ==
             q.at = "done" =>
             /\ In!Refuses(q) => q.built = {} /\ q.ran = "nobody"
             /\ q.status \in {400, 413, 429} /\ q.error = "none" => q.charged = 0
             /\ q.in.plane = "batch" /\ q.status = 200 =>
                    \A i \in 1 .. q.in.size : q.results[i] = "instance" <=> i \in q.built
             /\ q.in.isNew /\ q.built # {} /\ q.status # 500 => q.told
             /\ q.in.plane = "batch" /\ q.in.body = "good" => q.status # 500
<1>1. ASSUME NEW q, RequestOK(q) PROVE Answer(q)
  BY <1>1 DEF RequestOK, Truthful, Untouched, Tells, Asked
<1>2. ASSUME NEW q, RequestOK(q), q.in.plane # "page" PROVE Cardinality(q.built) <= q.charged
  <2>1. PaidFor(q) /\ q.charged \in Nat /\ q.in.size \in Nat
    BY <1>2, InputFields DEF RequestOK
  <2>2. CASE q.built = {}  BY <2>1, <2>2, FS_EmptySet
  <2>3. CASE q.built \subseteq 1 .. q.in.size /\ q.charged = q.in.size
    <3> DEFINE n == q.in.size
    <3>0. n \in Nat  BY <2>1
    <3> HIDE DEF n
    <3>1. IsFiniteSet(1 .. n) /\ Cardinality(1 .. n) = n  BY <3>0, FS_Interval
    <3>2. q.built \in SUBSET (1 .. n)  BY <2>3 DEF n
    <3>3. Cardinality(q.built) <= n  BY <3>1, <3>2, FS_Subset
    <3> QED BY <2>3, <3>3 DEF n
  <2> QED BY <1>2, <2>1, <2>2, <2>3 DEF PaidFor
<1>3. \A r \in Requests : RequestOK(rq[r])  BY DEF IngressInv
<1>4. \A r \in Requests : Answer(rq[r])  BY <1>1, <1>3
<1>5. \A r \in Requests : rq[r].in.plane # "page" => In!Cardinality(rq[r].built) <= rq[r].charged
  BY <1>2, <1>3, SameSize
<1>6. tokens + In!Paid(rq) = Burst  BY DEF IngressInv
<1> QED BY <1>4, <1>5, <1>6, Zenon DEF In!AnswersAreTrue

(* However requests, their mounts and the eviction of what they name       *)
(* interleave, an answer says what became of its request, and all mounts   *)
(* together were paid for.                                                 *)
THEOREM InCorrect == ASSUME In!IngressConstantsOK PROVE In!Spec => []In!AnswersAreTrue
<1>1. In!Init => IngressInv  BY IngressStarts
<1>2. IngressInv /\ [In!Next]_(In!ingressVars) => IngressInv'  BY IngressKeeps
<1>3. IngressInv => In!AnswersAreTrue  BY IngressPromises
<1> QED BY <1>1, <1>2, <1>3, PTL DEF In!Spec

-----------------------------------------------------------------------------
(* Side by side, whichever of them a behaviour is of.                      *)

ServicesInv ==
    RateInv /\ IngressInv /\ EgressInv /\ RowInv /\ TopicInv /\ BootInv /\ EditInv

LEMMA ServicesStart == ServicesInit => ServicesInv
<1> SUFFICES ASSUME ServicesInit PROVE ServicesInv
  OBVIOUS
<1>1. RateInit /\ In!Init /\ Out!Init /\ Rows!Init /\ Topic!Init /\ Tree!Init /\ Edit!Init
  BY DEF ServicesInit
<1>2. RateInv  BY <1>1, RateStarts
<1>3. IngressInv  BY <1>1, IngressStarts, PipelineConstants
<1>4. EgressInv  BY <1>1, EgressStarts, StreamConstants
<1>5. RowInv  BY <1>1, RowStarts, RowConstants
<1>6. TopicInv  BY <1>1, TopicStarts, TopicConstants
<1>7. BootInv  BY <1>1, BootStarts
<1>8. EditInv  BY <1>1, EditStarts
<1> QED BY <1>2, <1>3, <1>4, <1>5, <1>6, <1>7, <1>8 DEF ServicesInv

(* A step of one service is a step of it and leaves the others alone.      *)
LEMMA ServicesKeep == ServicesInv /\ [ServicesNext]_allVars => ServicesInv'
<1> SUFFICES ASSUME ServicesInv, [ServicesNext]_allVars PROVE ServicesInv'
  OBVIOUS
<1>1. /\ [RateNext]_rateVars /\ [In!Next]_(In!ingressVars) /\ [Out!Next]_(Out!egressVars)
      /\ [Rows!Next]_(Rows!persistVars) /\ [Topic!Next]_(Topic!busVars)
      /\ [Tree!Next]_(Tree!bootVars) /\ [Edit!Next]_(Edit!reloadVars)
  BY DEF ServicesNext, allVars, ingressVars, In!ingressVars, egressVars, Out!egressVars,
         persistVars, Rows!persistVars, busVars, Topic!busVars, bootVars, Tree!bootVars,
         reloadVars, Edit!reloadVars
<1>2. RateInv'  BY <1>1, RateKeeps DEF ServicesInv
<1>3. IngressInv'  BY <1>1, IngressKeeps, PipelineConstants DEF ServicesInv
<1>4. EgressInv'  BY <1>1, EgressKeeps, StreamConstants DEF ServicesInv
<1>5. RowInv'  BY <1>1, RowKeeps, RowConstants DEF ServicesInv
<1>6. TopicInv'  BY <1>1, TopicKeeps, TopicConstants DEF ServicesInv
<1>7. BootInv'  BY <1>1, BootKeeps, TreeConstants DEF ServicesInv
<1>8. EditInv'  BY <1>1, EditKeeps DEF ServicesInv
<1> QED BY <1>2, <1>3, <1>4, <1>5, <1>6, <1>7, <1>8 DEF ServicesInv

(* However requests, their mounts and the eviction of what they name       *)
(* interleave, an answer says what became of its request, and all mounts   *)
(* together were paid for (handler.ts).                                    *)
THEOREM AnswersAreTrueAlways == ServicesSpec => []AnswersAreTrue
<1>1. ServicesInv => AnswersAreTrue  BY IngressPromises, PipelineConstants DEF ServicesInv, AnswersAreTrue
<1> QED BY <1>1, ServicesStart, ServicesKeep, PTL DEF ServicesSpec

(* Clients that are slow, are killed or leave hold no listener and no more *)
(* than the budget, for any streams (session-stream.ts, ws.ts).            *)
THEOREM StreamsCostLittleAlways == ServicesSpec => []StreamsCostLittle
<1>1. ServicesInv => StreamsCostLittle  BY EgressPromises, StreamConstants DEF ServicesInv, StreamsCostLittle
<1> QED BY <1>1, ServicesStart, ServicesKeep, PTL DEF ServicesSpec

(* The stored row is of the instance it should be of, however instances of *)
(* a key replace each other, save late and are evicted (persist).          *)
THEOREM RowFollowsAlways == ServicesSpec => []RowFollowsInstance
<1>1. ServicesInv => RowFollowsInstance  BY RowPromises, RowConstants DEF ServicesInv, RowFollowsInstance
<1> QED BY <1>1, ServicesStart, ServicesKeep, PTL DEF ServicesSpec

(* The listeners redis keeps are those in use, however subscriptions race  *)
(* with what redis answers (the redis bus).                                *)
THEOREM SubscriptionsUsedAlways == ServicesSpec => []SubscriptionsUsed
<1>1. ServicesInv => SubscriptionsUsed  BY TopicPromises DEF ServicesInv, SubscriptionsUsed
<1> QED BY <1>1, ServicesStart, ServicesKeep, PTL DEF ServicesSpec

(* Both servers serve what the files on disk say, however these are saved, *)
(* watched, built and served.                                              *)
THEOREM TablesFollowAlways == ServicesSpec => []TablesFollowDisk
<1>1. ServicesInv => TablesFollowDisk  BY BootPromises, TreeConstants DEF ServicesInv, TablesFollowDisk
<1> QED BY <1>1, ServicesStart, ServicesKeep, PTL DEF ServicesSpec

(* A module of the generated tables is one the client gets stripped, and   *)
(* the client keeps every import it still means (stripLiveModule).         *)
THEOREM ClientIsStrippedAlways == ServicesSpec => []ClientIsStripped
<1>1. ServicesInv => ClientIsStripped  BY ClientPromises, TreeConstants DEF ServicesInv, ClientIsStripped
<1> QED BY <1>1, ServicesStart, ServicesKeep, PTL DEF ServicesSpec

(* Once nothing is loading, what is registered and mounted is what is on   *)
(* disk, in whatever order saves are loaded (hot reload).                  *)
THEOREM NewestDefinitionAlways == ServicesSpec => []NewestDefinition
<1>1. ServicesInv => NewestDefinition
  BY DEF ServicesInv, EditInv, Loads, Newest, NewestDefinition, Edit!NewestDefinition
<1> QED BY <1>1, ServicesStart, ServicesKeep, PTL DEF ServicesSpec
=============================================================================
