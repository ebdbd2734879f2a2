----------------------------- MODULE Throttler -----------------------------
(***************************************************************************)
(* The rate limiter that transfers share.  A caller of limit() has its     *)
(* bytes counted under throttlerMutex_ and is told how long to sleep, by   *)
(* the average rate since the last reset or else by the token bucket.      *)
(* Time is a clock of TicksPerSec ticks, rates are bytes per second.  A    *)
(* caller asleep is woken no sooner than rate * (clock - from) has reached *)
(* the bytes it waits for, which is what sleep_for promises.               *)
(***************************************************************************)
EXTENDS Integers, FiniteSets

CONSTANTS
    Transfers,           \* callers: one thread of a transfer each
    TicksPerSec,
    AvgRates, MaxRates, BucketLimits,   \* option values; <= 0 is unlimited / unset
    Requests,            \* bytes asked for in one call of limit()
    SingleRequestLimit,  \* single_request_limit
    MaxClock, MaxProgress

ASSUME ThrottlerAssumption == /\ IsFiniteSet(Transfers)
                              /\ TicksPerSec \in Nat \ {0}
                              /\ SingleRequestLimit \in Nat \ {0}
                              /\ AvgRates \subseteq Int /\ MaxRates \subseteq Int
                              /\ BucketLimits \subseteq Int
                              /\ Requests \subseteq Nat
                              /\ MaxClock \in Nat /\ MaxProgress \in Nat

VARIABLES
    clock,
    options,        \* the rates last asked for
    avgRate, bucketRate, bucketLimit,   \* avgRatePerSec_, bucketRatePerSec_, tokenBucketLimit_
    startTime, lastFillTime, progress, tokenBucket,
    refCount,
    thread,         \* thread[t]: where caller t is in limit()
    passed,         \* bytes let through since the last reset, by their number; observes only
    debited,        \* bytes the bucket was charged since then; observes only
    rounding,       \* tokens (times TicksPerSec) given away by rounding since then; observes only
    passedBucket    \* bytes let through by the bucket since then; observes only

config == <<options, avgRate, bucketRate, bucketLimit>>
state == <<startTime, lastFillTime, progress, tokenBucket>>
observed == <<passed, debited, rounding, passedBucket>>
vars == <<clock, config, state, refCount, thread, observed>>

\* kPeakMultiplier is 1.2, kTimeMultiplier * kBucketMultiplier is 0.5.
OneFifthMore(r) == (6 * r) \div 5
Half(r) == r \div 2

NoBytes == 1..0
Off == [pc |-> "off", left |-> 0, now |-> 0]
Idle == [pc |-> "idle", left |-> 0, now |-> 0]
At(pc, left, now) == [pc |-> pc, left |-> left, now |-> now]
Asleep(left, rate, from, need, bytes, bucketBytes) ==
    [pc |-> "asleep", left |-> left, rate |-> rate, from |-> from, need |-> need,
     bytes |-> bytes, bucketBytes |-> bucketBytes]

\* configureOptions.
configurePeak(avg, peak) == IF peak < avg /\ peak >= 0 THEN OneFifthMore(avg) ELSE peak
configureLimit(peak, limit) == IF limit <= 0 /\ peak > 0 THEN Half(peak) ELSE limit

\* The constructor takes the rates as they are.
Init == /\ clock = 0
        /\ options \in [avg : AvgRates, peak : MaxRates, limit : BucketLimits]
        /\ avgRate = options.avg
        /\ bucketRate = options.peak
        /\ bucketLimit = IF options.limit > 0 THEN options.limit ELSE Half(options.peak)
        /\ startTime = 0 /\ lastFillTime = 0 /\ progress = 0 /\ tokenBucket = 0
        /\ refCount = 0
        /\ thread = [t \in Transfers |-> Off]
        /\ passed = {} /\ debited = 0 /\ rounding = 0 /\ passedBucket = {}

\* resetState; a caller asleep is one of the time before.
resetState ==
    /\ startTime' = clock /\ lastFillTime' = clock
    /\ progress' = 0 /\ tokenBucket' = 0
    /\ passed' = {} /\ debited' = 0 /\ rounding' = 0 /\ passedBucket' = {}

Forget == [t \in Transfers |-> IF thread[t].pc = "asleep"
              THEN [thread[t] EXCEPT !.bytes = NoBytes, !.bucketBytes = NoBytes]
              ELSE thread[t]]

startTransfer(t) ==
    /\ thread[t].pc = "off"
    /\ IF refCount = 0 THEN resetState ELSE UNCHANGED <<state, observed>>
    /\ refCount' = refCount + 1
    /\ thread' = [(IF refCount = 0 THEN Forget ELSE thread) EXCEPT ![t] = Idle]
    /\ UNCHANGED <<clock, config>>

endTransfer(t) ==
    /\ thread[t].pc = "idle"
    /\ refCount' = refCount - 1
    /\ thread' = [thread EXCEPT ![t] = Off]
    /\ UNCHANGED <<clock, config, state, observed>>

setThrottlerRates(avg, peak, limit) ==
    /\ options' = [avg |-> avg, peak |-> peak, limit |-> limit]
    /\ avgRate' = avg
    /\ bucketRate' = configurePeak(avg, peak)
    /\ bucketLimit' = configureLimit(configurePeak(avg, peak), limit)
    /\ resetState
    /\ thread' = Forget
    /\ UNCHANGED <<clock, refCount>>
-----------------------------------------------------------------------------
\* limit, and the loop of limitInternal: a large request is cut in pieces.
limit(t, n) ==
    /\ thread[t].pc = "idle"
    /\ thread' = [thread EXCEPT ![t] = At("loop", n, 0)]
    /\ UNCHANGED <<clock, config, state, refCount, observed>>

\* limitSingleRequest reads the clock before it takes the mutex.
readClock(t) ==
    /\ thread[t].pc = "loop"
    /\ thread' = [thread EXCEPT ![t] =
                     IF thread[t].left = 0 THEN Idle ELSE At("measured", thread[t].left, clock)]
    /\ UNCHANGED <<clock, config, state, refCount, observed>>

ToThrottle(left) == IF left < SingleRequestLimit THEN left ELSE SingleRequestLimit

\* tokenBucket_ is an integer: a fraction of a token is cut off, towards zero.
Truncate(x) == IF x >= 0 THEN x \div TicksPerSec ELSE -((-x) \div TicksPerSec)
\* Mutation of filled: the time since the start is counted again at each filling.
filledSinceStart(now) ==
    LET tokens == Truncate(tokenBucket * TicksPerSec + (now - startTime) * bucketRate)
    IN  IF tokens > bucketLimit THEN bucketLimit ELSE tokens

filled(now) ==
    LET tokens == Truncate(tokenBucket * TicksPerSec + (now - lastFillTime) * bucketRate)
    IN  IF tokens > bucketLimit THEN bucketLimit ELSE tokens

\* Mutation of AheadOfAverage: the progress before this request is compared.
WasAheadOfAverage(now) ==
    avgRate > 0 /\ (progress * TicksPerSec > avgRate * (now - startTime))

\* What rounding a negative balance towards zero adds to it.
GivenAway(now) ==
    LET exact == tokenBucket * TicksPerSec + (now - lastFillTime) * bucketRate
    IN  IF exact < 0 THEN Truncate(exact) * TicksPerSec - exact ELSE 0

\* averageThrottler: is the progress ahead of the average rate?
AheadOfAverage(now) ==
    avgRate > 0 /\ (progress' * TicksPerSec > avgRate * (now - startTime))

\* calculateSleep: count the bytes; sleep for the average rate, or else charge
\* the bucket and sleep until it is no longer in debt, or else go on.
calculateSleep(t) ==
    /\ thread[t].pc = "measured"
    /\ LET n == ToThrottle(thread[t].left)
           left == thread[t].left - n
           now == thread[t].now
           bytes == (progress + 1)..(progress + n)
           bucketBytes == (debited + 1)..(debited + n)
       IN  /\ progress + n <= MaxProgress
           /\ progress' = progress + n
           /\ IF AheadOfAverage(now)
                THEN /\ thread' = [thread EXCEPT ![t] =
                            Asleep(left, avgRate, clock - (now - startTime), progress', bytes, NoBytes)]
                     /\ UNCHANGED <<lastFillTime, tokenBucket, observed>>
                ELSE IF bucketRate > 0 /\ bucketLimit > 0
                THEN /\ lastFillTime' = now
                     /\ tokenBucket' = filled(now) - n
                     /\ debited' = debited + n
                     /\ rounding' = rounding + GivenAway(now)
                     /\ IF tokenBucket' < 0
                          THEN /\ thread' = [thread EXCEPT ![t] =
                                      Asleep(left, bucketRate, clock, -tokenBucket', bytes, bucketBytes)]
                               /\ UNCHANGED <<passed, passedBucket>>
                          ELSE /\ thread' = [thread EXCEPT ![t] = At("loop", left, 0)]
                               /\ passed' = passed \cup bytes
                               /\ passedBucket' = passedBucket \cup bucketBytes
                ELSE /\ thread' = [thread EXCEPT ![t] = At("loop", left, 0)]
                     /\ passed' = passed \cup bytes
                     /\ UNCHANGED <<lastFillTime, tokenBucket, debited, rounding, passedBucket>>
    /\ UNCHANGED <<clock, config, startTime, refCount>>

wake(t) ==
    /\ thread[t].pc = "asleep"
    /\ thread[t].rate * (clock - thread[t].from) >= thread[t].need * TicksPerSec
    /\ passed' = passed \cup thread[t].bytes
    /\ passedBucket' = passedBucket \cup thread[t].bucketBytes
    /\ thread' = [thread EXCEPT ![t] = At("loop", thread[t].left, 0)]
    /\ UNCHANGED <<clock, config, state, refCount, debited, rounding>>

Tick == /\ clock < MaxClock
        /\ clock' = clock + 1
        /\ UNCHANGED <<config, state, refCount, thread, observed>>

Next == \/ \E t \in Transfers : \/ startTransfer(t) \/ endTransfer(t)
                                \/ \E n \in Requests : limit(t, n)
                                \/ readClock(t) \/ calculateSleep(t) \/ wake(t)
        \/ \E a \in AvgRates, m \in MaxRates, l \in BucketLimits : setThrottlerRates(a, m, l)
        \/ Tick

Spec == Init /\ [][Next]_vars
-----------------------------------------------------------------------------
ThreadStates ==
    [pc : {"off", "idle", "loop", "measured"}, left : Nat, now : Nat]
    \cup [pc : {"asleep"}, left : Nat, rate : Int, from : Int, need : Int,
          bytes : SUBSET (Nat \ {0}), bucketBytes : SUBSET (Nat \ {0})]

TypeOK == /\ clock \in Nat /\ startTime \in Nat /\ lastFillTime \in Nat
          /\ options \in [avg : AvgRates, peak : MaxRates, limit : BucketLimits]
          /\ avgRate \in Int /\ bucketRate \in Int /\ bucketLimit \in Int
          /\ progress \in Nat /\ tokenBucket \in Int /\ refCount \in Nat
          /\ debited \in Nat /\ rounding \in Nat
          /\ thread \in [Transfers -> ThreadStates]
          /\ passed \subseteq Nat \ {0} /\ passedBucket \subseteq Nat \ {0}

\* The n-th byte since the last reset passes the throttler no sooner than the
\* average rate allows, whichever callers share the throttler, however their
\* reading of the clock and their sleeps interleave (calculateSleep).
AverageRateHolds ==
    avgRate > 0 => \A n \in passed : n * TicksPerSec <= avgRate * (clock - startTime)

\* The n-th byte charged to the bucket since the last reset passes no sooner
\* than tokens for it have been made, except for what rounding a negative
\* balance to an integer gives away, although callers fill the bucket with
\* readings of the clock that come in any order (calculateSleep).
PeakRateHolds ==
    bucketRate > 0 =>
      \A n \in passedBucket : n * TicksPerSec <= bucketRate * (clock - startTime) + rounding

\* An average rate with a maximum rate of 0 means a peak rate configured from
\* the average one.
PeakIsConfigured == (refCount > 0 /\ options.avg > 0 /\ options.peak = 0) => bucketRate > 0
=============================================================================
