-------------------------- MODULE ThrottlerProofs --------------------------
(***************************************************************************)
(* The average rate holds for every set of callers, all rates, sizes of    *)
(* requests and lengths of time.                                           *)
(***************************************************************************)
EXTENDS Throttler, FiniteSetTheorems, TLAPS

\* What a caller asleep will let through either waits for its own time by the
\* average rate, or its time has come already and it sleeps for the bucket.
InTime(n) == n * TicksPerSec <= avgRate * (clock - startTime)

SleepOK(t) ==
    \A n \in thread[t].bytes :
       \/ thread[t].rate = avgRate /\ thread[t].from >= startTime /\ n <= thread[t].need
       \/ InTime(n)

SleepersOK == avgRate > 0 => \A t \in Transfers : thread[t].pc = "asleep" => SleepOK(t)

ClocksOK == /\ startTime <= clock
            /\ \A t \in Transfers : thread[t].pc = "measured" => thread[t].now <= clock

Registered == {t \in Transfers : thread[t].pc # "off"}
RefCountOK == refCount = Cardinality(Registered)

IInv == TypeOK /\ RefCountOK /\ ClocksOK /\ SleepersOK /\ AverageRateHolds

LEMMA TimesMonotone ==
    ASSUME NEW r \in Nat, NEW x \in Int, NEW y \in Int, x <= y
    PROVE  r * x <= r * y
<1>1. PICK d \in Nat : y = x + d
  <2>1. y - x \in Nat /\ y = x + (y - x)  OBVIOUS
  <2> QED  BY <2>1
<1>2. r * y = r * x + r * d  BY <1>1
<1>3. r * d \in Nat  OBVIOUS
<1> QED  BY <1>2, <1>3

LEMMA TimesMonotoneLeft ==
    ASSUME NEW r \in Nat, NEW x \in Int, NEW y \in Int, x <= y
    PROVE  x * r <= y * r
<1>1. x * r = r * x /\ y * r = r * y  OBVIOUS
<1> QED  BY <1>1, TimesMonotone

LEMMA TruncateType ==
    ASSUME NEW x \in Int
    PROVE  /\ Truncate(x) \in Int
           /\ x < 0 => Truncate(x) * TicksPerSec - x \in Nat
<1> USE ThrottlerAssumption
<1>1. CASE x >= 0  BY <1>1 DEF Truncate
<1>2. CASE x < 0
  <2> DEFINE q == (-x) \div TicksPerSec
  <2>1. -x \in Nat /\ q \in Int /\ TicksPerSec * q <= -x  BY <1>2
  <2>2. Truncate(x) = -q  BY <1>2 DEF Truncate
  <2>3. TicksPerSec * q \in Int /\ (-q) * TicksPerSec = -(TicksPerSec * q)
    BY <2>1
  <2> QED  BY <2>1, <2>2, <2>3
<1> QED  BY <1>1, <1>2

LEMMA ThreadTypes ==
    ASSUME TypeOK, NEW t \in Transfers
    PROVE  /\ thread[t].pc \in {"off", "idle", "loop", "measured", "asleep"}
           /\ thread[t].left \in Nat
           /\ thread[t].pc # "asleep" =>
                thread[t] \in [pc : {"off", "idle", "loop", "measured"}, left : Nat, now : Nat]
           /\ thread[t].pc = "asleep" =>
                thread[t] \in [pc : {"asleep"}, left : Nat, rate : Int, from : Int, need : Int,
                               bytes : SUBSET (Nat \ {0}), bucketBytes : SUBSET (Nat \ {0})]
  BY DEF TypeOK, ThreadStates

LEMMA ForgetType ==
    ASSUME TypeOK
    PROVE  /\ Forget \in [Transfers -> ThreadStates]
           /\ \A t \in Transfers : Forget[t].pc = thread[t].pc
           /\ \A t \in Transfers : thread[t].pc # "asleep" => Forget[t] = thread[t]
           /\ \A t \in Transfers : thread[t].pc = "asleep" =>
                 Forget[t].bytes = {} /\ Forget[t].bucketBytes = {}
<1>1. NoBytes = {}  BY DEF NoBytes
<1>2. ASSUME NEW t \in Transfers
      PROVE  /\ Forget[t] \in ThreadStates
             /\ Forget[t].pc = thread[t].pc
             /\ thread[t].pc # "asleep" => Forget[t] = thread[t]
             /\ thread[t].pc = "asleep" => Forget[t].bytes = {} /\ Forget[t].bucketBytes = {}
  <2>1. CASE thread[t].pc # "asleep"
    BY <2>1 DEF Forget, TypeOK
  <2>2. CASE thread[t].pc = "asleep"
    <3>1. Forget[t] = [thread[t] EXCEPT !.bytes = NoBytes, !.bucketBytes = NoBytes]
      BY <2>2 DEF Forget
    <3>2. thread[t] \in [pc : {"asleep"}, left : Nat, rate : Int, from : Int, need : Int,
                         bytes : SUBSET (Nat \ {0}), bucketBytes : SUBSET (Nat \ {0})]
      BY <2>2, ThreadTypes
    <3> QED  BY <1>1, <2>2, <3>1, <3>2, Zenon DEF ThreadStates
  <2> QED  BY <2>1, <2>2
<1>3. Forget = [t \in Transfers |-> Forget[t]]  BY DEF Forget
<1> QED  BY <1>2, <1>3

LEMMA InitInv == Init => IInv
<1> SUFFICES ASSUME Init PROVE IInv  OBVIOUS
<1> USE ThrottlerAssumption
<1>1. options.avg \in Int /\ options.peak \in Int /\ options.limit \in Int
  BY Zenon DEF Init
<1>2. bucketLimit \in Int  BY <1>1 DEF Init, Half
<1>3. \A t \in Transfers : thread[t] = Off  BY DEF Init
<1>4. Off \in ThreadStates /\ Off.pc = "off"  BY DEF Off, ThreadStates
<1>5. TypeOK  BY <1>1, <1>2, <1>3, <1>4 DEF Init, TypeOK
<1>6. ClocksOK /\ SleepersOK /\ AverageRateHolds
  BY <1>3, <1>4 DEF Init, ClocksOK, SleepersOK, AverageRateHolds
<1>7. RefCountOK
  <2>1. Registered = {}  BY <1>3, <1>4 DEF Registered
  <2> QED  BY <2>1, FS_EmptySet DEF Init, RefCountOK
<1> QED  BY <1>5, <1>6, <1>7 DEF IInv

\* A reset leaves nothing passed and nobody asleep with bytes of the new time.
LEMMA ResetInv ==
    ASSUME IInv, resetState, clock' = clock, avgRate' \in Int,
           thread' \in [Transfers -> ThreadStates],
           \A t \in Transfers :
              \/ thread'[t] = Forget[t]
              \/ thread'[t].pc \in {"idle", "off"}
    PROVE  ClocksOK' /\ SleepersOK' /\ AverageRateHolds'
<1>1. TypeOK /\ ClocksOK  BY DEF IInv
<1>2. ASSUME NEW t \in Transfers
      PROVE  /\ thread'[t].pc = "measured" => thread'[t].now <= clock'
             /\ thread'[t].pc = "asleep" => thread'[t].bytes = {}
  BY <1>1, ForgetType DEF ClocksOK
<1>3. startTime' = clock /\ passed' = {}  BY DEF resetState
<1>4. ClocksOK'  BY <1>1, <1>2, <1>3 DEF ClocksOK, TypeOK
<1>5. SleepersOK'  BY <1>2 DEF SleepersOK, SleepOK
<1>6. AverageRateHolds'  BY <1>3 DEF AverageRateHolds
<1> QED  BY <1>4, <1>5, <1>6

\* A step of one caller that neither counts nor passes bytes.
LEMMA QuietInv ==
    ASSUME IInv, NEW t \in Transfers, NEW s \in ThreadStates,
           thread' = [thread EXCEPT ![t] = s],
           s.pc # "asleep", s.pc = "measured" => s.now <= clock,
           UNCHANGED <<clock, config, state, observed>>
    PROVE  /\ thread' \in [Transfers -> ThreadStates]
           /\ ClocksOK' /\ SleepersOK' /\ AverageRateHolds'
<1>1. TypeOK /\ ClocksOK /\ SleepersOK /\ AverageRateHolds  BY DEF IInv
<1>2. UNCHANGED <<clock, avgRate, startTime, passed>>  BY DEF config, state, observed
<1>3. thread' \in [Transfers -> ThreadStates]  BY <1>1 DEF TypeOK
<1>4. \A u \in Transfers : thread'[u] = IF u = t THEN s ELSE thread[u]
  BY <1>1 DEF TypeOK
<1>5. ClocksOK'  BY <1>1, <1>2, <1>4 DEF ClocksOK
<1>6. SleepersOK'
  <2> SUFFICES ASSUME avgRate > 0, NEW u \in Transfers, thread'[u].pc = "asleep"
               PROVE  SleepOK(u)'
    BY <1>2 DEF SleepersOK
  <2>1. thread'[u] = thread[u]  BY <1>4
  <2>2. SleepOK(u)  BY <1>1, <2>1 DEF SleepersOK
  <2> QED  BY <1>2, <2>1, <2>2 DEF SleepOK, InTime
<1>7. AverageRateHolds'  BY <1>1, <1>2 DEF AverageRateHolds
<1> QED  BY <1>3, <1>5, <1>6, <1>7

LEMMA RegisteredFinite == IsFiniteSet(Registered)
<1>1. Registered \subseteq Transfers  BY DEF Registered
<1> QED  BY <1>1, FS_Subset, ThrottlerAssumption

LEMMA SameRegistered ==
    ASSUME RefCountOK, refCount' = refCount,
           \A u \in Transfers : thread'[u].pc # "off" <=> thread[u].pc # "off"
    PROVE  RefCountOK'
<1>1. Registered' = Registered  BY DEF Registered
<1> QED  BY <1>1 DEF RefCountOK

LEMMA StartInv == ASSUME IInv, NEW t \in Transfers, startTransfer(t) PROVE IInv'
<1> USE ThrottlerAssumption
<1>1. TypeOK /\ RefCountOK  BY DEF IInv
<1>2. Idle \in ThreadStates /\ Idle.pc = "idle"  BY DEF Idle, ThreadStates
<1>3. refCount' = refCount + 1 /\ thread[t].pc = "off"
      /\ UNCHANGED <<clock, options, avgRate, bucketRate, bucketLimit>>
  BY DEF startTransfer, config
<1>4. /\ TypeOK' /\ ClocksOK' /\ SleepersOK' /\ AverageRateHolds'
      /\ \A u \in Transfers : thread'[u].pc = IF u = t THEN "idle" ELSE thread[u].pc
  <2>1. CASE refCount = 0
    <3>1. resetState /\ thread' = [Forget EXCEPT ![t] = Idle]
      BY <2>1 DEF startTransfer
    <3>2. thread' \in [Transfers -> ThreadStates]  BY <1>1, <1>2, <3>1, ForgetType
    <3>3. \A u \in Transfers : thread'[u] = IF u = t THEN Idle ELSE Forget[u]
      BY <1>1, <3>1, ForgetType
    <3>4. TypeOK'  BY <1>1, <1>3, <3>1, <3>2 DEF TypeOK, resetState
    <3>5. ClocksOK' /\ SleepersOK' /\ AverageRateHolds'
      BY <1>1, <1>2, <1>3, <3>1, <3>2, <3>3, ResetInv DEF TypeOK
    <3> QED  BY <1>1, <1>2, <3>3, <3>4, <3>5, ForgetType
  <2>2. CASE refCount # 0
    <3>1. thread' = [thread EXCEPT ![t] = Idle] /\ UNCHANGED <<clock, config, state, observed>>
      BY <2>2 DEF startTransfer
    <3>2. ClocksOK' /\ SleepersOK' /\ AverageRateHolds' /\ thread' \in [Transfers -> ThreadStates]
      BY <1>2, <3>1, QuietInv, Zenon
    <3>3. TypeOK'  BY <1>1, <1>3, <3>1, <3>2 DEF TypeOK, config, state, observed
    <3> QED  BY <1>1, <1>2, <3>1, <3>2, <3>3 DEF TypeOK
  <2> QED  BY <2>1, <2>2
<1>5. RefCountOK'
  <2>1. Registered' = Registered \cup {t} /\ t \notin Registered
    BY <1>3, <1>4 DEF Registered
  <2>2. Cardinality(Registered \cup {t}) = Cardinality(Registered) + 1
    BY <2>1, RegisteredFinite, FS_AddElement, Zenon
  <2> QED  BY <1>1, <1>3, <2>1, <2>2 DEF RefCountOK
<1> QED  BY <1>4, <1>5 DEF IInv

LEMMA EndInv == ASSUME IInv, NEW t \in Transfers, endTransfer(t) PROVE IInv'
<1>1. TypeOK /\ RefCountOK  BY DEF IInv
<1>2. Off \in ThreadStates /\ Off.pc = "off"  BY DEF Off, ThreadStates
<1>3. /\ refCount' = refCount - 1 /\ thread[t].pc = "idle"
      /\ thread' = [thread EXCEPT ![t] = Off]
      /\ UNCHANGED <<clock, config, state, observed>>
  BY DEF endTransfer
<1>4. ClocksOK' /\ SleepersOK' /\ AverageRateHolds' /\ thread' \in [Transfers -> ThreadStates]
  BY <1>2, <1>3, QuietInv, Zenon
<1>5. RefCountOK' /\ refCount' \in Nat
  <2>1. Registered' = Registered \ {t} /\ t \in Registered
    BY <1>1, <1>2, <1>3 DEF Registered, TypeOK
  <2>2. /\ Cardinality(Registered \ {t}) = Cardinality(Registered) - 1
        /\ IsFiniteSet(Registered \ {t})
    BY <2>1, RegisteredFinite, FS_RemoveElement
  <2>3. Cardinality(Registered \ {t}) \in Nat  BY <2>2, FS_CardinalityType
  <2> QED  BY <1>1, <1>3, <2>1, <2>2, <2>3 DEF RefCountOK
<1>6. TypeOK'  BY <1>1, <1>3, <1>4, <1>5 DEF TypeOK, config, state, observed
<1> QED  BY <1>4, <1>5, <1>6 DEF IInv

LEMMA RatesInv ==
    ASSUME IInv, NEW avg \in AvgRates, NEW peak \in MaxRates, NEW limit_ \in BucketLimits,
           setThrottlerRates(avg, peak, limit_)
    PROVE  IInv'
<1> USE ThrottlerAssumption
<1>1. TypeOK /\ RefCountOK  BY DEF IInv
<1>2. resetState /\ thread' = Forget /\ clock' = clock /\ refCount' = refCount
      /\ avgRate' = avg /\ options' = [avg |-> avg, peak |-> peak, limit |-> limit_]
  BY DEF setThrottlerRates
<1>3. bucketRate' \in Int /\ bucketLimit' \in Int
  <2>1. configurePeak(avg, peak) \in Int  BY DEF configurePeak, OneFifthMore
  <2>2. configureLimit(configurePeak(avg, peak), limit_) \in Int
    BY <2>1 DEF configureLimit, Half
  <2> QED  BY <2>1, <2>2 DEF setThrottlerRates
<1>4. thread' \in [Transfers -> ThreadStates]  BY <1>1, <1>2, ForgetType
<1>5. TypeOK'  BY <1>1, <1>2, <1>3, <1>4 DEF TypeOK, resetState
<1>6. ClocksOK' /\ SleepersOK' /\ AverageRateHolds'  BY <1>2, <1>4, ResetInv
<1>7. RefCountOK'  BY <1>1, <1>2, ForgetType, SameRegistered
<1> QED  BY <1>5, <1>6, <1>7 DEF IInv

\* limit and readClock.
LEMMA AskInv ==
    ASSUME IInv, NEW t \in Transfers,
           (\E n \in Requests : limit(t, n)) \/ readClock(t)
    PROVE  IInv'
<1> USE ThrottlerAssumption
<1>1. TypeOK /\ RefCountOK /\ ClocksOK  BY DEF IInv
<1>2. thread[t].left \in Nat /\ thread[t].pc \in {"idle", "loop"}
  BY <1>1, ThreadTypes DEF limit, readClock
<1>3. PICK s \in ThreadStates :
         /\ thread' = [thread EXCEPT ![t] = s]
         /\ s.pc \in {"idle", "loop", "measured"}
         /\ s.pc = "measured" => s.now <= clock
  <2>1. CASE \E n \in Requests : limit(t, n)
    <3>1. PICK n \in Requests : limit(t, n)  BY <2>1
    <3>2. At("loop", n, 0) \in ThreadStates /\ At("loop", n, 0).pc = "loop"
      BY DEF At, ThreadStates
    <3> QED  BY <3>1, <3>2, Zenon DEF limit
  <2>2. CASE readClock(t) /\ thread[t].left = 0
    <3>1. Idle \in ThreadStates /\ Idle.pc = "idle"  BY DEF Idle, ThreadStates
    <3> QED  BY <2>2, <3>1, Zenon DEF readClock
  <2>3. CASE readClock(t) /\ thread[t].left # 0
    <3> DEFINE m == At("measured", thread[t].left, clock)
    <3>1. m \in ThreadStates /\ m.pc = "measured" /\ m.now <= clock
      BY <1>1, <1>2 DEF At, ThreadStates, TypeOK
    <3>2. thread' = [thread EXCEPT ![t] = m]  BY <2>3 DEF readClock
    <3> HIDE DEF m
    <3> m \in ThreadStates  BY <3>1
    <3> WITNESS m \in ThreadStates
    <3> QED  BY <3>1, <3>2
  <2> QED  BY <2>1, <2>2, <2>3
<1>4. UNCHANGED <<clock, config, state, refCount, observed>>  BY DEF limit, readClock
<1>5. ClocksOK' /\ SleepersOK' /\ AverageRateHolds' /\ thread' \in [Transfers -> ThreadStates]
  BY <1>3, <1>4, QuietInv, Zenon
<1>6. TypeOK'  BY <1>1, <1>4, <1>5 DEF TypeOK, config, state, observed
<1>7. RefCountOK'
  <2>1. \A u \in Transfers : thread'[u].pc # "off" <=> thread[u].pc # "off"
    BY <1>1, <1>2, <1>3 DEF TypeOK
  <2> QED  BY <1>1, <1>4, <2>1, SameRegistered
<1> QED  BY <1>5, <1>6, <1>7 DEF IInv

\* A byte that is in time stays in time.
LEMMA StaysInTime ==
    ASSUME NEW c \in Int, NEW d \in Int, c <= d, NEW n \in Int, NEW s \in Int, NEW r \in Nat,
           n * TicksPerSec <= r * (c - s)
    PROVE  n * TicksPerSec <= r * (d - s)
<1>1. r * (c - s) <= r * (d - s)  BY TimesMonotone
<1>2. r * (c - s) \in Int /\ r * (d - s) \in Int /\ n * TicksPerSec \in Int
  BY ThrottlerAssumption
<1> QED  BY <1>1, <1>2

\* A caller that sleeps by the average rate wakes when its bytes are in time.
LEMMA AwakeInTime ==
    ASSUME NEW n \in Int, NEW need \in Int, n <= need, NEW r \in Nat,
           NEW from \in Int, NEW s \in Int, from >= s, NEW c \in Int,
           r * (c - from) >= need * TicksPerSec
    PROVE  n * TicksPerSec <= r * (c - s)
<1>1. n * TicksPerSec <= need * TicksPerSec  BY TimesMonotoneLeft, ThrottlerAssumption
<1>2. r * (c - from) <= r * (c - s)  BY TimesMonotone
<1>3. /\ n * TicksPerSec \in Int /\ need * TicksPerSec \in Int
      /\ r * (c - from) \in Int /\ r * (c - s) \in Int
  BY ThrottlerAssumption
<1> QED  BY <1>1, <1>2, <1>3

LEMMA TickInv == ASSUME IInv, Tick PROVE IInv'
<1> USE ThrottlerAssumption
<1>1. TypeOK /\ RefCountOK /\ ClocksOK /\ SleepersOK /\ AverageRateHolds  BY DEF IInv
<1>2. /\ clock' = clock + 1
      /\ UNCHANGED <<config, state, refCount, thread, observed>>
  BY DEF Tick
<1>3. TypeOK'  BY <1>1, <1>2 DEF TypeOK, config, state, observed
<1>4. RefCountOK'  BY <1>1, <1>2 DEF RefCountOK, Registered
<1>5. ClocksOK'
  <2>1. startTime' <= clock'  BY <1>1, <1>2 DEF ClocksOK, TypeOK, state
  <2>2. ASSUME NEW u \in Transfers, thread[u].pc = "measured" PROVE thread[u].now <= clock'
    <3>1. thread[u].now \in Nat  BY <1>1, <2>2, ThreadTypes
    <3> QED  BY <1>1, <1>2, <2>2, <3>1 DEF ClocksOK, TypeOK
  <2> QED  BY <1>2, <2>1, <2>2 DEF ClocksOK
<1>6. ASSUME avgRate > 0, NEW n \in Int, InTime(n) PROVE InTime(n)'
  <2>1. avgRate \in Nat /\ clock \in Int /\ clock' \in Int /\ clock <= clock' /\ startTime \in Int
    BY <1>1, <1>2, <1>6 DEF TypeOK
  <2>2. avgRate' = avgRate /\ startTime' = startTime  BY <1>2 DEF config, state
  <2>3. n * TicksPerSec <= avgRate * (clock' - startTime)
    BY <1>6, <2>1, StaysInTime, Zenon DEF InTime
  <2> QED  BY <2>2, <2>3 DEF InTime
<1>7. SleepersOK'
  <2> SUFFICES ASSUME avgRate > 0, NEW u \in Transfers, thread[u].pc = "asleep",
                      NEW n \in thread[u].bytes
               PROVE  \/ thread[u].rate = avgRate /\ thread[u].from >= startTime
                         /\ n <= thread[u].need
                      \/ InTime(n)'
    BY <1>2 DEF SleepersOK, SleepOK, config, state
  <2>1. n \in Int  BY <1>1, ThreadTypes
  <2> QED  BY <1>1, <1>6, <2>1 DEF SleepersOK, SleepOK
<1>8. AverageRateHolds'
  <2> SUFFICES ASSUME avgRate > 0, NEW n \in passed PROVE InTime(n)'
    BY <1>2 DEF AverageRateHolds, InTime, config, state, observed
  <2>1. n \in Int /\ InTime(n)  BY <1>1 DEF TypeOK, AverageRateHolds, InTime
  <2> QED  BY <1>6, <2>1
<1> QED  BY <1>3, <1>4, <1>5, <1>7, <1>8 DEF IInv

LEMMA WakeInv == ASSUME IInv, NEW t \in Transfers, wake(t) PROVE IInv'
<1> USE ThrottlerAssumption
<1>1. TypeOK /\ RefCountOK /\ ClocksOK /\ SleepersOK /\ AverageRateHolds  BY DEF IInv
<1>2. thread[t].pc = "asleep" /\ thread[t] \in
        [pc : {"asleep"}, left : Nat, rate : Int, from : Int, need : Int,
         bytes : SUBSET (Nat \ {0}), bucketBytes : SUBSET (Nat \ {0})]
  BY <1>1, ThreadTypes DEF wake
<1> DEFINE s == At("loop", thread[t].left, 0)
<1>3. s \in ThreadStates /\ s.pc = "loop"  BY <1>2 DEF At, ThreadStates
<1>4. /\ thread' = [thread EXCEPT ![t] = s]
      /\ passed' = passed \cup thread[t].bytes
      /\ passedBucket' = passedBucket \cup thread[t].bucketBytes
      /\ thread[t].rate * (clock - thread[t].from) >= thread[t].need * TicksPerSec
      /\ UNCHANGED <<clock, config, state, refCount, debited, rounding>>
  BY DEF wake
<1> HIDE DEF s
<1>5. UNCHANGED <<clock, startTime, avgRate>>  BY <1>4 DEF config, state
<1>6. \A u \in Transfers : thread'[u] = IF u = t THEN s ELSE thread[u]
  BY <1>1, <1>4 DEF TypeOK
<1>7. TypeOK'  BY <1>1, <1>2, <1>3, <1>4, Zenon DEF TypeOK, config, state
<1>8. RefCountOK'  BY <1>1, <1>2, <1>3, <1>4, <1>6, SameRegistered
<1>9. ClocksOK'  BY <1>1, <1>3, <1>5, <1>6 DEF ClocksOK
<1>10. SleepersOK'
  <2> SUFFICES ASSUME avgRate > 0, NEW u \in Transfers, thread'[u].pc = "asleep"
               PROVE  SleepOK(u)'
    BY <1>5 DEF SleepersOK
  <2>1. thread'[u] = thread[u]  BY <1>3, <1>6
  <2>2. SleepOK(u)  BY <1>1, <2>1 DEF SleepersOK
  <2> QED  BY <1>5, <2>1, <2>2 DEF SleepOK, InTime
<1>11. AverageRateHolds'
  <2> SUFFICES ASSUME avgRate > 0, NEW n \in passed' PROVE InTime(n)
    BY <1>5 DEF AverageRateHolds, InTime
  <2>1. CASE n \in passed  BY <1>1, <2>1 DEF AverageRateHolds, InTime
  <2>2. CASE n \in thread[t].bytes
    <3>1. SleepOK(t)  BY <1>1, <1>2 DEF SleepersOK
    <3>2. CASE thread[t].rate = avgRate /\ thread[t].from >= startTime /\ n <= thread[t].need
      <4>1. /\ n \in Int /\ thread[t].need \in Int /\ avgRate \in Nat
            /\ thread[t].from \in Int /\ startTime \in Int /\ clock \in Int
        BY <1>1, <1>2, <2>2 DEF TypeOK
      <4> DEFINE from == thread[t].from
                 need == thread[t].need
      <4>2. /\ avgRate * (clock - from) >= need * TicksPerSec
            /\ from \in Int /\ need \in Int /\ from >= startTime /\ n <= need
        BY <1>4, <3>2, <4>1
      <4> HIDE DEF from, need
      <4>3. n * TicksPerSec <= avgRate * (clock - startTime)
        BY <4>1, <4>2, AwakeInTime
      <4> QED  BY <4>3 DEF InTime
    <3> QED  BY <2>2, <3>1, <3>2 DEF SleepOK
  <2> QED  BY <1>4, <2>1, <2>2
<1> QED  BY <1>7, <1>8, <1>9, <1>10, <1>11 DEF IInv

\* calculateSleep with its local values, and its three ways out.
SleepsAs(t, n, left, now, bytes, bucketBytes) ==
    /\ n = ToThrottle(thread[t].left) /\ left = thread[t].left - n /\ now = thread[t].now
    /\ bytes = (progress + 1)..(progress + n) /\ bucketBytes = (debited + 1)..(debited + n)
    /\ thread[t].pc = "measured" /\ progress' = progress + n
    /\ UNCHANGED <<clock, config, startTime, refCount>>
    /\ AheadOfAverage(now) =>
          /\ thread' = [thread EXCEPT ![t] =
                Asleep(left, avgRate, clock - (now - startTime), progress', bytes, NoBytes)]
          /\ UNCHANGED <<lastFillTime, tokenBucket, observed>>
    /\ ~AheadOfAverage(now) /\ bucketRate > 0 /\ bucketLimit > 0 =>
          /\ lastFillTime' = now /\ tokenBucket' = filled(now) - n
          /\ debited' = debited + n /\ rounding' = rounding + GivenAway(now)
          /\ tokenBucket' < 0 =>
                /\ thread' = [thread EXCEPT ![t] =
                      Asleep(left, bucketRate, clock, -tokenBucket', bytes, bucketBytes)]
                /\ UNCHANGED <<passed, passedBucket>>
          /\ ~(tokenBucket' < 0) =>
                /\ thread' = [thread EXCEPT ![t] = At("loop", left, 0)]
                /\ passed' = passed \cup bytes
                /\ passedBucket' = passedBucket \cup bucketBytes
    /\ ~AheadOfAverage(now) /\ ~(bucketRate > 0 /\ bucketLimit > 0) =>
          /\ thread' = [thread EXCEPT ![t] = At("loop", left, 0)]
          /\ passed' = passed \cup bytes
          /\ UNCHANGED <<lastFillTime, tokenBucket, debited, rounding, passedBucket>>

LEMMA SleepCases ==
    ASSUME NEW t \in Transfers, calculateSleep(t)
    PROVE  \E n, left, now, bytes, bucketBytes : SleepsAs(t, n, left, now, bytes, bucketBytes)
<1> DEFINE n == ToThrottle(thread[t].left)
           left == thread[t].left - n
           now == thread[t].now
           bytes == (progress + 1)..(progress + n)
           bucketBytes == (debited + 1)..(debited + n)
<1>1. SleepsAs(t, n, left, now, bytes, bucketBytes)
  BY Zenon DEF SleepsAs, calculateSleep
<1> HIDE DEF n, left, now, bytes, bucketBytes
<1> QED  BY <1>1

\* What calculateSleep leaves alone, and the types of what it computes with.
LEMMA SleepTypes ==
    ASSUME TypeOK, ClocksOK, NEW t \in Transfers, NEW n, NEW left, NEW now, NEW bytes,
           NEW bucketBytes, SleepsAs(t, n, left, now, bytes, bucketBytes)
    PROVE  /\ thread[t].pc = "measured" /\ now \in Nat /\ now <= clock /\ n \in Nat /\ left \in Nat
           /\ progress' = progress + n /\ progress' \in Nat
           /\ filled(now) \in Int /\ GivenAway(now) \in Nat
           /\ bytes \in SUBSET (Nat \ {0})
           /\ bucketBytes \in SUBSET (Nat \ {0})
           /\ \A k \in bytes : k \in Int /\ k <= progress'
           /\ UNCHANGED <<clock, options, avgRate, bucketRate, bucketLimit, startTime, refCount>>
<1>1. /\ thread[t].pc = "measured" /\ progress' = progress + n
      /\ UNCHANGED <<clock, options, avgRate, bucketRate, bucketLimit, startTime, refCount>>
  BY Zenon DEF SleepsAs, config
<1>a. /\ n = ToThrottle(thread[t].left) /\ left = thread[t].left - n /\ now = thread[t].now
      /\ bytes = (progress + 1)..(progress + n) /\ bucketBytes = (debited + 1)..(debited + n)
  BY Zenon DEF SleepsAs
<1>2. now \in Nat /\ now <= clock /\ thread[t].left \in Nat
  BY <1>1, <1>a, ThreadTypes DEF ClocksOK
<1>3. n \in Nat /\ left \in Nat  BY <1>2, <1>a, ThrottlerAssumption DEF ToThrottle
<1>4. progress \in Nat /\ debited \in Nat  BY DEF TypeOK
<1>5. /\ bytes \in SUBSET (Nat \ {0})
      /\ bucketBytes \in SUBSET (Nat \ {0})
      /\ \A k \in bytes : k \in Int /\ k <= progress'
      /\ progress' \in Nat
  BY <1>1, <1>3, <1>4, <1>a
<1>6. filled(now) \in Int /\ GivenAway(now) \in Nat
  <2> DEFINE exact == tokenBucket * TicksPerSec + (now - lastFillTime) * bucketRate
  <2>1. exact \in Int /\ bucketLimit \in Int  BY <1>2, ThrottlerAssumption DEF TypeOK
  <2>2. filled(now) = IF Truncate(exact) > bucketLimit THEN bucketLimit ELSE Truncate(exact)
    BY DEF filled
  <2>3. GivenAway(now) = IF exact < 0 THEN Truncate(exact) * TicksPerSec - exact ELSE 0
    BY DEF GivenAway
  <2> HIDE DEF exact
  <2>4. Truncate(exact) \in Int /\ (exact < 0 => Truncate(exact) * TicksPerSec - exact \in Nat)
    BY <2>1, TruncateType
  <2> QED  BY <2>1, <2>2, <2>3, <2>4
<1> QED  BY <1>1, <1>2, <1>3, <1>5, <1>6

\* Bytes that are not ahead of the average rate are in time.
LEMMA NotAheadInTime ==
    ASSUME TypeOK, ClocksOK, NEW now \in Nat, now <= clock, ~AheadOfAverage(now), avgRate > 0,
           progress' \in Nat, NEW k \in Int, k <= progress'
    PROVE  InTime(k)
<1>1. clock \in Int /\ startTime \in Int /\ avgRate \in Nat /\ now \in Int /\ TicksPerSec \in Nat
  BY ThrottlerAssumption DEF TypeOK
<1>2. progress' * TicksPerSec <= avgRate * (now - startTime)
  <2>1. progress' * TicksPerSec \in Int /\ avgRate * (now - startTime) \in Int  BY <1>1
  <2> QED  BY <2>1 DEF AheadOfAverage
<1>3. k * TicksPerSec <= progress' * TicksPerSec
  <2>1. progress' \in Int  OBVIOUS
  <2> QED  BY <1>1, <2>1, TimesMonotoneLeft, Zenon
<1>4. /\ k * TicksPerSec \in Int /\ progress' * TicksPerSec \in Int
      /\ avgRate * (now - startTime) \in Int
  BY <1>1
<1>5. k * TicksPerSec <= avgRate * (now - startTime)  BY <1>2, <1>3, <1>4
<1>6. k * TicksPerSec <= avgRate * (clock - startTime)  BY <1>1, <1>5, StaysInTime
<1> QED  BY <1>6 DEF InTime

\* The step of a caller to the state s, with these bytes counted.
LEMMA CountedInv ==
    ASSUME IInv, NEW t \in Transfers, thread[t].pc = "measured",
           UNCHANGED <<clock, avgRate, startTime, refCount>>,
           NEW s \in ThreadStates, thread' = [thread EXCEPT ![t] = s], s.pc \in {"loop", "asleep"},
           avgRate > 0 /\ s.pc = "asleep" =>
              \A k \in s.bytes : \/ s.rate = avgRate /\ s.from >= startTime /\ k <= s.need
                                 \/ InTime(k),
           avgRate > 0 => \A k \in passed' \ passed : InTime(k)
    PROVE  /\ thread' \in [Transfers -> ThreadStates]
           /\ RefCountOK' /\ ClocksOK' /\ SleepersOK' /\ AverageRateHolds'
<1>0. TypeOK /\ RefCountOK /\ ClocksOK /\ SleepersOK /\ AverageRateHolds  BY DEF IInv
<1>1. thread' \in [Transfers -> ThreadStates]  BY <1>0 DEF TypeOK
<1>2. \A u \in Transfers : thread'[u] = IF u = t THEN s ELSE thread[u]
  BY <1>0 DEF TypeOK
<1>3. RefCountOK'
  <2>1. \A u \in Transfers : thread'[u].pc # "off" <=> thread[u].pc # "off"  BY <1>2
  <2> QED  BY <1>0, <2>1, SameRegistered
<1>4. ClocksOK'  BY <1>0, <1>2 DEF ClocksOK
<1>5. SleepersOK'
  <2> SUFFICES ASSUME avgRate > 0, NEW u \in Transfers, thread'[u].pc = "asleep"
               PROVE  SleepOK(u)'
    BY DEF SleepersOK
  <2>i. \A k : InTime(k)' <=> InTime(k)  BY DEF InTime
  <2>1. CASE u = t
    <3>1. thread'[u] = s  BY <1>2, <2>1
    <3> QED  BY <2>i, <3>1 DEF SleepOK
  <2>2. CASE u # t
    <3>1. thread'[u] = thread[u]  BY <1>2, <2>2
    <3>2. SleepOK(u)  BY <1>0, <3>1 DEF SleepersOK
    <3> QED  BY <3>1, <3>2 DEF SleepOK, InTime
  <2> QED  BY <2>1, <2>2
<1>6. AverageRateHolds'
  <2> SUFFICES ASSUME avgRate > 0, NEW k \in passed' PROVE InTime(k)
    BY DEF AverageRateHolds, InTime
  <2>1. CASE k \in passed  BY <1>0, <2>1 DEF AverageRateHolds, InTime
  <2> QED  BY <2>1
<1> QED  BY <1>1, <1>3, <1>4, <1>5, <1>6

LEMMA SleepInv == ASSUME IInv, NEW t \in Transfers, calculateSleep(t) PROVE IInv'
<1>1. TypeOK /\ ClocksOK  BY DEF IInv
<1>2. PICK n, left, now, bytes, bucketBytes : SleepsAs(t, n, left, now, bytes, bucketBytes)
  BY SleepCases
<1>3. /\ thread[t].pc = "measured" /\ now \in Nat /\ now <= clock /\ n \in Nat /\ left \in Nat
      /\ progress' \in Nat /\ filled(now) \in Int /\ GivenAway(now) \in Nat
      /\ bytes \in SUBSET (Nat \ {0}) /\ bucketBytes \in SUBSET (Nat \ {0})
      /\ \A k \in bytes : k \in Int /\ k <= progress'
      /\ UNCHANGED <<clock, options, avgRate, bucketRate, bucketLimit, startTime, refCount>>
  BY <1>1, <1>2, SleepTypes
<1>4. /\ clock \in Nat /\ startTime \in Nat /\ startTime <= clock /\ avgRate \in Int
      /\ bucketRate \in Int /\ debited \in Nat /\ rounding \in Nat /\ NoBytes = {}
  BY <1>1 DEF TypeOK, ClocksOK, NoBytes
<1>5. ~AheadOfAverage(now) /\ avgRate > 0 => \A k \in bytes : InTime(k)
  BY <1>1, <1>3, NotAheadInTime, Zenon
<1>6. PICK loop : loop = At("loop", left, 0)  OBVIOUS
<1>7. loop \in ThreadStates /\ loop.pc = "loop"  BY <1>3, <1>6 DEF At, ThreadStates
<1>8. CASE AheadOfAverage(now)
  <2>1. PICK s : s = Asleep(left, avgRate, clock - (now - startTime), progress', bytes, NoBytes)
    OBVIOUS
  <2>2. /\ thread' = [thread EXCEPT ![t] = s]
        /\ UNCHANGED <<lastFillTime, tokenBucket, passed, debited, rounding, passedBucket>>
    BY <1>2, <1>8, <2>1, Zenon DEF SleepsAs, observed
  <2>3. /\ clock - (now - startTime) \in Int /\ clock - (now - startTime) >= startTime
        /\ NoBytes \in SUBSET (Nat \ {0}) /\ progress' \in Int
    BY <1>3, <1>4
  <2>4. /\ s \in ThreadStates /\ s.pc = "asleep" /\ s.bytes = bytes /\ s.rate = avgRate
        /\ s.from = clock - (now - startTime) /\ s.need = progress'
    BY <1>3, <1>4, <2>1, <2>3 DEF Asleep, ThreadStates
  <2>5. \A k \in s.bytes : s.rate = avgRate /\ s.from >= startTime /\ k <= s.need
    BY <1>3, <2>3, <2>4, Zenon
  <2>6. /\ thread' \in [Transfers -> ThreadStates]
        /\ RefCountOK' /\ ClocksOK' /\ SleepersOK' /\ AverageRateHolds'
    BY <1>3, <2>2, <2>4, <2>5, CountedInv, Zenon
  <2>7. TypeOK'  BY <1>1, <1>3, <2>2, <2>6 DEF TypeOK
  <2> QED  BY <2>6, <2>7 DEF IInv
<1>9. CASE ~AheadOfAverage(now) /\ bucketRate > 0 /\ bucketLimit > 0
  <2>1. /\ lastFillTime' = now /\ tokenBucket' = filled(now) - n
        /\ debited' = debited + n /\ rounding' = rounding + GivenAway(now)
    BY <1>2, <1>9, Zenon DEF SleepsAs
  <2>2. /\ lastFillTime' \in Nat /\ tokenBucket' \in Int /\ debited' \in Nat /\ rounding' \in Nat
        /\ -tokenBucket' \in Int
    BY <1>3, <1>4, <2>1
  <2>3. CASE tokenBucket' < 0
    <3>n. PICK need \in Int : need = -tokenBucket'  BY <2>2, Zenon
    <3>1. PICK s : s = Asleep(left, bucketRate, clock, need, bytes, bucketBytes)
      OBVIOUS
    <3>2. thread' = [thread EXCEPT ![t] = s] /\ UNCHANGED <<passed, passedBucket>>
      BY <1>2, <1>9, <2>3, <3>n, <3>1, Zenon DEF SleepsAs
    <3>3. clock \in Int  BY <1>4
    <3>4. s \in ThreadStates /\ s.pc = "asleep" /\ s.bytes = bytes
      <4>1. left \in Nat /\ bucketRate \in Int /\ bytes \in SUBSET (Nat \ {0})
            /\ bucketBytes \in SUBSET (Nat \ {0})
        BY <1>3, <1>4
      <4> QED  BY <3>1, <3>3, <4>1 DEF Asleep, ThreadStates
    <3>5. /\ thread' \in [Transfers -> ThreadStates]
          /\ RefCountOK' /\ ClocksOK' /\ SleepersOK' /\ AverageRateHolds'
      BY <1>3, <1>5, <1>9, <3>2, <3>4, CountedInv, Zenon
    <3>6. TypeOK'  BY <1>1, <1>3, <2>2, <3>2, <3>5 DEF TypeOK
    <3> QED  BY <3>5, <3>6 DEF IInv
  <2>4. CASE ~(tokenBucket' < 0)
    <3>1. /\ thread' = [thread EXCEPT ![t] = loop]
          /\ passed' = passed \cup bytes /\ passedBucket' = passedBucket \cup bucketBytes
      BY <1>2, <1>6, <1>9, <2>4, Zenon DEF SleepsAs
    <3>2. passed' \subseteq Nat \ {0} /\ passedBucket' \subseteq Nat \ {0}
      BY <1>1, <1>3, <3>1 DEF TypeOK
    <3>3. avgRate > 0 => \A k \in passed' \ passed : InTime(k)  BY <1>5, <1>9, <3>1
    <3>4. /\ thread' \in [Transfers -> ThreadStates]
          /\ RefCountOK' /\ ClocksOK' /\ SleepersOK' /\ AverageRateHolds'
      BY <1>3, <1>7, <3>1, <3>3, CountedInv, Zenon
    <3>5. TypeOK'  BY <1>1, <1>3, <2>2, <3>2, <3>4 DEF TypeOK
    <3> QED  BY <3>4, <3>5 DEF IInv
  <2> QED  BY <2>3, <2>4
<1>10. CASE ~AheadOfAverage(now) /\ ~(bucketRate > 0 /\ bucketLimit > 0)
  <2>1. /\ thread' = [thread EXCEPT ![t] = loop] /\ passed' = passed \cup bytes
        /\ UNCHANGED <<lastFillTime, tokenBucket, debited, rounding, passedBucket>>
    BY <1>2, <1>6, <1>10, Zenon DEF SleepsAs
  <2>2. passed' \subseteq Nat \ {0}  BY <1>1, <1>3, <2>1 DEF TypeOK
  <2>3. avgRate > 0 => \A k \in passed' \ passed : InTime(k)  BY <1>5, <1>10, <2>1
  <2>4. /\ thread' \in [Transfers -> ThreadStates]
        /\ RefCountOK' /\ ClocksOK' /\ SleepersOK' /\ AverageRateHolds'
    BY <1>3, <1>7, <2>1, <2>3, CountedInv, Zenon
  <2>5. TypeOK'  BY <1>1, <1>3, <2>1, <2>2, <2>4 DEF TypeOK
  <2> QED  BY <2>4, <2>5 DEF IInv
<1> QED  BY <1>8, <1>9, <1>10

LEMMA StutterInv == ASSUME IInv, UNCHANGED vars PROVE IInv'
<1>1. UNCHANGED <<clock, options, avgRate, bucketRate, bucketLimit, startTime, lastFillTime,
                  progress, tokenBucket, refCount, thread, passed, debited, rounding, passedBucket>>
  BY DEF vars, config, state, observed
<1>2. TypeOK' /\ RefCountOK' /\ ClocksOK'
  BY <1>1 DEF IInv, TypeOK, RefCountOK, Registered, ClocksOK
<1>3. SleepersOK' /\ AverageRateHolds'
  BY <1>1 DEF IInv, SleepersOK, SleepOK, InTime, AverageRateHolds
<1> QED  BY <1>2, <1>3 DEF IInv

LEMMA NextInv == IInv /\ [Next]_vars => IInv'
<1> SUFFICES ASSUME IInv, [Next]_vars PROVE IInv'  OBVIOUS
<1>1. CASE UNCHANGED vars  BY <1>1, StutterInv
<1>2. CASE Tick  BY <1>2, TickInv
<1>3. ASSUME NEW a \in AvgRates, NEW m \in MaxRates, NEW l \in BucketLimits,
             setThrottlerRates(a, m, l)
      PROVE  IInv'
  BY <1>3, RatesInv
<1>4. ASSUME NEW t \in Transfers,
             \/ startTransfer(t) \/ endTransfer(t) \/ \E n \in Requests : limit(t, n)
             \/ readClock(t) \/ calculateSleep(t) \/ wake(t)
      PROVE  IInv'
  BY <1>4, StartInv, EndInv, AskInv, SleepInv, WakeInv
<1> QED  BY <1>1, <1>2, <1>3, <1>4 DEF Next

\* The throttler lets no byte through before the average rate allows it, for
\* every number of callers, all rates and all sizes of requests, although the
\* clock is read before the mutex is taken and the sleep is outside of it.
THEOREM AverageRateAlways == Spec => []AverageRateHolds
<1>1. IInv => AverageRateHolds  BY DEF IInv
<1> QED  BY <1>1, InitInv, NextInv, PTL DEF Spec

\* Type correctness; in particular refCount_ never falls below zero.
THEOREM TypeCorrect == Spec => []TypeOK
<1>1. IInv => TypeOK  BY DEF IInv
<1> QED  BY <1>1, InitInv, NextInv, PTL DEF Spec
----------------------------------------------------------------------------
(***************************************************************************)
(* The peak rate.  What is in the bucket and what it was charged have been *)
(* made since the last reset, up to the last filling; a caller that sleeps *)
(* for the bucket sleeps at least for the debt it left.  No order of the   *)
(* readings of the clock is assumed: a filling may go back in time.        *)
(***************************************************************************)
T == TicksPerSec

BucketOK ==
    bucketRate > 0 =>
       (tokenBucket + debited) * T <= bucketRate * (lastFillTime - startTime) + rounding

InPeak(n) == n * T <= bucketRate * (clock - startTime) + rounding

PeakSleepOK(t) ==
    \A n \in thread[t].bucketBytes :
       /\ thread[t].rate = bucketRate
       /\ n * T <= bucketRate * (thread[t].from - startTime) + rounding + thread[t].need * T

PeakSleepersOK == bucketRate > 0 => \A t \in Transfers : thread[t].pc = "asleep" => PeakSleepOK(t)

Peak == BucketOK /\ PeakSleepersOK /\ PeakRateHolds

LEMMA TruncateBound ==
    ASSUME NEW x \in Int
    PROVE  x >= 0 => Truncate(x) * T <= x
<1> USE ThrottlerAssumption DEF T
<1> SUFFICES ASSUME x >= 0 PROVE Truncate(x) * T <= x  OBVIOUS
<1>1. x \div TicksPerSec \in Int /\ TicksPerSec * (x \div TicksPerSec) <= x  OBVIOUS
<1>2. Truncate(x) = x \div TicksPerSec  BY DEF Truncate
<1> QED  BY <1>1, <1>2

\* Filling the bucket keeps its bound, whatever reading of the clock it uses.
LEMMA FillBound ==
    ASSUME TypeOK, BucketOK, bucketRate > 0, NEW now \in Nat
    PROVE  (filled(now) + debited) * T <=
              bucketRate * (now - startTime) + rounding + GivenAway(now)
<1> DEFINE exact == tokenBucket * T + (now - lastFillTime) * bucketRate
<1>1. /\ T \in Nat \ {0} /\ tokenBucket \in Int /\ lastFillTime \in Int /\ bucketRate \in Int
      /\ startTime \in Int /\ debited \in Int /\ rounding \in Int /\ bucketLimit \in Int
  BY ThrottlerAssumption DEF TypeOK, T
<1>2. exact \in Int  BY <1>1
<1>3. filled(now) = IF Truncate(exact) > bucketLimit THEN bucketLimit ELSE Truncate(exact)
  BY DEF filled, T
<1>4. GivenAway(now) = IF exact < 0 THEN Truncate(exact) * T - exact ELSE 0
  BY DEF GivenAway, T
<1>5. exact + debited * T <= bucketRate * (now - startTime) + rounding
  <2>1. (tokenBucket + debited) * T = tokenBucket * T + debited * T  BY <1>1
  <2>2. bucketRate * (now - startTime) =
           bucketRate * (lastFillTime - startTime) + (now - lastFillTime) * bucketRate
    BY <1>1
  <2>3. (tokenBucket + debited) * T <= bucketRate * (lastFillTime - startTime) + rounding
    BY DEF BucketOK
  <2>4. /\ tokenBucket * T \in Int /\ debited * T \in Int
        /\ bucketRate * (lastFillTime - startTime) \in Int
        /\ (now - lastFillTime) * bucketRate \in Int
    BY <1>1
  <2> QED  BY <1>1, <2>1, <2>2, <2>3, <2>4
<1> HIDE DEF exact
<1>6. Truncate(exact) \in Int /\ Truncate(exact) * T \in Int /\ GivenAway(now) \in Int
  <2>1. Truncate(exact) \in Int  BY <1>2, TruncateType
  <2> QED  BY <1>1, <1>2, <1>4, <2>1
<1>7. Truncate(exact) * T <= exact + GivenAway(now)
  BY <1>2, <1>4, <1>6, TruncateBound
<1>8. filled(now) \in Int /\ filled(now) <= Truncate(exact)  BY <1>1, <1>3, <1>6
<1>9. filled(now) * T <= Truncate(exact) * T  BY <1>1, <1>6, <1>8, TimesMonotoneLeft DEF T
<1>10. (filled(now) + debited) * T = filled(now) * T + debited * T  BY <1>1, <1>8
<1>11. filled(now) * T \in Int /\ debited * T \in Int /\ bucketRate * (now - startTime) \in Int
  BY <1>1, <1>8
<1> QED  BY <1>1, <1>2, <1>5, <1>6, <1>7, <1>9, <1>10, <1>11

LEMMA PeakInit == Init => Peak
<1> SUFFICES ASSUME Init PROVE Peak  OBVIOUS
<1>1. TypeOK  BY InitInv DEF IInv
<1>2. \A t \in Transfers : thread[t].pc = "off"  BY DEF Init, Off
<1>3. BucketOK
  <2>1. tokenBucket = 0 /\ debited = 0 /\ lastFillTime = 0 /\ startTime = 0 /\ rounding = 0
    BY DEF Init
  <2>2. bucketRate \in Int /\ T \in Int  BY <1>1, ThrottlerAssumption DEF TypeOK, T
  <2> QED  BY <2>1, <2>2 DEF BucketOK
<1>4. PeakSleepersOK /\ PeakRateHolds  BY <1>2 DEF Init, PeakSleepersOK, PeakRateHolds
<1> QED  BY <1>3, <1>4 DEF Peak

LEMMA PeakReset ==
    ASSUME IInv, resetState, clock' = clock, bucketRate' \in Int,
           \A t \in Transfers : thread'[t] = Forget[t] \/ thread'[t].pc \in {"idle", "off"}
    PROVE  Peak'
<1>1. TypeOK  BY DEF IInv
<1>2. \A t \in Transfers : thread'[t].pc = "asleep" => thread'[t].bucketBytes = {}
  BY <1>1, ForgetType
<1>3. PeakSleepersOK' /\ PeakRateHolds'
  BY <1>2 DEF PeakSleepersOK, PeakSleepOK, PeakRateHolds, resetState
<1>4. BucketOK'
  <2>1. /\ tokenBucket' = 0 /\ debited' = 0 /\ lastFillTime' = clock /\ startTime' = clock
        /\ rounding' = 0
    BY DEF resetState
  <2>2. clock \in Int /\ T \in Int /\ T' = T
    BY <1>1, ThrottlerAssumption DEF TypeOK, T
  <2>3. (0 + 0) * T = 0  BY <2>2
  <2>4. PICK b \in Int : b = bucketRate'  OBVIOUS
  <2>5. b * (clock - clock) = 0  BY <2>2
  <2>6. (0 + 0) * T <= b * (clock - clock) + 0  BY <2>3, <2>5
  <2> QED  BY <2>1, <2>2, <2>4, <2>6, Zenon DEF BucketOK
<1> QED  BY <1>3, <1>4 DEF Peak

\* A step of one caller that does not touch the bucket.
LEMMA PeakQuiet ==
    ASSUME TypeOK, Peak, NEW t \in Transfers, NEW s,
           thread' = [thread EXCEPT ![t] = s], s.pc = "asleep" => s.bucketBytes = {},
           UNCHANGED <<clock, bucketRate, startTime, lastFillTime, tokenBucket, debited, rounding,
                       passedBucket>>
    PROVE  Peak'
<1>1. BucketOK' /\ PeakRateHolds'  BY DEF Peak, BucketOK, PeakRateHolds, T
<1>2. \A u \in Transfers : thread'[u] = IF u = t THEN s ELSE thread[u]  BY DEF TypeOK
<1>3. PeakSleepersOK'
  <2> SUFFICES ASSUME bucketRate > 0, NEW u \in Transfers, thread'[u].pc = "asleep"
               PROVE  PeakSleepOK(u)'
    BY DEF PeakSleepersOK
  <2>1. CASE u = t
    <3>1. thread'[u].bucketBytes = {}  BY <1>2, <2>1
    <3> QED  BY <3>1 DEF PeakSleepOK
  <2>2. CASE u # t
    <3>1. thread'[u] = thread[u]  BY <1>2, <2>2
    <3>2. PeakSleepOK(u)  BY <3>1 DEF Peak, PeakSleepersOK
    <3> QED  BY <3>1, <3>2 DEF PeakSleepOK, T
  <2> QED  BY <2>1, <2>2
<1> QED  BY <1>1, <1>3 DEF Peak

\* A byte that was made stays made.
LEMMA StaysMade ==
    ASSUME NEW n \in Int, NEW r \in Nat, NEW c \in Int, NEW d \in Int, c <= d, NEW s \in Int,
           NEW x \in Int, NEW y \in Int, x <= y, n * T <= r * (c - s) + x
    PROVE  n * T <= r * (d - s) + y
<1>1. r * (c - s) <= r * (d - s)  BY TimesMonotone
<1>2. r * (c - s) \in Int /\ r * (d - s) \in Int /\ n * T \in Int  BY ThrottlerAssumption DEF T
<1> QED  BY <1>1, <1>2

LEMMA PeakTick == ASSUME TypeOK, Peak, Tick PROVE Peak'
<1>1. /\ clock' = clock + 1
      /\ UNCHANGED <<bucketRate, startTime, lastFillTime, tokenBucket, debited, rounding,
                     passedBucket, thread>>
  BY DEF Tick, config, state, observed
<1>2. BucketOK' /\ PeakSleepersOK'
  BY <1>1 DEF Peak, BucketOK, PeakSleepersOK, PeakSleepOK, T
<1>3. PeakRateHolds'
  <2> SUFFICES ASSUME bucketRate > 0, NEW n \in passedBucket
               PROVE  n * T <= bucketRate * (clock' - startTime) + rounding
    BY <1>1 DEF PeakRateHolds, T
  <2>1. n * T <= bucketRate * (clock - startTime) + rounding  BY DEF Peak, PeakRateHolds, T
  <2>2. /\ n \in Int /\ bucketRate \in Nat /\ clock \in Int /\ startTime \in Int
        /\ rounding \in Int /\ rounding <= rounding /\ clock' \in Int /\ clock <= clock'
    BY <1>1 DEF TypeOK
  <2> QED  BY <2>1, <2>2, StaysMade, Zenon
<1> QED  BY <1>2, <1>3 DEF Peak

\* A caller that slept for the debt of the bucket lets through bytes that are made.
LEMMA AwakeMade ==
    ASSUME NEW n \in Int, NEW r \in Int, NEW from \in Int, NEW need \in Int, NEW s \in Int,
           NEW x \in Int, NEW c \in Int,
           n * T <= r * (from - s) + x + need * T, r * (c - from) >= need * T
    PROVE  n * T <= r * (c - s) + x
<1>1. r * (c - s) = r * (c - from) + r * (from - s)  OBVIOUS
<1>2. r * (c - from) \in Int /\ r * (from - s) \in Int /\ n * T \in Int /\ need * T \in Int
  BY ThrottlerAssumption DEF T
<1> QED  BY <1>1, <1>2

LEMMA PeakWake == ASSUME TypeOK, Peak, NEW t \in Transfers, wake(t) PROVE Peak'
<1>1. thread[t].pc = "asleep" /\ thread[t] \in
        [pc : {"asleep"}, left : Nat, rate : Int, from : Int, need : Int,
         bytes : SUBSET (Nat \ {0}), bucketBytes : SUBSET (Nat \ {0})]
  BY ThreadTypes DEF wake
<1>2. PICK s : s = At("loop", thread[t].left, 0)  OBVIOUS
<1>3. s.pc = "loop"  BY <1>2 DEF At
<1>4. /\ thread' = [thread EXCEPT ![t] = s]
      /\ passedBucket' = passedBucket \cup thread[t].bucketBytes
      /\ thread[t].rate * (clock - thread[t].from) >= thread[t].need * T
      /\ UNCHANGED <<clock, bucketRate, startTime, lastFillTime, tokenBucket, debited, rounding>>
  BY <1>2 DEF wake, config, state, T
<1>5. \A u \in Transfers : thread'[u] = IF u = t THEN s ELSE thread[u]  BY <1>4 DEF TypeOK
<1>6. BucketOK'  BY <1>4 DEF Peak, BucketOK, T
<1>7. PeakSleepersOK'
  <2> SUFFICES ASSUME bucketRate > 0, NEW u \in Transfers, thread'[u].pc = "asleep"
               PROVE  PeakSleepOK(u)'
    BY <1>4 DEF PeakSleepersOK
  <2>1. thread'[u] = thread[u]  BY <1>3, <1>5
  <2>2. PeakSleepOK(u)  BY <2>1 DEF Peak, PeakSleepersOK
  <2> QED  BY <1>4, <2>1, <2>2 DEF PeakSleepOK, T
<1>8. PeakRateHolds'
  <2> SUFFICES ASSUME bucketRate > 0, NEW n \in passedBucket' PROVE InPeak(n)
    BY <1>4 DEF PeakRateHolds, InPeak, T
  <2>1. CASE n \in passedBucket  BY <2>1 DEF Peak, PeakRateHolds, InPeak, T
  <2>2. CASE n \in thread[t].bucketBytes
    <3>1. /\ thread[t].rate = bucketRate
          /\ n * T <= bucketRate * (thread[t].from - startTime) + rounding + thread[t].need * T
      BY <1>1, <2>2 DEF Peak, PeakSleepersOK, PeakSleepOK
    <3>2. PICK from \in Int, need \in Int : from = thread[t].from /\ need = thread[t].need
      BY <1>1
    <3>3. /\ n * T <= bucketRate * (from - startTime) + rounding + need * T
          /\ bucketRate * (clock - from) >= need * T
      BY <1>4, <3>1, <3>2
    <3>4. n \in Int /\ bucketRate \in Int /\ startTime \in Int /\ rounding \in Int /\ clock \in Int
      BY <1>1, <2>2 DEF TypeOK
    <3> QED  BY <3>3, <3>4, AwakeMade, Zenon DEF InPeak
  <2> QED  BY <1>4, <2>1, <2>2
<1> QED  BY <1>6, <1>7, <1>8 DEF Peak

LEMMA PeakSleep == ASSUME IInv, Peak, NEW t \in Transfers, calculateSleep(t) PROVE Peak'
<1>1. TypeOK /\ ClocksOK  BY DEF IInv
<1>2. PICK n, left, now, bytes, bucketBytes : SleepsAs(t, n, left, now, bytes, bucketBytes)
  BY SleepCases
<1>3. /\ now \in Nat /\ now <= clock /\ n \in Nat /\ left \in Nat
      /\ filled(now) \in Int /\ GivenAway(now) \in Nat
      /\ bytes \in SUBSET (Nat \ {0}) /\ bucketBytes \in SUBSET (Nat \ {0})
      /\ UNCHANGED <<clock, bucketRate, startTime>>
  BY <1>1, <1>2, SleepTypes
<1>4. PICK loop : loop = At("loop", left, 0)  OBVIOUS
<1>5. loop.pc = "loop"  BY <1>4 DEF At
<1>6. CASE AheadOfAverage(now)
  <2>1. PICK s : s = Asleep(left, avgRate, clock - (now - startTime), progress', bytes, NoBytes)
    OBVIOUS
  <2>2. /\ thread' = [thread EXCEPT ![t] = s]
        /\ UNCHANGED <<lastFillTime, tokenBucket, debited, rounding, passedBucket>>
    BY <1>2, <1>6, <2>1, Zenon DEF SleepsAs, observed
  <2>3. s.bucketBytes = {}  BY <2>1 DEF Asleep, NoBytes
  <2> QED  BY <1>1, <1>3, <2>2, <2>3, PeakQuiet, Zenon
<1>7. CASE ~AheadOfAverage(now) /\ ~(bucketRate > 0 /\ bucketLimit > 0)
  <2>1. /\ thread' = [thread EXCEPT ![t] = loop]
        /\ UNCHANGED <<lastFillTime, tokenBucket, debited, rounding, passedBucket>>
    BY <1>2, <1>4, <1>7, Zenon DEF SleepsAs
  <2> QED  BY <1>1, <1>3, <1>5, <2>1, PeakQuiet, Zenon
<1>8. CASE ~AheadOfAverage(now) /\ bucketRate > 0 /\ bucketLimit > 0
  <2>1. /\ lastFillTime' = now /\ tokenBucket' = filled(now) - n
        /\ debited' = debited + n /\ rounding' = rounding + GivenAway(now)
    BY <1>2, <1>8, Zenon DEF SleepsAs
  <2>2. /\ clock \in Int /\ startTime \in Int /\ bucketRate \in Nat /\ debited \in Nat
        /\ rounding \in Int /\ T \in Nat
    BY <1>1, <1>8, ThrottlerAssumption DEF TypeOK, T
  <2>3. PICK B \in Int, D \in Int, X \in Int :
           B = tokenBucket' /\ D = debited' /\ X = rounding'
    BY <1>3, <2>1, <2>2
  <2>4. B + D = filled(now) + debited /\ X = rounding + GivenAway(now) /\ rounding <= X
    BY <1>3, <2>1, <2>2, <2>3
  <2>5. (B + D) * T <= bucketRate * (now - startTime) + X
    <3>1. (filled(now) + debited) * T <=
             bucketRate * (now - startTime) + rounding + GivenAway(now)
      BY <1>1, <1>3, <1>8, FillBound DEF Peak
    <3>2. /\ (filled(now) + debited) * T \in Int /\ bucketRate * (now - startTime) \in Int
          /\ GivenAway(now) \in Int
      BY <1>3, <2>2
    <3> QED  BY <2>2, <2>4, <3>1, <3>2
  <2>6. BucketOK'
    <3>1. T' = T  BY DEF T
    <3> QED  BY <1>3, <2>1, <2>3, <2>5, <3>1 DEF BucketOK
  \* What is charged now is made when the debt is paid.
  <2>7. \A k \in bucketBytes :
           k \in Int /\ k * T <= bucketRate * (clock - startTime) + X + (-B) * T
    <3> SUFFICES ASSUME NEW k \in bucketBytes
                 PROVE  k \in Int /\ k * T <= bucketRate * (clock - startTime) + X + (-B) * T
      OBVIOUS
    <3>0. bucketBytes = (debited + 1)..(debited + n)  BY <1>2, Zenon DEF SleepsAs
    <3>1. k \in Int /\ k <= D  BY <1>3, <2>1, <2>2, <2>3, <3>0
    <3>2. k * T <= D * T  BY <2>2, <3>1, TimesMonotoneLeft
    <3>3. (B + D) * T = B * T + D * T /\ (-B) * T = -(B * T)  BY <2>2
    <3>4. bucketRate * (now - startTime) <= bucketRate * (clock - startTime)
      <4>1. now - startTime \in Int /\ clock - startTime \in Int
            /\ now - startTime <= clock - startTime
        BY <1>3, <2>2
      <4> QED  BY <2>2, <4>1, TimesMonotone
    <3>5. /\ k * T \in Int /\ D * T \in Int /\ B * T \in Int
          /\ bucketRate * (now - startTime) \in Int /\ bucketRate * (clock - startTime) \in Int
      BY <1>3, <2>2, <3>1
    <3> QED  BY <2>5, <3>1, <3>2, <3>3, <3>4, <3>5
  \* What slept or has passed has as much rounding as before, or more.
  <2>8. \A k \in passedBucket : k * T <= bucketRate * (clock - startTime) + X
    <3> SUFFICES ASSUME NEW k \in passedBucket
                 PROVE  k * T <= bucketRate * (clock - startTime) + X
      OBVIOUS
    <3>1. k \in Int  BY <1>1 DEF TypeOK
    <3>2. k * T <= bucketRate * (clock - startTime) + rounding
      BY <1>8 DEF Peak, PeakRateHolds, T
    <3>3. clock <= clock  BY <2>2
    <3> QED  BY <2>2, <2>4, <3>1, <3>2, <3>3, StaysMade
  <2>9. ASSUME NEW u \in Transfers, u # t, thread'[u] = thread[u], thread'[u].pc = "asleep"
        PROVE  PeakSleepOK(u)'
    <3> SUFFICES ASSUME NEW k \in thread[u].bucketBytes
                 PROVE  /\ thread[u].rate = bucketRate
                        /\ k * T <= bucketRate * (thread[u].from - startTime) + X
                                    + thread[u].need * T
      BY <1>3, <2>3, <2>9 DEF PeakSleepOK, T
    <3>1. /\ thread[u].rate = bucketRate
          /\ k * T <= bucketRate * (thread[u].from - startTime) + rounding + thread[u].need * T
      BY <1>8, <2>9 DEF Peak, PeakSleepersOK, PeakSleepOK
    <3>2. /\ thread[u].from \in Int /\ thread[u].need \in Int /\ k \in Int
      <4>1. thread[u] \in [pc : {"asleep"}, left : Nat, rate : Int, from : Int, need : Int,
                           bytes : SUBSET (Nat \ {0}), bucketBytes : SUBSET (Nat \ {0})]
        BY <1>1, <2>9, ThreadTypes
      <4> QED  BY <4>1
    <3>3. /\ k * T \in Int /\ bucketRate * (thread[u].from - startTime) \in Int
          /\ thread[u].need * T \in Int
      BY <2>2, <3>2
    <3>4. rounding \in Int /\ X \in Int /\ rounding <= X  BY <2>2, <2>4
    <3>5. ASSUME NEW a \in Int, NEW b \in Int, NEW c \in Int, a <= b + rounding + c
          PROVE  a <= b + X + c
      BY <3>4, <3>5
    <3> QED  BY <3>1, <3>3, <3>5
  <2>10. CASE tokenBucket' < 0
    <3>1. PICK s : s = Asleep(left, bucketRate, clock, -B, bytes, bucketBytes)  OBVIOUS
    <3>2. thread' = [thread EXCEPT ![t] = s] /\ UNCHANGED passedBucket
      BY <1>2, <1>8, <2>3, <2>10, <3>1, Zenon DEF SleepsAs
    <3>3. s.rate = bucketRate /\ s.from = clock /\ s.need = -B /\ s.bucketBytes = bucketBytes
      BY <3>1 DEF Asleep
    <3>4. \A u \in Transfers : thread'[u] = IF u = t THEN s ELSE thread[u]
      BY <1>1, <3>2 DEF TypeOK
    <3>5. PeakSleepOK(t)'
      <4>1. thread'[t] = s  BY <3>4
      <4> QED  BY <1>3, <2>3, <2>7, <3>3, <4>1, Zenon DEF PeakSleepOK, T
    <3>6. PeakSleepersOK'  BY <2>9, <3>4, <3>5 DEF PeakSleepersOK
    <3>7. PeakRateHolds'  BY <1>3, <2>3, <2>8, <3>2 DEF PeakRateHolds, T
    <3> QED  BY <2>6, <3>6, <3>7 DEF Peak
  <2>11. CASE ~(tokenBucket' < 0)
    <3>1. thread' = [thread EXCEPT ![t] = loop] /\ passedBucket' = passedBucket \cup bucketBytes
      BY <1>2, <1>4, <1>8, <2>11, Zenon DEF SleepsAs
    <3>2. \A u \in Transfers : thread'[u] = IF u = t THEN loop ELSE thread[u]
      BY <1>1, <3>1 DEF TypeOK
    <3>3. PeakSleepersOK'  BY <1>5, <2>9, <3>2 DEF PeakSleepersOK
    <3>4. (-B) * T <= 0
      <4>1. B \in Nat  BY <2>3, <2>11
      <4>2. B * T \in Nat /\ (-B) * T = -(B * T)  BY <2>2, <4>1
      <4> QED  BY <4>2
    <3>5. \A k \in bucketBytes : k * T <= bucketRate * (clock - startTime) + X
      <4> SUFFICES ASSUME NEW k \in bucketBytes
                   PROVE  k * T <= bucketRate * (clock - startTime) + X
        OBVIOUS
      <4>1. k \in Int /\ k * T <= bucketRate * (clock - startTime) + X + (-B) * T  BY <2>7
      <4>2. k * T \in Int /\ bucketRate * (clock - startTime) \in Int /\ (-B) * T \in Int
        BY <2>2, <4>1
      <4> QED  BY <3>4, <4>1, <4>2
    <3>6. PeakRateHolds'  BY <1>3, <2>3, <2>8, <3>1, <3>5, Zenon DEF PeakRateHolds, T
    <3> QED  BY <2>6, <3>3, <3>6 DEF Peak
  <2> QED  BY <2>10, <2>11
<1> QED  BY <1>6, <1>7, <1>8

LEMMA PeakStart == ASSUME IInv, Peak, NEW t \in Transfers, startTransfer(t) PROVE Peak'
<1>1. TypeOK  BY DEF IInv
<1>2. Idle.pc = "idle"  BY DEF Idle
<1>3. CASE refCount = 0
  <2>1. /\ resetState /\ thread' = [Forget EXCEPT ![t] = Idle]
        /\ UNCHANGED <<clock, bucketRate>>
    BY <1>3 DEF startTransfer, config
  <2>2. \A u \in Transfers : thread'[u] = IF u = t THEN Idle ELSE Forget[u]
    BY <1>1, <2>1, ForgetType
  <2>3. bucketRate' \in Int  BY <1>1, <2>1 DEF TypeOK
  <2> QED  BY <1>2, <2>1, <2>2, <2>3, PeakReset
<1>4. CASE refCount # 0
  <2>1. /\ thread' = [thread EXCEPT ![t] = Idle]
        /\ UNCHANGED <<clock, bucketRate, startTime, lastFillTime, tokenBucket, debited, rounding,
                       passedBucket>>
    BY <1>4 DEF startTransfer, config, state, observed
  <2> QED  BY <1>1, <1>2, <2>1, PeakQuiet, Zenon
<1> QED  BY <1>3, <1>4

LEMMA PeakRates ==
    ASSUME IInv, Peak, NEW avg \in AvgRates, NEW peak \in MaxRates, NEW limit_ \in BucketLimits,
           setThrottlerRates(avg, peak, limit_)
    PROVE  Peak'
<1>1. resetState /\ thread' = Forget /\ clock' = clock  BY DEF setThrottlerRates
<1>2. bucketRate' \in Int
  <2>1. configurePeak(avg, peak) \in Int  BY ThrottlerAssumption DEF configurePeak, OneFifthMore
  <2> QED  BY <2>1 DEF setThrottlerRates
<1> QED  BY <1>1, <1>2, PeakReset

\* endTransfer, limit and readClock.
LEMMA PeakAsk ==
    ASSUME TypeOK, Peak, NEW t \in Transfers,
           endTransfer(t) \/ (\E n \in Requests : limit(t, n)) \/ readClock(t)
    PROVE  Peak'
<1>1. UNCHANGED <<clock, bucketRate, startTime, lastFillTime, tokenBucket, debited, rounding,
                  passedBucket>>
  BY DEF endTransfer, limit, readClock, config, state, observed
<1>2. PICK s : thread' = [thread EXCEPT ![t] = s] /\ s.pc # "asleep"
  <2>1. Off.pc = "off" /\ Idle.pc = "idle"  BY DEF Off, Idle
  <2>2. \A pc, left, now : At(pc, left, now).pc = pc  BY DEF At
  <2>3. CASE endTransfer(t)  BY <2>1, <2>3, Zenon DEF endTransfer
  <2>4. CASE \E n \in Requests : limit(t, n)
    <3>1. PICK n \in Requests : thread' = [thread EXCEPT ![t] = At("loop", n, 0)]
      BY <2>4, Zenon DEF limit
    <3>2. At("loop", n, 0).pc = "loop"  BY <2>2
    <3> QED  BY <3>1, <3>2, Zenon
  <2>5. CASE readClock(t) /\ thread[t].left = 0  BY <2>1, <2>5, Zenon DEF readClock
  <2>6. CASE readClock(t) /\ thread[t].left # 0
    <3>1. PICK s : s = At("measured", thread[t].left, clock)  OBVIOUS
    <3>2. thread' = [thread EXCEPT ![t] = s]  BY <2>6, <3>1 DEF readClock
    <3>3. s.pc = "measured"  BY <2>2, <3>1
    <3> QED  BY <3>2, <3>3, Zenon
  <2> QED  BY <2>3, <2>4, <2>5, <2>6
<1> QED  BY <1>1, <1>2, PeakQuiet, Zenon

LEMMA PeakNext == IInv /\ Peak /\ [Next]_vars => Peak'
<1> SUFFICES ASSUME IInv, Peak, [Next]_vars PROVE Peak'  OBVIOUS
<1>0. TypeOK  BY DEF IInv
<1>1. CASE UNCHANGED vars
  <2>1. UNCHANGED <<clock, bucketRate, startTime, lastFillTime, tokenBucket, thread, debited,
                    rounding, passedBucket>>
    BY <1>1 DEF vars, config, state, observed
  <2> QED
    BY <2>1 DEF Peak, BucketOK, PeakSleepersOK, PeakSleepOK, PeakRateHolds, T
<1>2. CASE Tick  BY <1>0, <1>2, PeakTick
<1>3. ASSUME NEW a \in AvgRates, NEW m \in MaxRates, NEW l \in BucketLimits,
             setThrottlerRates(a, m, l)
      PROVE  Peak'
  BY <1>3, PeakRates
<1>4. ASSUME NEW t \in Transfers,
             \/ startTransfer(t) \/ endTransfer(t) \/ \E n \in Requests : limit(t, n)
             \/ readClock(t) \/ calculateSleep(t) \/ wake(t)
      PROVE  Peak'
  BY <1>0, <1>4, PeakStart, PeakAsk, PeakSleep, PeakWake
<1> QED  BY <1>1, <1>2, <1>3, <1>4 DEF Next

\* No byte charged to the bucket passes before tokens for it have been made at
\* the peak rate, but for what rounding gave away, for every number of callers,
\* all rates and limits, and readings of the clock in any order
\* (calculateSleep).
THEOREM PeakRateAlways == Spec => []PeakRateHolds
<1>1. IInv /\ Peak => PeakRateHolds  BY DEF Peak
<1> QED  BY <1>1, InitInv, NextInv, PeakInit, PeakNext, PTL DEF Spec
=============================================================================
