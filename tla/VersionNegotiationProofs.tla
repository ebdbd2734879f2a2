---------------------- MODULE VersionNegotiationProofs ----------------------
(***************************************************************************)
(* Proofs about the negotiation of a protocol version, for any number of   *)
(* threads and any versions of sender and receivers.                       *)
(*                                                                         *)
(* The inductive invariant follows the negotiation through its phases.     *)
(* Before the barrier is complete its counts are those of the threads that *)
(* have not ended and of those that wait; when the last one hits it, all   *)
(* that are left are inside; then one thread settles the version while     *)
(* the others wait, and whoever goes on after that has taken the version.  *)
(***************************************************************************)
EXTENDS VersionNegotiation, FiniteSetTheorems, TLAPS

Versions == {v \in Nat : v = 0 \/ v >= MinVersion}

Working == {"start", "connect", "settings", "sending", "abort cmd", "incompatible", "mismatch"}
Settling == {"settle", "resolve", "clear"}
Gathered == {"barrier", "funnel", "ending", "end"}
States == Working \cup Settling \cup Gathered \cup {"no buffer"}

\* Some thread has a version its receiver and it can speak.
HasVersion == \E u \in Threads : negotiated[u] # 0

NegotiationTypeOK ==
    /\ pc \in [Threads -> States]
    /\ version \in [Threads -> Versions]
    /\ negotiated \in [Threads -> Versions]
    /\ receiverVersion \in [Threads -> Versions]
    /\ parentVersion \in Versions
    /\ barrier \in [numThreads : Int, numHits : Int, isComplete : BOOLEAN]
    /\ funnel \in [status : {"START", "PROGRESS", "END"}, waiting : SUBSET Threads]
    /\ status \in {"WAIT", "FAILED", "RESOLVED"}
    /\ checkFailed = FALSE

Registered == {t \in Threads : pc[t] # "end"}
AtBarrier == {t \in Threads : pc[t] = "barrier"}

\* What the barrier counts.
BarrierCounts ==
    ~barrier.isComplete => /\ barrier.numThreads = Cardinality(Registered)
                           /\ barrier.numHits = Cardinality(AtBarrier)

\* The phases of the negotiation, and where the threads can be in each.
Phases ==
    /\ ~barrier.isComplete =>
          /\ status = "WAIT"
          /\ \A t \in Threads : pc[t] \in Working \cup {"no buffer", "barrier", "ending", "end"}
    /\ barrier.isComplete /\ status = "WAIT" =>
          \A t \in Threads : pc[t] \in {"barrier", "funnel", "end"}
    /\ status = "FAILED" =>
          \A t \in Threads : pc[t] \in Gathered \cup {"settle", "resolve"}
    /\ status = "RESOLVED" =>
          \A t \in Threads : /\ pc[t] \notin {"settle", "resolve"}
                             /\ pc[t] \in Gathered \/ version[t] = parentVersion
    /\ funnel.status = "START" <=> status = "WAIT"

\* One thread settles the version, and has it before the others take it.
OneSettles ==
    /\ \A t \in Threads : pc[t] \in Settling => funnel.status = "PROGRESS"
    /\ \A t, u \in Threads : pc[t] \in Settling /\ pc[u] \in Settling => t = u
    /\ \A t \in Threads : pc[t] = "resolve" => version[t] = parentVersion

\* A version was found before any thread stops for a version mismatch.
Found ==
    /\ abortCode = "VERSION_MISMATCH" => HasVersion
    /\ \A t \in Threads : pc[t] \in {"mismatch", "barrier", "funnel", "settle"} => HasVersion
    /\ \A t \in Threads : pc[t] = "abort cmd" =>
          receiverVersion[t] # 0 /\ receiverVersion[t] < version[t]

Negotiation == NegotiationTypeOK /\ BarrierCounts /\ Phases /\ OneSettles /\ Found
----------------------------------------------------------------------------
\* An abort that is not about the negotiation outlasts it.
THEOREM AbortTheorem == Spec => ApplicationAbortStays
<1>1. ASSUME [Next]_vars PROVE KeepsAbort
  <2> USE DEF KeepsAbort, Mild
  <2>1. CASE UNCHANGED abortCode
    BY <2>1
  <2>2. CASE applicationAborts
    BY <2>2 DEF applicationAborts, abort
  <2>3. ASSUME NEW t \in Threads, processAbortCmd(t) PROVE KeepsAbort
    BY <2>3, Zenon DEF processAbortCmd, abort
  <2>4. ASSUME NEW t \in Threads, processIncompatible(t) PROVE KeepsAbort
    BY <2>4 DEF processIncompatible, abort
  <2>5. ASSUME NEW t \in Threads, resolve(t) PROVE KeepsAbort
    BY <2>5 DEF resolve, clearAbort
  <2>6. ASSUME NEW t \in Threads, Step(t) \/ reconnect(t) \/ wakeUp(t),
               ~processAbortCmd(t), ~processIncompatible(t), ~resolve(t)
        PROVE  UNCHANGED abortCode
    BY <2>6, Zenon
    DEF Step, start, connect, sendSettings, acknowledge, sendBlock, processVersionMismatch,
        passBarrier, funnelStart, settle, resolved, funnelProgress, funnelEnd, end, reconnect,
        wakeUp, negotiationVars
  <2>7. CASE UNCHANGED vars
    BY <2>7, <2>1 DEF vars, negotiationVars
  <2> QED
    BY <1>1, <2>1, <2>2, <2>3, <2>4, <2>5, <2>6, <2>7 DEF Next
<1> QED
  BY <1>1, PTL DEF Spec, ApplicationAbortStays
----------------------------------------------------------------------------
(* The inductive invariant *)

LEMMA InitNegotiation ==
    ASSUME NegotiationAssumption, Init
    PROVE  Negotiation
<1> USE DEF NegotiationAssumption, ThreadsAssumption
<1>1. Registered = Threads /\ AtBarrier = {}
  BY DEF Init, Registered, AtBarrier
<1>2. Cardinality(Registered) = NumThreads /\ Cardinality(AtBarrier) = 0 /\ NumThreads \in Nat
  BY <1>1, FS_CardinalityType, FS_EmptySet DEF NumThreads
<1>3. NegotiationTypeOK
  <2>1. SenderVersion \in Versions /\ 0 \in Versions /\ \A v \in ReceiverVersions : v \in Versions
    BY DEF Versions
  <2>2. /\ barrier \in [numThreads : Int, numHits : Int, isComplete : BOOLEAN]
        /\ funnel \in [status : {"START", "PROGRESS", "END"}, waiting : SUBSET Threads]
    BY <1>2 DEF Init, ControllerInit, NewBarrier, NewFunnel
  <2> QED
    BY <2>1, <2>2 DEF Init, ControllerInit, NegotiationTypeOK, States, Working
<1>4. BarrierCounts
  BY <1>2 DEF Init, ControllerInit, NewBarrier, BarrierCounts
<1>5. Phases /\ OneSettles /\ Found
  BY DEF Init, ControllerInit, NewBarrier, NewFunnel, Phases, OneSettles, Found, Working, Settling
<1> QED
  BY <1>3, <1>4, <1>5 DEF Negotiation

\* Threads that neither wait nor have ended, before and after, leave the counts.
LEMMA SameCounts ==
    ASSUME BarrierCounts, NEW t \in Threads, NEW x, pc \in [Threads -> States],
           pc' = [pc EXCEPT ![t] = x], UNCHANGED barrier,
           pc[t] \notin {"barrier", "end"}, x \notin {"barrier", "end"}
    PROVE  BarrierCounts'
<1>1. Registered' = Registered /\ AtBarrier' = AtBarrier
  BY DEF Registered, AtBarrier
<1> QED
  BY <1>1 DEF BarrierCounts

\* Once the barrier is complete the counts no longer matter.
LEMMA CountsOver ==
    ASSUME barrier.isComplete, UNCHANGED barrier
    PROVE  BarrierCounts'
BY DEF BarrierCounts

LEMMA GoToState ==
    ASSUME NEW t \in Threads, NEW s, GoTo(t, s)
    PROVE  \E x \in {s, "mismatch", "ending"} :
              /\ pc' = [pc EXCEPT ![t] = x]
              /\ x = s \/ x = "ending" \/ abortCode = "VERSION_MISMATCH"
              /\ s \in {"ending", "barrier", "funnel"} => x = s
BY Zenon DEF GoTo

\* A thread at work goes on, ends, or stops for a version mismatch.
LEMMA Works ==
    ASSUME Negotiation, NEW t \in Threads, NEW x \in Working \cup {"ending", "no buffer"},
           pc[t] \in Working, pc' = [pc EXCEPT ![t] = x],
           UNCHANGED <<barrier, funnel, status, checkFailed, version, parentVersion>>,
           receiverVersion' \in [Threads -> Versions],
           \A u \in Threads : u # t => receiverVersion'[u] = receiverVersion[u],
           negotiated' \in [Threads -> Versions],
           HasVersion => HasVersion',
           x = "abort cmd" => receiverVersion'[t] # 0 /\ receiverVersion'[t] < version[t],
           x = "mismatch" \/ abortCode' = "VERSION_MISMATCH" => HasVersion'
    PROVE  Negotiation'
<1>t. pc \in [Threads -> States] /\ pc'[t] = x /\ \A u \in Threads : u # t => pc'[u] = pc[u]
  BY Zenon DEF Negotiation, NegotiationTypeOK
<1>x. x \notin Settling \cup {"barrier", "end", "funnel"} /\ pc[t] \notin Gathered \cup Settling
  BY Zenon DEF Working, Settling, Gathered
<1>1. NegotiationTypeOK'
  <2>1. pc' \in [Threads -> States]
    BY <1>t, Zenon DEF States, Gathered
  <2> QED
    BY <2>1, Zenon DEF Negotiation, NegotiationTypeOK
<1>2. BarrierCounts'
  BY <1>t, <1>x, SameCounts, Zenon DEF Negotiation, Gathered
<1>3. Phases'
  <2>1. status # "FAILED" /\ ~(barrier.isComplete /\ status = "WAIT")
    BY <1>x, Zenon DEF Negotiation, Phases, Gathered, Settling
  <2>2. x \in Working \cup {"no buffer", "barrier", "ending", "end"} /\ x \notin {"settle", "resolve"}
    BY <1>x, Zenon DEF Settling
  <2>3. status = "RESOLVED" => version[t] = parentVersion
    BY <1>x, Zenon DEF Negotiation, Phases
  <2> QED
    BY <1>t, <2>1, <2>2, <2>3, Zenon DEF Negotiation, Phases
<1>4. OneSettles'
  BY <1>t, <1>x, Zenon DEF Negotiation, OneSettles, Settling
<1>5. Found'
  BY <1>t, <1>x, Zenon DEF Negotiation, Found, Settling
<1> QED
  BY <1>1, <1>2, <1>3, <1>4, <1>5, Zenon DEF Negotiation

\* The same, when nothing but the state of the thread changes.
LEMMA GoesOn ==
    ASSUME Negotiation, NEW t \in Threads, NEW s \in Working \ {"abort cmd", "mismatch"},
           pc[t] \in Working, GoTo(t, s) \/ GoTo(t, "ending"),
           UNCHANGED <<barrier, funnel, status, checkFailed, version, parentVersion, negotiated,
                       abortCode, receiverVersion>>
    PROVE  Negotiation'
<1>1. PICK x \in {s, "mismatch", "ending"} :
          pc' = [pc EXCEPT ![t] = x] /\ (x = s \/ x = "ending" \/ abortCode = "VERSION_MISMATCH")
  BY GoToState, Zenon
<1>2. x \in Working \cup {"ending", "no buffer"} /\ x # "abort cmd"
  BY <1>1, Zenon DEF Working
<1>3. HasVersion' <=> HasVersion
  BY Zenon DEF HasVersion
<1>4. abortCode = "VERSION_MISMATCH" => HasVersion
  BY Zenon DEF Negotiation, Found
<1>5. receiverVersion' \in [Threads -> Versions] /\ negotiated' \in [Threads -> Versions]
  BY Zenon DEF Negotiation, NegotiationTypeOK
<1>6. x = "mismatch" \/ abortCode' = "VERSION_MISMATCH" => HasVersion'
  BY <1>1, <1>3, <1>4, Zenon
<1> QED
  BY <1>1, <1>2, <1>3, <1>5, <1>6, Works, Zenon

LEMMA SettingsNegotiation ==
    ASSUME NegotiationAssumption, Negotiation, NEW t \in Threads, sendSettings(t)
    PROVE  Negotiation'
<1> DEFINE n == negotiateProtocol(version[t], receiverVersion[t])
           s == IF version[t] = receiverVersion[t] \/ (n # 0 /\ n = version[t]) THEN "sending"
                ELSE IF n = 0 THEN "incompatible" ELSE "abort cmd"
<1>1. /\ pc[t] \in Working
      /\ receiverVersion' = [receiverVersion EXCEPT ![t] = IF n = 0 THEN receiverVersion[t] ELSE n]
      /\ GoTo(t, s)
      /\ UNCHANGED <<barrier, funnel, status, checkFailed, version, parentVersion, negotiated, abortCode>>
  BY Zenon DEF sendSettings, controllerVars, Working
<1>2. /\ version[t] \in Versions /\ receiverVersion[t] \in Versions /\ MinVersion \in Nat \ {0}
      /\ receiverVersion \in [Threads -> Versions] /\ negotiated' \in [Threads -> Versions]
  BY <1>1, Zenon DEF Negotiation, NegotiationTypeOK, NegotiationAssumption
<1>3. n \in Versions
  BY <1>2 DEF Versions, negotiateProtocol
<1>4. s = "abort cmd" => n # 0 /\ n < version[t]
  BY <1>2 DEF Versions, negotiateProtocol
<1>5. s \in {"sending", "incompatible", "abort cmd"}
  OBVIOUS
<1> HIDE DEF s, n
<1>6. receiverVersion' \in [Threads -> Versions]
  BY <1>1, <1>2, <1>3
<1>7. \A u \in Threads : u # t => receiverVersion'[u] = receiverVersion[u]
  BY <1>1, <1>2
<1>8. s = "abort cmd" => receiverVersion'[t] # 0 /\ receiverVersion'[t] < version[t]
  BY <1>1, <1>2, <1>4, Zenon
<1>9. PICK x \in {s, "mismatch", "ending"} :
          pc' = [pc EXCEPT ![t] = x] /\ (x = s \/ x = "ending" \/ abortCode = "VERSION_MISMATCH")
  BY <1>1, GoToState
<1>10. HasVersion' <=> HasVersion
  BY <1>1 DEF HasVersion
<1>11. x = "mismatch" \/ abortCode' = "VERSION_MISMATCH" => HasVersion'
  BY <1>1, <1>5, <1>9, <1>10, Zenon DEF Negotiation, Found
<1>12. x \in Working \cup {"ending", "no buffer"} /\ (x = "abort cmd" => s = "abort cmd")
  BY <1>5, <1>9, Zenon DEF Working
<1> QED
  BY <1>1, <1>2, <1>6, <1>7, <1>8, <1>9, <1>10, <1>11, <1>12, Works, Zenon

LEMMA AbortNegotiation ==
    ASSUME NegotiationAssumption, Negotiation, NEW t \in Threads, processAbortCmd(t)
    PROVE  Negotiation'
<1>1. /\ pc[t] = "abort cmd" /\ pc[t] \in Working
      /\ UNCHANGED <<barrier, funnel, status, checkFailed, version, parentVersion, receiverVersion>>
  BY Zenon DEF processAbortCmd, controllerVars, Working
<1>2. /\ version[t] \in Versions /\ receiverVersion[t] \in Versions /\ MinVersion \in Nat \ {0}
      /\ receiverVersion' \in [Threads -> Versions] /\ negotiated \in [Threads -> Versions]
  BY <1>1, Zenon DEF Negotiation, NegotiationTypeOK, NegotiationAssumption
<1>3. receiverVersion[t] # 0 /\ receiverVersion[t] < version[t]
  BY <1>1, Zenon DEF Negotiation, Found
<1>4. negotiateProtocol(receiverVersion[t], version[t]) = receiverVersion[t]
  BY <1>2, <1>3 DEF negotiateProtocol, Versions
<1>5. /\ negotiated' = [negotiated EXCEPT ![t] = receiverVersion[t]]
      /\ \E x \in {"mismatch", "ending"} : pc' = [pc EXCEPT ![t] = x]
  BY <1>4, Zenon DEF processAbortCmd
<1>6. negotiated' \in [Threads -> Versions] /\ HasVersion'
  BY <1>2, <1>3, <1>5 DEF HasVersion
<1>7. PICK x \in {"mismatch", "ending"} : pc' = [pc EXCEPT ![t] = x]
  BY <1>5, Zenon
<1>8. x \in Working \cup {"ending", "no buffer"} /\ x # "abort cmd"
  BY Zenon DEF Working
<1> QED
  BY <1>1, <1>2, <1>6, <1>7, <1>8, Works, Zenon

LEMMA IncompatibleNegotiation ==
    ASSUME Negotiation, NEW t \in Threads, processIncompatible(t)
    PROVE  Negotiation'
<1>1. /\ pc[t] \in Working /\ pc' = [pc EXCEPT ![t] = "ending"] /\ abortCode' = "VERSION_INCOMPATIBLE"
      /\ UNCHANGED <<barrier, funnel, status, checkFailed, version, parentVersion, negotiated,
                     receiverVersion>>
  BY DEF processIncompatible, abort, controllerVars, Working
<1>2. receiverVersion' \in [Threads -> Versions] /\ negotiated' \in [Threads -> Versions]
  BY <1>1 DEF Negotiation, NegotiationTypeOK
<1>3. HasVersion' <=> HasVersion
  BY <1>1 DEF HasVersion
<1> QED
  BY <1>1, <1>2, <1>3, Works, Zenon
----------------------------------------------------------------------------


LEMMA HitNegotiation ==
    ASSUME NegotiationAssumption, Negotiation, NEW t \in Threads, processVersionMismatch(t)
    PROVE  Negotiation'
<1>0. /\ pc \in [Threads -> States] /\ pc[t] = "mismatch" /\ IsFiniteSet(Threads) /\ HasVersion
      /\ UNCHANGED <<funnel, version, parentVersion, negotiated, receiverVersion, status, abortCode>>
  BY Zenon DEF Negotiation, NegotiationTypeOK, processVersionMismatch, NegotiationAssumption,
         ThreadsAssumption, Found
<1>v. HasVersion'
  BY <1>0 DEF HasVersion
<1>1. CASE status # "WAIT"
  <2>1. status # "FAILED" /\ pc[t] \in Working
    BY <1>0, Zenon DEF Negotiation, Phases, Gathered, Working
  <2>2. /\ UNCHANGED <<barrier, checkFailed>> /\ pc' = [pc EXCEPT ![t] = "ending"]
    BY <1>1, <2>1, Zenon DEF processVersionMismatch, GoTo, Negotiation, NegotiationTypeOK
  <2>3. receiverVersion' \in [Threads -> Versions] /\ negotiated' \in [Threads -> Versions]
    BY <1>0 DEF Negotiation, NegotiationTypeOK
  <2> QED
    BY <1>0, <1>v, <2>1, <2>2, <2>3, Works, Zenon
<1>2. CASE status = "WAIT"
  <2>1. ~barrier.isComplete
    BY <1>0, <1>2, Zenon DEF Negotiation, Phases
  <2>2. /\ pc' = [pc EXCEPT ![t] = "barrier"]
        /\ barrier' = Finish(barrier.numThreads, barrier.numHits + 1)
        /\ checkFailed' = (checkFailed \/ barrier.isComplete
                              \/ barrier.numThreads < barrier.numHits + 1)
    BY <1>2 DEF processVersionMismatch, GoTo, barrierHit
  <2>3. pc'[t] = "barrier" /\ \A u \in Threads : u # t => pc'[u] = pc[u]
    BY <1>0, <2>2
  <2>4. /\ AtBarrier' = AtBarrier \cup {t} /\ t \notin AtBarrier
        /\ Registered' = Registered /\ AtBarrier' \subseteq Registered
        /\ IsFiniteSet(AtBarrier) /\ IsFiniteSet(Registered)
    <3>1. /\ AtBarrier' = AtBarrier \cup {t} /\ t \notin AtBarrier
          /\ Registered' = Registered /\ AtBarrier' \subseteq Registered
          /\ AtBarrier \subseteq Threads /\ Registered \subseteq Threads
      BY <1>0, <2>3 DEF AtBarrier, Registered
    <3> QED
      BY <1>0, <3>1, FS_Subset
  <2>5. /\ Cardinality(AtBarrier') = Cardinality(AtBarrier) + 1
        /\ Cardinality(AtBarrier') <= Cardinality(Registered)
        /\ Cardinality(AtBarrier) \in Nat /\ Cardinality(Registered) \in Nat
    BY <2>4, FS_AddElement, FS_Subset, FS_CardinalityType
  <2>6. /\ barrier.numThreads = Cardinality(Registered)
        /\ barrier.numHits = Cardinality(AtBarrier)
    BY <2>1 DEF Negotiation, BarrierCounts
  <2>7. /\ checkFailed' = FALSE
        /\ barrier'.numThreads = Cardinality(Registered')
        /\ barrier'.numHits = Cardinality(AtBarrier')
        /\ barrier'.isComplete <=> Cardinality(AtBarrier') = Cardinality(Registered')
        /\ barrier' \in [numThreads : Int, numHits : Int, isComplete : BOOLEAN]
    <3>1. checkFailed' = FALSE
      BY <2>1, <2>2, <2>5, <2>6 DEF Negotiation, NegotiationTypeOK
    <3>2. /\ barrier'.numThreads = barrier.numThreads
          /\ barrier'.numHits = barrier.numHits + 1
          /\ barrier'.isComplete = (barrier.numHits + 1 = barrier.numThreads)
          /\ barrier.numHits + 1 \in Int /\ barrier.numThreads \in Int
          /\ barrier' = [numThreads |-> barrier'.numThreads, numHits |-> barrier'.numHits,
                         isComplete |-> barrier'.isComplete]
      BY <2>1, <2>2, <2>5, <2>6 DEF Finish
    <3> QED
      BY <3>1, <3>2, <2>4, <2>5, <2>6, Zenon
  <2>8. barrier'.isComplete => \A u \in Threads : pc'[u] \in {"barrier", "end"}
    <3>1. ASSUME Cardinality(AtBarrier') = Cardinality(Registered')
          PROVE  AtBarrier' = Registered'
      BY <2>4, <3>1, FS_Subset
    <3> QED
      BY <2>7, <3>1 DEF AtBarrier, Registered
  <2>9. NegotiationTypeOK'
    <3>1. pc' \in [Threads -> States]
      BY <1>0, <2>2, Zenon DEF States, Gathered
    <3> QED
      BY <3>1, <1>0, <2>7 DEF Negotiation, NegotiationTypeOK
  <2>10. BarrierCounts'
    BY <2>7 DEF BarrierCounts
  <2>11. Phases'
    BY <1>0, <1>2, <2>1, <2>3, <2>8, Zenon DEF Negotiation, Phases
  <2>12. OneSettles'
    BY <1>0, <2>3 DEF Negotiation, OneSettles, Settling
  <2>13. Found'
    BY <1>0, <1>v, <2>3, Zenon DEF Negotiation, Found
  <2> QED
    BY <2>9, <2>10, <2>11, <2>12, <2>13 DEF Negotiation
<1> QED
  BY <1>1, <1>2

LEMMA EndNegotiation ==
    ASSUME NegotiationAssumption, Negotiation, NEW t \in Threads, end(t)
    PROVE  Negotiation'
<1>0. /\ pc \in [Threads -> States] /\ pc[t] = "ending" /\ IsFiniteSet(Threads)
      /\ UNCHANGED <<funnel, version, parentVersion, negotiated, receiverVersion, status, abortCode>>
      /\ pc' = [pc EXCEPT ![t] = "end"]
  BY DEF Negotiation, NegotiationTypeOK, end, NegotiationAssumption, ThreadsAssumption
<1>1. pc'[t] = "end" /\ \A u \in Threads : u # t => pc'[u] = pc[u]
  BY <1>0
<1>2. pc' \in [Threads -> States]
  BY <1>0, Zenon DEF States, Gathered
<1>3. OneSettles'
  BY <1>0, <1>1 DEF Negotiation, OneSettles, Settling
<1>4. Found'
  <2>1. HasVersion' <=> HasVersion
    BY <1>0 DEF HasVersion
  <2> QED
    BY <1>0, <1>1, <2>1, Zenon DEF Negotiation, Found
<1>5. CASE barrier.isComplete
  <2>1. UNCHANGED <<barrier, checkFailed>>
    BY <1>5 DEF end, deRegisterThread, barrierDeRegister
  <2>2. NegotiationTypeOK'
    BY <1>0, <1>2, <2>1 DEF Negotiation, NegotiationTypeOK
  <2>3. Phases'
    BY <1>0, <1>1, <1>5, <2>1, Zenon DEF Negotiation, Phases, Gathered
  <2> QED
    BY <1>3, <1>4, <1>5, <2>1, <2>2, <2>3, CountsOver DEF Negotiation
<1>6. CASE ~barrier.isComplete
  <2>1. /\ barrier' = Finish(barrier.numThreads - 1, barrier.numHits)
        /\ checkFailed' = (checkFailed \/ barrier.numThreads - 1 < barrier.numHits)
    BY <1>6 DEF end, deRegisterThread, barrierDeRegister
  <2>2. /\ Registered' = Registered \ {t} /\ t \in Registered
        /\ AtBarrier' = AtBarrier /\ AtBarrier \subseteq Registered'
        /\ IsFiniteSet(AtBarrier) /\ IsFiniteSet(Registered)
    <3>1. /\ Registered' = Registered \ {t} /\ t \in Registered
          /\ AtBarrier' = AtBarrier /\ AtBarrier \subseteq Registered'
          /\ AtBarrier \subseteq Threads /\ Registered \subseteq Threads
      BY <1>0, <1>1 DEF AtBarrier, Registered
    <3> QED
      BY <1>0, <3>1, FS_Subset
  <2>3. IsFiniteSet(Registered') /\ Cardinality(Registered') = Cardinality(Registered) - 1
    BY <2>2, FS_RemoveElement
  <2>4. /\ Cardinality(AtBarrier) <= Cardinality(Registered')
        /\ Cardinality(AtBarrier) \in Nat /\ Cardinality(Registered) \in Nat
        /\ Cardinality(AtBarrier) = Cardinality(Registered') => AtBarrier = Registered'
    BY <2>2, <2>3, FS_Subset, FS_CardinalityType
  <2>5. /\ barrier.numThreads = Cardinality(Registered)
        /\ barrier.numHits = Cardinality(AtBarrier)
    BY <1>6 DEF Negotiation, BarrierCounts
  <2>6. /\ barrier'.numThreads = Cardinality(Registered')
        /\ barrier'.numHits = Cardinality(AtBarrier')
        /\ barrier'.isComplete = (Cardinality(AtBarrier) = Cardinality(Registered'))
        /\ barrier' \in [numThreads : Int, numHits : Int, isComplete : BOOLEAN]
    <3>1. /\ barrier'.numThreads = barrier.numThreads - 1
          /\ barrier'.numHits = barrier.numHits
          /\ barrier'.isComplete = (barrier.numHits = barrier.numThreads - 1)
          /\ barrier.numHits \in Int /\ barrier.numThreads - 1 \in Int
          /\ barrier' = [numThreads |-> barrier'.numThreads, numHits |-> barrier'.numHits,
                         isComplete |-> barrier'.isComplete]
      BY <1>6, <2>1, <2>4, <2>5 DEF Finish
    <3> QED
      BY <3>1, <2>2, <2>3, <2>5, Zenon
  <2>7. checkFailed' = FALSE
    <3>1. ~(barrier.numThreads - 1 < barrier.numHits)
      BY <2>3, <2>4, <2>5
    <3> QED
      BY <2>1, <3>1, Zenon DEF Negotiation, NegotiationTypeOK
  <2>8. barrier'.isComplete => \A u \in Threads : pc'[u] \in {"barrier", "end"}
    <3>1. barrier'.isComplete => AtBarrier' = Registered'
      BY <2>2, <2>4, <2>6
    <3> QED
      BY <3>1 DEF AtBarrier, Registered
  <2>9. NegotiationTypeOK'
    BY <1>0, <1>2, <2>6, <2>7 DEF Negotiation, NegotiationTypeOK
  <2>10. BarrierCounts'
    BY <2>6 DEF BarrierCounts
  <2>11. Phases'
    BY <1>0, <1>1, <1>6, <2>8, Zenon DEF Negotiation, Phases
  <2> QED
    BY <1>3, <1>4, <2>9, <2>10, <2>11 DEF Negotiation
<1> QED
  BY <1>5, <1>6
----------------------------------------------------------------------------
(* Past the barrier *)

LEMMA PassNegotiation ==
    ASSUME Negotiation, NEW t \in Threads, passBarrier(t)
    PROVE  Negotiation'
<1>1. /\ pc[t] = "barrier" /\ barrier.isComplete /\ pc' = [pc EXCEPT ![t] = "funnel"]
      /\ UNCHANGED <<barrier, funnel, status, checkFailed, version, parentVersion, negotiated,
                     abortCode, receiverVersion>>
      /\ pc \in [Threads -> States]
  BY DEF passBarrier, barrierPassed, GoTo, controllerVars, Negotiation, NegotiationTypeOK
<1>2. pc'[t] = "funnel" /\ \A u \in Threads : u # t => pc'[u] = pc[u]
  BY <1>1
<1>3. NegotiationTypeOK'
  <2>1. pc' \in [Threads -> States]
    BY <1>1, Zenon DEF States, Gathered
  <2> QED
    BY <2>1, <1>1 DEF Negotiation, NegotiationTypeOK
<1>4. BarrierCounts'
  BY <1>1, CountsOver
<1>5. Phases'
  BY <1>1, <1>2, Zenon DEF Negotiation, Phases, Gathered
<1>6. OneSettles'
  BY <1>1, <1>2 DEF Negotiation, OneSettles, Settling
<1>7. Found'
  <2>1. HasVersion' <=> HasVersion
    BY <1>1 DEF HasVersion
  <2> QED
    BY <1>1, <1>2, <2>1, Zenon DEF Negotiation, Found
<1> QED
  BY <1>3, <1>4, <1>5, <1>6, <1>7 DEF Negotiation

\* A thread past the barrier, before and after its step; the phase stays or advances.
LEMMA PastBarrier ==
    ASSUME Negotiation, NEW t \in Threads, pc[t] \in {"funnel"} \cup Settling
    PROVE  barrier.isComplete
BY Zenon DEF Negotiation, Phases, Settling, Working

LEMMA StartNegotiation ==
    ASSUME Negotiation, NEW t \in Threads, funnelStart(t)
    PROVE  Negotiation'
<1>1. /\ pc[t] = "funnel" /\ pc' = [pc EXCEPT ![t] = "settle"] /\ status' = "FAILED"
      /\ funnel.status = "START" /\ funnel' = [funnel EXCEPT !.status = "PROGRESS"]
      /\ UNCHANGED <<barrier, checkFailed, version, parentVersion, negotiated, abortCode,
                     receiverVersion>>
      /\ pc \in [Threads -> States]
  BY DEF funnelStart, funnelStatus, Negotiation, NegotiationTypeOK
<1>2. pc'[t] = "settle" /\ \A u \in Threads : u # t => pc'[u] = pc[u]
  BY <1>1
<1>3. barrier.isComplete /\ status = "WAIT"
  BY <1>1, PastBarrier, Zenon DEF Negotiation, Phases
<1>4. \A u \in Threads : pc[u] \in {"barrier", "funnel", "end"}
  BY <1>3 DEF Negotiation, Phases
<1>5. funnel' \in [status : {"START", "PROGRESS", "END"}, waiting : SUBSET Threads]
      /\ funnel'.status = "PROGRESS"
  BY <1>1 DEF Negotiation, NegotiationTypeOK
<1>6. NegotiationTypeOK'
  <2>1. pc' \in [Threads -> States]
    BY <1>1, Zenon DEF States, Settling
  <2> QED
    BY <2>1, <1>1, <1>5 DEF Negotiation, NegotiationTypeOK
<1>7. BarrierCounts'
  BY <1>1, <1>3, CountsOver
<1>8. Phases'
  BY <1>1, <1>2, <1>3, <1>4, <1>5 DEF Phases, Gathered
<1>9. OneSettles'
  BY <1>2, <1>4, <1>5 DEF OneSettles, Settling
<1>10. Found'
  <2>1. HasVersion' <=> HasVersion
    BY <1>1 DEF HasVersion
  <2> QED
    BY <1>1, <1>2, <2>1, Zenon DEF Negotiation, Found
<1> QED
  BY <1>6, <1>7, <1>8, <1>9, <1>10 DEF Negotiation

LEMMA SettleNegotiation ==
    ASSUME Negotiation, NEW t \in Threads, settle(t)
    PROVE  Negotiation'
<1>1. /\ pc[t] = "settle" /\ pc \in [Threads -> States]
      /\ UNCHANGED <<barrier, negotiated, status, abortCode, receiverVersion>>
  BY DEF settle, Negotiation, NegotiationTypeOK
<1>2. barrier.isComplete /\ status = "FAILED"
  BY <1>1, PastBarrier, Zenon DEF Negotiation, Phases, Settling, NegotiationTypeOK
<1>3. /\ \A u \in Threads : u # t => pc[u] \in Gathered
      /\ \A u \in Threads : u # t => pc[u] \notin Settling
      /\ funnel.status = "PROGRESS"
  BY <1>1, <1>2 DEF Negotiation, Phases, OneSettles, Settling
<1>4. HasVersion' /\ HasVersion
  BY <1>1, Zenon DEF Negotiation, Found, HasVersion
<1>5. Negotiated # {} /\ Negotiated \subseteq Versions
  <2>1. PICK u \in Threads : negotiated[u] # 0
    BY <1>4 DEF HasVersion
  <2>2. negotiated[u] \in Negotiated
    BY <2>1 DEF Negotiated
  <2> QED
    BY <2>2 DEF Negotiated, Negotiation, NegotiationTypeOK
<1>6. BarrierCounts'
  BY <1>1, <1>2, CountsOver
<1>7. ASSUME NEW v \in Negotiated, parentVersion' = v, version' = [version EXCEPT ![t] = v],
             pc' = [pc EXCEPT ![t] = "resolve"], UNCHANGED <<funnel, checkFailed>>
      PROVE  Negotiation'
  <2>1. pc'[t] = "resolve" /\ \A u \in Threads : u # t => pc'[u] = pc[u]
    BY <1>1, <1>7
  <2>2. v \in Versions /\ version'[t] = v /\ version' \in [Threads -> Versions]
        /\ \A u \in Threads : u # t => version'[u] = version[u]
    BY <1>5, <1>7 DEF Negotiation, NegotiationTypeOK
  <2>3. NegotiationTypeOK'
    <3>1. pc' \in [Threads -> States]
      BY <1>1, <1>7, Zenon DEF States, Settling
    <3> QED
      BY <3>1, <1>1, <1>7, <2>2 DEF Negotiation, NegotiationTypeOK
  <2>4. Phases'
    BY <1>1, <1>2, <1>3, <1>7, <2>1 DEF Negotiation, Phases
  <2>5. OneSettles'
    BY <1>3, <1>7, <2>1, <2>2 DEF OneSettles, Settling
  <2>6. Found'
    BY <1>1, <1>4, <2>1, <2>2, Zenon DEF Negotiation, Found
  <2> QED
    BY <1>6, <2>3, <2>4, <2>5, <2>6 DEF Negotiation
<1>8. ASSUME notifySuccess, pc' = [pc EXCEPT ![t] = "ending"], checkFailed' = FALSE,
             UNCHANGED <<parentVersion, version>>
      PROVE  Negotiation'
  <2>1. pc'[t] = "ending" /\ \A u \in Threads : u # t => pc'[u] = pc[u]
    BY <1>1, <1>8
  <2>2. funnel' \in [status : {"START", "PROGRESS", "END"}, waiting : SUBSET Threads]
        /\ funnel'.status = "END"
    BY <1>8 DEF notifySuccess
  <2>3. NegotiationTypeOK'
    <3>1. pc' \in [Threads -> States]
      BY <1>1, <1>8, Zenon DEF States, Gathered
    <3> QED
      BY <3>1, <1>1, <1>8, <2>2 DEF Negotiation, NegotiationTypeOK
  <2>4. Phases'
    BY <1>1, <1>2, <1>3, <2>1, <2>2 DEF Phases, Gathered
  <2>5. OneSettles'
    BY <1>3, <2>1, <2>2 DEF OneSettles, Settling
  <2>6. Found'
    BY <1>1, <1>4, <1>8, <2>1, Zenon DEF Negotiation, Found
  <2> QED
    BY <1>6, <2>3, <2>4, <2>5, <2>6 DEF Negotiation
<1>9. \/ \E v \in Negotiated : /\ parentVersion' = v /\ version' = [version EXCEPT ![t] = v]
                               /\ pc' = [pc EXCEPT ![t] = "resolve"]
                               /\ UNCHANGED <<funnel, checkFailed>>
      \/ /\ notifySuccess /\ pc' = [pc EXCEPT ![t] = "ending"]
         /\ \E ok \in BOOLEAN : checkFailed' = (checkFailed \/ (ok /\ Negotiated = {}))
         /\ UNCHANGED <<parentVersion, version>>
  BY DEF settle
<1>10. (\E ok \in BOOLEAN : checkFailed' = (checkFailed \/ (ok /\ Negotiated = {})))
          => checkFailed' = FALSE
  BY <1>5, Zenon DEF Negotiation, NegotiationTypeOK
<1> QED
  BY <1>7, <1>8, <1>9, <1>10, Zenon

\* The settled version is published: from here on others may take it over.
LEMMA ResolveNegotiation ==
    ASSUME Negotiation, NEW t \in Threads, resolve(t)
    PROVE  Negotiation'
<1>1. /\ pc[t] = "resolve" /\ pc' = [pc EXCEPT ![t] = "clear"] /\ status' = "RESOLVED"
      /\ abortCode' = "VERSION_MISMATCH" => abortCode = "VERSION_MISMATCH"
      /\ UNCHANGED <<barrier, funnel, checkFailed, version, parentVersion, negotiated,
                     receiverVersion>>
      /\ pc \in [Threads -> States]
  BY DEF resolve, clearAbort, controllerVars, Negotiation, NegotiationTypeOK
<1>2. pc'[t] = "clear" /\ \A u \in Threads : u # t => pc'[u] = pc[u]
  BY <1>1
<1>3. barrier.isComplete /\ status = "FAILED"
  BY <1>1, PastBarrier, Zenon DEF Negotiation, Phases, Settling, NegotiationTypeOK
<1>4. /\ \A u \in Threads : u # t => pc[u] \in Gathered
      /\ \A u \in Threads : u # t => pc[u] \notin Settling
      /\ funnel.status = "PROGRESS" /\ version[t] = parentVersion
  BY <1>1, <1>3 DEF Negotiation, Phases, OneSettles, Settling
<1>5. NegotiationTypeOK'
  <2>1. pc' \in [Threads -> States]
    BY <1>1, Zenon DEF States, Settling
  <2> QED
    BY <2>1, <1>1 DEF Negotiation, NegotiationTypeOK
<1>6. BarrierCounts'
  BY <1>1, <1>3, CountsOver
<1>7. Phases'
  BY <1>1, <1>2, <1>3, <1>4 DEF Phases, Gathered
<1>8. OneSettles'
  BY <1>1, <1>2, <1>4 DEF OneSettles, Settling
<1>9. Found'
  <2>1. HasVersion' <=> HasVersion
    BY <1>1 DEF HasVersion
  <2> QED
    BY <1>1, <1>2, <2>1, Zenon DEF Negotiation, Found
<1> QED
  BY <1>5, <1>6, <1>7, <1>8, <1>9 DEF Negotiation

\* The thread that settled the version goes on with it.
LEMMA ResolvedNegotiation ==
    ASSUME Negotiation, NEW t \in Threads, resolved(t)
    PROVE  Negotiation'
<1>1. /\ pc[t] = "clear" /\ GoTo(t, "connect") /\ pc \in [Threads -> States]
      /\ funnel' = [status |-> "END", waiting |-> {}]
      /\ UNCHANGED <<barrier, checkFailed, status, version, parentVersion, negotiated, abortCode,
                     receiverVersion>>
  BY DEF resolved, notifySuccess, Negotiation, NegotiationTypeOK
<1>2. PICK x \in {"connect", "mismatch", "ending"} :
          /\ pc' = [pc EXCEPT ![t] = x]
          /\ x = "mismatch" => abortCode = "VERSION_MISMATCH"
  BY <1>1, GoToState
<1>3. pc'[t] = x /\ \A u \in Threads : u # t => pc'[u] = pc[u]
  BY <1>1, <1>2
<1>4. barrier.isComplete /\ status = "RESOLVED"
  BY <1>1, PastBarrier, Zenon DEF Negotiation, Phases, Settling, Gathered, NegotiationTypeOK
<1>5. /\ \A u \in Threads : u # t => pc[u] \notin Settling
      /\ \A u \in Threads : pc[u] \in Gathered \/ version[u] = parentVersion
      /\ version[t] = parentVersion
  BY <1>1, <1>4 DEF Negotiation, Phases, OneSettles, Settling, Gathered
<1>6. funnel' \in [status : {"START", "PROGRESS", "END"}, waiting : SUBSET Threads]
      /\ funnel'.status = "END"
  BY <1>1
<1>7. NegotiationTypeOK'
  <2>1. pc' \in [Threads -> States]
    BY <1>1, <1>2, Zenon DEF States, Gathered, Working
  <2> QED
    BY <2>1, <1>1, <1>6 DEF Negotiation, NegotiationTypeOK
<1>8. BarrierCounts'
  BY <1>1, <1>4, CountsOver
<1>9. Phases'
  BY <1>1, <1>3, <1>4, <1>5, <1>6, Zenon DEF Negotiation, Phases
<1>10. OneSettles'
  BY <1>3, <1>5, <1>6 DEF OneSettles, Settling
<1>11. Found'
  <2>1. HasVersion' <=> HasVersion
    BY <1>1 DEF HasVersion
  <2> QED
    BY <1>1, <1>2, <1>3, <2>1, Zenon DEF Negotiation, Found
<1> QED
  BY <1>7, <1>8, <1>9, <1>10, <1>11 DEF Negotiation

\* The others leave the funnel with the settled version, or end.
LEMMA FunnelEndNegotiation ==
    ASSUME Negotiation, NEW t \in Threads, funnelEnd(t)
    PROVE  Negotiation'
<1>1. /\ pc[t] = "funnel" /\ funnel.status = "END" /\ UNCHANGED funnel
      /\ UNCHANGED <<barrier, status, parentVersion, negotiated, abortCode, receiverVersion>>
      /\ pc \in [Threads -> States] /\ version \in [Threads -> Versions] /\ parentVersion \in Versions
  BY DEF funnelEnd, funnelStatus, Negotiation, NegotiationTypeOK
<1>2. barrier.isComplete /\ status # "WAIT" /\ checkFailed' = FALSE
  BY <1>1, PastBarrier, Zenon DEF Negotiation, Phases, NegotiationTypeOK, funnelEnd
<1>3. \A u \in Threads : pc[u] \notin Settling
  BY <1>1 DEF Negotiation, OneSettles
<1>4. ASSUME NEW x \in {"connect", "mismatch", "ending"}, pc' = [pc EXCEPT ![t] = x],
             x = "mismatch" => abortCode = "VERSION_MISMATCH",
             version' \in [Threads -> Versions],
             \A u \in Threads : u # t => version'[u] = version[u],
             x = "ending" \/ (status = "RESOLVED" /\ version'[t] = parentVersion)
      PROVE  Negotiation'
  <2>1. pc'[t] = x /\ \A u \in Threads : u # t => pc'[u] = pc[u]
    BY <1>1, <1>4
  <2>2. NegotiationTypeOK'
    <3>1. pc' \in [Threads -> States]
      BY <1>1, <1>4, Zenon DEF States, Gathered, Working
    <3> QED
      BY <3>1, <1>1, <1>2, <1>4 DEF Negotiation, NegotiationTypeOK
  <2>3. BarrierCounts'
    BY <1>1, <1>2, CountsOver
  <2>4. Phases'
    <3>1. status' = "FAILED" => \A u \in Threads : pc'[u] \in Gathered \cup {"settle", "resolve"}
      BY <1>1, <1>4, <2>1 DEF Negotiation, Phases, Gathered
    <3>2. status' = "RESOLVED" =>
             \A u \in Threads : /\ pc'[u] \notin {"settle", "resolve"}
                                /\ pc'[u] \in Gathered \/ version'[u] = parentVersion
      BY <1>1, <1>4, <2>1 DEF Negotiation, Phases, Gathered
    <3> QED
      BY <1>1, <1>2, <3>1, <3>2 DEF Negotiation, Phases
  <2>5. OneSettles'
    BY <1>3, <1>4, <2>1 DEF OneSettles, Settling
  <2>6. Found'
    <3>1. HasVersion' <=> HasVersion
      BY <1>1 DEF HasVersion
    <3> QED
      BY <1>1, <1>4, <2>1, <3>1, Zenon DEF Negotiation, Found
  <2> QED
    BY <2>2, <2>3, <2>4, <2>5, <2>6 DEF Negotiation
<1>5. CASE status = "RESOLVED"
  <2>1. version' = [version EXCEPT ![t] = parentVersion] /\ GoTo(t, "connect")
    BY <1>5 DEF funnelEnd
  <2>2. PICK x \in {"connect", "mismatch", "ending"} :
            /\ pc' = [pc EXCEPT ![t] = x]
            /\ x = "mismatch" => abortCode = "VERSION_MISMATCH"
    BY <2>1, GoToState
  <2>3. /\ version' \in [Threads -> Versions] /\ version'[t] = parentVersion
        /\ \A u \in Threads : u # t => version'[u] = version[u]
    BY <1>1, <2>1
  <2> QED
    BY <1>4, <1>5, <2>2, <2>3, Zenon
<1>6. CASE status # "RESOLVED"
  <2>1. UNCHANGED version /\ pc' = [pc EXCEPT ![t] = "ending"]
    BY <1>6 DEF funnelEnd, GoTo
  <2> QED
    BY <1>1, <1>4, <2>1
<1> QED
  BY <1>5, <1>6
----------------------------------------------------------------------------
\* Nothing that the invariant is about changes, but who waits in the funnel or
\* the reason of an abort.
LEMMA SameNegotiation ==
    ASSUME Negotiation,
           UNCHANGED <<barrier, checkFailed, pc, version, negotiated, parentVersion, status,
                       receiverVersion>>,
           funnel' \in [status : {"START", "PROGRESS", "END"}, waiting : SUBSET Threads],
           funnel'.status = funnel.status,
           abortCode' = "VERSION_MISMATCH" => abortCode = "VERSION_MISMATCH"
    PROVE  Negotiation'
<1>1. NegotiationTypeOK'
  BY DEF Negotiation, NegotiationTypeOK
<1>2. BarrierCounts'
  BY DEF Negotiation, BarrierCounts, Registered, AtBarrier
<1>3. Phases' /\ OneSettles'
  BY Zenon DEF Negotiation, Phases, OneSettles
<1>4. Found'
  BY Zenon DEF Negotiation, Found, HasVersion
<1> QED
  BY <1>1, <1>2, <1>3, <1>4 DEF Negotiation

LEMMA NextNegotiation ==
    ASSUME NegotiationAssumption, Negotiation, [Next]_vars
    PROVE  Negotiation'
<1>f. funnel \in [status : {"START", "PROGRESS", "END"}, waiting : SUBSET Threads]
  BY DEF Negotiation, NegotiationTypeOK
<1>1. CASE UNCHANGED vars
  BY <1>1, <1>f, SameNegotiation DEF vars, controllerVars, negotiationVars
<1>2. CASE applicationAborts
  BY <1>2, <1>f, SameNegotiation DEF applicationAborts, abort, controllerVars
<1>3. ASSUME NEW t \in Threads, funnelProgress(t) \/ wakeUp(t) PROVE Negotiation'
  <2>1. /\ funnel' \in [status : {"START", "PROGRESS", "END"}, waiting : SUBSET Threads]
        /\ funnel'.status = funnel.status
    BY <1>3, <1>f DEF funnelProgress, wakeUp, funnelWait, funnelSpurious
  <2> QED
    BY <1>3, <2>1, SameNegotiation DEF funnelProgress, wakeUp, negotiationVars
<1>4. ASSUME NEW t \in Threads, start(t) PROVE Negotiation'
  <2>1. /\ pc[t] \in Working /\ "connect" \in Working \ {"abort cmd", "mismatch"}
        /\ GoTo(t, "connect") \/ pc' = [pc EXCEPT ![t] = "no buffer"]
        /\ UNCHANGED <<barrier, funnel, status, checkFailed, version, parentVersion, negotiated,
                       abortCode, receiverVersion>>
    BY <1>4, Zenon DEF start, Working
  <2>2. CASE pc' = [pc EXCEPT ![t] = "no buffer"]
    <3>1. receiverVersion' \in [Threads -> Versions] /\ negotiated' \in [Threads -> Versions]
      BY <2>1, Zenon DEF Negotiation, NegotiationTypeOK
    <3>2. HasVersion' <=> HasVersion
      BY <2>1, Zenon DEF HasVersion
    <3>3. abortCode' = "VERSION_MISMATCH" => HasVersion'
      BY <2>1, <3>2, Zenon DEF Negotiation, Found
    <3> QED
      BY <2>1, <2>2, <3>1, <3>2, <3>3, Works, Zenon
  <2> QED
    BY <2>1, <2>2, GoesOn, Zenon
<1>5. ASSUME NEW t \in Threads, connect(t) PROVE Negotiation'
  <2>1. pc[t] \in Working /\ "settings" \in Working \ {"abort cmd", "mismatch"}
    BY <1>5 DEF connect, Working
  <2> QED
    BY <1>5, <2>1, GoesOn, Zenon DEF connect, controllerVars
<1>6. ASSUME NEW t \in Threads, acknowledge(t) \/ reconnect(t) \/ \E b \in Blocks : sendBlock(t, b)
      PROVE  Negotiation'
  <2>1. /\ pc[t] \in Working
        /\ {"sending", "connect"} \subseteq Working \ {"abort cmd", "mismatch"}
        /\ UNCHANGED <<barrier, funnel, status, checkFailed, version, parentVersion, negotiated,
                       abortCode, receiverVersion>>
    BY <1>6, Zenon DEF acknowledge, reconnect, sendBlock, Working, controllerVars
  <2>2. GoTo(t, "sending") \/ GoTo(t, "connect") \/ GoTo(t, "ending")
    BY <1>6 DEF acknowledge, reconnect, sendBlock
  <2> QED
    BY <2>1, <2>2, GoesOn, Zenon
<1> QED
  BY <1>1, <1>2, <1>3, <1>4, <1>5, <1>6, SettingsNegotiation, AbortNegotiation,
     IncompatibleNegotiation, HitNegotiation, PassNegotiation, StartNegotiation,
     SettleNegotiation, ResolveNegotiation, ResolvedNegotiation, FunnelEndNegotiation,
     EndNegotiation
     DEF Next, Step

\* The phases are kept, whatever threads end, lose their connection or are
\* aborted meanwhile.
THEOREM NegotiationTheorem ==
    ASSUME NegotiationAssumption
    PROVE  Spec => []Negotiation
<1>1. Init => Negotiation
  BY InitNegotiation
<1>2. Negotiation /\ [Next]_vars => Negotiation'
  BY NextNegotiation
<1> QED
  BY <1>1, <1>2, PTL DEF Spec

\* No check of WDT fails in a negotiation: the barrier is hit by no more threads
\* than it counts and never again once it was passed, no thread comes to a
\* negotiation that failed, and the thread that settles the version finds one.
THEOREM ChecksTheorem ==
    ASSUME NegotiationAssumption
    PROVE  Spec => []ChecksHold
<1>1. Negotiation => ChecksHold
  BY DEF Negotiation, NegotiationTypeOK, ChecksHold
<1> QED
  BY <1>1, NegotiationTheorem, PTL

\* Threads that go on after a negotiation use the version that was settled.
THEOREM OneVersionTheorem ==
    ASSUME NegotiationAssumption
    PROVE  Spec => []OneVersion
<1>1. Negotiation => OneVersion
  BY DEF Negotiation, Phases, Gathered, OneVersion
<1> QED
  BY <1>1, NegotiationTheorem, PTL
=============================================================================
