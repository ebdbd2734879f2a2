------------------------- MODULE VersionNegotiation -------------------------
(***************************************************************************)
(* How the threads of a sender agree on an older protocol version.  A      *)
(* receiver thread that gets settings of another version answers with      *)
(* ABORT(VERSION_MISMATCH, its version); every sender thread then meets    *)
(* the others at a barrier, one of them settles the version in a funnel    *)
(* and all start again.  The rest of a thread's life is "sending": blocks  *)
(* are taken, sent, acknowledged.  The application can abort at any time.  *)
(***************************************************************************)
EXTENDS ThreadsController

CONSTANTS
    SenderVersion,     \* protocol version of the sender process
    ReceiverVersions,  \* protocol versions a receiver thread may have
    ChecksumVersion,   \* CHECKSUM_VERSION
    MinVersion,        \* versions below are not handled (negotiateProtocol)
    Blocks,            \* blocks of the transfer
    BufferFails        \* whether the buffer of a thread may fail to be allocated

\* WdtBase::negotiateProtocol makes a version that is not handled 0.
NegotiationAssumption ==
    /\ ThreadsAssumption
    /\ MinVersion \in Nat \ {0}
    /\ \A v \in ReceiverVersions \cup {SenderVersion} : v \in Nat /\ (v = 0 \/ v >= MinVersion)

VARIABLES
    pc,                \* pc[t]: the state of sender thread t
    version,           \* threadProtocolVersion_
    footer,            \* footerType_ = CHECKSUM_FOOTER
    negotiated,        \* negotiatedProtocol_, 0 if none
    parentVersion,     \* getProtocolVersion() of the Sender
    status,            \* protoNegotiationStatus_
    abortCode,         \* abortCode_
    receiverVersion,   \* threadProtocolVersion_ of the receiver thread of t
    queue, unacked, acked   \* blocks to send, sent by t, acknowledged to t

negotiationVars == <<pc, version, footer, negotiated, parentVersion, status, abortCode,
                     receiverVersion, queue, unacked, acked>>
vars == <<controllerVars, negotiationVars>>

\* SenderThread::setFooterType, with checksums enabled.
FooterFor(v) == v >= ChecksumVersion

negotiateProtocol(requested, current) ==
    IF requested < MinVersion THEN 0
    ELSE IF current < requested THEN current ELSE requested

Init == /\ ControllerInit
        /\ pc = [t \in Threads |-> "start"]
        /\ version = [t \in Threads |-> SenderVersion]
        /\ footer = [t \in Threads |-> FALSE]
        /\ negotiated = [t \in Threads |-> 0]
        /\ parentVersion = SenderVersion
        /\ status = "WAIT"
        /\ abortCode = "OK"
        /\ receiverVersion \in [Threads -> ReceiverVersions]
        /\ queue = Blocks
        /\ unacked = [t \in Threads |-> {}]
        /\ acked = [t \in Threads |-> {}]
-----------------------------------------------------------------------------
\* A state function returns s; the loop of start() looks at the abort code first.
GoTo(t, s) ==
    pc' = [pc EXCEPT ![t] =
              IF s \in {"ending", "barrier", "funnel"} THEN s
              ELSE IF abortCode = "OK" THEN s
              ELSE IF abortCode = "VERSION_MISMATCH" THEN "mismatch" ELSE "ending"]

\* The beginning of SenderThread::start; a thread without a buffer just returns.
start(t) ==
    /\ pc[t] = "start"
    /\ \/ /\ GoTo(t, "connect")
          /\ footer' = [footer EXCEPT ![t] = FooterFor(parentVersion)]
          /\ \E runs \in BOOLEAN : executeAtStart(runs)
       \/ /\ BufferFails
          /\ pc' = [pc EXCEPT ![t] = "no buffer"]
          /\ UNCHANGED <<footer, startHits>>
    /\ UNCHANGED <<threadState, barrier, funnel, endHits, checkFailed, version, negotiated,
                   parentVersion, status, abortCode, receiverVersion, queue, unacked, acked>>

\* connect: a failure ends the thread, the abort checker stops the attempt.
connect(t) ==
    /\ pc[t] = "connect"
    /\ \/ GoTo(t, "settings") \/ GoTo(t, "ending")
    /\ UNCHANGED <<controllerVars, version, footer, negotiated, parentVersion, status, abortCode,
                   receiverVersion, queue, unacked, acked>>

\* sendSettings, and processSettingsCmd of the receiver: the versions are the
\* same, or an ABORT comes back, with VERSION_INCOMPATIBLE or with VERSION_MISMATCH
\* and the version the receiver now has.
sendSettings(t) ==
    /\ pc[t] = "settings"
    /\ LET n == negotiateProtocol(version[t], receiverVersion[t]) IN
       /\ receiverVersion' = [receiverVersion EXCEPT ![t] = IF n = 0 THEN @ ELSE n]
       /\ GoTo(t, IF version[t] = receiverVersion[t] \/ (n # 0 /\ n = version[t]) THEN "sending"
                  ELSE IF n = 0 THEN "incompatible" ELSE "abort cmd")
    /\ UNCHANGED <<controllerVars, version, footer, negotiated, parentVersion, status, abortCode,
                   queue, unacked, acked>>

\* The blocks: sent, acknowledged, or the thread is done, or it lost its
\* connection and starts again.
sendBlock(t, b) ==
    /\ pc[t] = "sending"
    /\ b \in queue
    /\ queue' = queue \ {b}
    /\ unacked' = [unacked EXCEPT ![t] = @ \cup {b}]
    /\ GoTo(t, "sending")
    /\ UNCHANGED <<controllerVars, version, footer, negotiated, parentVersion, status, abortCode,
                   receiverVersion, acked>>

acknowledge(t) ==
    /\ pc[t] = "sending"
    /\ acked' = [acked EXCEPT ![t] = @ \cup unacked[t]]
    /\ unacked' = [unacked EXCEPT ![t] = {}]
    /\ GoTo(t, IF queue = {} THEN "ending" ELSE "sending")
    /\ UNCHANGED <<controllerVars, version, footer, negotiated, parentVersion, status, abortCode,
                   receiverVersion, queue>>

reconnect(t) ==
    /\ pc[t] = "sending"
    /\ GoTo(t, "connect")
    /\ UNCHANGED <<controllerVars, version, footer, negotiated, parentVersion, status, abortCode,
                   receiverVersion, queue, unacked, acked>>

\* WdtBase::abort and clearAbort.
abort(code) == abortCode' = IF code = "VERSION_MISMATCH" /\ abortCode # "OK" THEN abortCode ELSE code
clearAbort == abortCode' = IF abortCode = "VERSION_MISMATCH" THEN "OK" ELSE abortCode

applicationAborts ==
    /\ abort("ABORTED_BY_APPLICATION")
    /\ abortCode' # abortCode
    /\ UNCHANGED <<controllerVars, pc, version, footer, negotiated, parentVersion, status,
                   receiverVersion, queue, unacked, acked>>

\* processAbortCmd: the whole sender is told before the version is looked at.
processAbortCmd(t) ==
    /\ pc[t] = "abort cmd"
    /\ abort("VERSION_MISMATCH")
    /\ IF negotiateProtocol(receiverVersion[t], version[t]) = receiverVersion[t]
         THEN /\ negotiated' = [negotiated EXCEPT ![t] = receiverVersion[t]]
              /\ pc' = [pc EXCEPT ![t] = IF abortCode' = "VERSION_MISMATCH" THEN "mismatch" ELSE "ending"]
         ELSE /\ UNCHANGED negotiated
              /\ pc' = [pc EXCEPT ![t] = "ending"]
    /\ UNCHANGED <<controllerVars, version, footer, parentVersion, status, receiverVersion,
                   queue, unacked, acked>>

\* processAbortCmd, for an ABORT with VERSION_INCOMPATIBLE.
processIncompatible(t) ==
    /\ pc[t] = "incompatible"
    /\ abort("VERSION_INCOMPATIBLE")
    /\ pc' = [pc EXCEPT ![t] = "ending"]
    /\ UNCHANGED <<controllerVars, version, footer, negotiated, parentVersion, status,
                   receiverVersion, queue, unacked, acked>>
-----------------------------------------------------------------------------
\* processVersionMismatch up to the barrier.
processVersionMismatch(t) ==
    /\ pc[t] = "mismatch"
    /\ IF status = "WAIT"
         THEN barrierHit /\ GoTo(t, "barrier")
         ELSE /\ checkFailed' = (checkFailed \/ status = "FAILED")
              /\ GoTo(t, "ending") /\ UNCHANGED barrier
    /\ UNCHANGED <<threadState, funnel, startHits, endHits, version, footer, negotiated,
                   parentVersion, status, abortCode, receiverVersion, queue, unacked, acked>>

passBarrier(t) ==
    /\ pc[t] = "barrier"
    /\ barrierPassed
    /\ GoTo(t, "funnel")
    /\ UNCHANGED <<controllerVars, version, footer, negotiated, parentVersion, status, abortCode,
                   receiverVersion, queue, unacked, acked>>

\* The thread that gets FUNNEL_START settles the version.
funnelStart(t) ==
    /\ pc[t] = "funnel" /\ funnelAwake(t)
    /\ funnelStatus("START")
    /\ status' = "FAILED"
    /\ pc' = [pc EXCEPT ![t] = "settle"]
    /\ UNCHANGED <<threadState, barrier, startHits, endHits, checkFailed, version, footer,
                   negotiated, parentVersion, abortCode, receiverVersion, queue, unacked, acked>>

\* handleVersionMismatch: nothing may have been acknowledged; what was sent
\* goes back to the queue.
handleVersionMismatch(ok) ==
    /\ ok = (\A t \in Threads : acked[t] = {})
    /\ IF ok THEN /\ queue' = queue \cup UNION {unacked[t] : t \in Threads}
                  /\ unacked' = [t \in Threads |-> {}]
       ELSE \E first \in SUBSET {t \in Threads : acked[t] = {}} :  \* histories before the first acked one
              /\ queue' = queue \cup UNION {unacked[t] : t \in first}
              /\ unacked' = [t \in Threads |-> IF t \in first THEN {} ELSE unacked[t]]

Negotiated == {negotiated[t] : t \in Threads} \ {0}

settle(t) ==
    /\ pc[t] = "settle"
    /\ \E ok \in BOOLEAN :
         /\ handleVersionMismatch(ok)
         /\ IF ok /\ Cardinality(Negotiated) = 1
              THEN \E v \in Negotiated :
                     /\ parentVersion' = v
                     /\ version' = [version EXCEPT ![t] = v]
                     /\ footer' = [footer EXCEPT ![t] = FooterFor(v)]
                     /\ pc' = [pc EXCEPT ![t] = "resolve"]
                     /\ UNCHANGED <<funnel, checkFailed>>
              ELSE /\ notifySuccess
                   /\ pc' = [pc EXCEPT ![t] = "ending"]
                   /\ checkFailed' = (checkFailed \/ (ok /\ Negotiated = {}))
                   /\ UNCHANGED <<parentVersion, version, footer>>
    /\ UNCHANGED <<threadState, barrier, startHits, endHits, negotiated, status, abortCode,
                   receiverVersion, acked>>

resolve(t) ==
    /\ pc[t] = "resolve"
    /\ status' = "RESOLVED"
    /\ clearAbort
    /\ pc' = [pc EXCEPT ![t] = "clear"]
    /\ UNCHANGED <<controllerVars, version, footer, negotiated, parentVersion, receiverVersion,
                   queue, unacked, acked>>

resolved(t) ==
    /\ pc[t] = "clear"
    /\ notifySuccess
    /\ GoTo(t, "connect")
    /\ UNCHANGED <<threadState, barrier, startHits, endHits, checkFailed, version, footer,
                   negotiated, parentVersion, status, abortCode, receiverVersion, queue,
                   unacked, acked>>

\* The others wait, and take over the version; not the footer.
funnelProgress(t) ==
    /\ pc[t] = "funnel" /\ funnelAwake(t)
    /\ funnel.status = "PROGRESS"
    /\ funnelWait(t)
    /\ UNCHANGED <<threadState, barrier, startHits, endHits, checkFailed, negotiationVars>>

wakeUp(t) ==
    /\ pc[t] = "funnel"
    /\ funnelSpurious(t)
    /\ UNCHANGED <<threadState, barrier, startHits, endHits, checkFailed, negotiationVars>>

\* Mutation of funnelEnd: the version is not taken over.
funnelEndKeepsVersion(t) ==
    /\ pc[t] = "funnel" /\ funnelAwake(t)
    /\ funnelStatus("END")
    /\ GoTo(t, IF status = "RESOLVED" THEN "connect" ELSE "ending")
    /\ UNCHANGED <<threadState, barrier, startHits, endHits, checkFailed, version, footer,
                   negotiated, parentVersion, status, abortCode, receiverVersion, queue,
                   unacked, acked>>

funnelEnd(t) ==
    /\ pc[t] = "funnel" /\ funnelAwake(t)
    /\ funnelStatus("END")
    /\ checkFailed' = (checkFailed \/ status = "WAIT")
    /\ IF status = "RESOLVED"
         THEN version' = [version EXCEPT ![t] = parentVersion] /\ GoTo(t, "connect")
         ELSE UNCHANGED version /\ GoTo(t, "ending")
    /\ UNCHANGED <<threadState, barrier, startHits, endHits, footer, negotiated, parentVersion,
                   status, abortCode, receiverVersion, queue, unacked, acked>>

\* The end of SenderThread::start.
end(t) ==
    /\ pc[t] = "ending"
    /\ deRegisterThread(t)
    /\ \E runs \in BOOLEAN : executeAtEnd(runs)
    /\ pc' = [pc EXCEPT ![t] = "end"]
    /\ UNCHANGED <<funnel, startHits, version, footer, negotiated, parentVersion, status,
                   abortCode, receiverVersion, queue, unacked, acked>>
-----------------------------------------------------------------------------
Step(t) ==
    \/ start(t) \/ connect(t) \/ sendSettings(t)
    \/ acknowledge(t) \/ \E b \in Blocks : sendBlock(t, b)
    \/ processAbortCmd(t) \/ processIncompatible(t) \/ processVersionMismatch(t) \/ passBarrier(t)
    \/ funnelStart(t) \/ settle(t) \/ resolve(t) \/ resolved(t)
    \/ funnelProgress(t) \/ funnelEnd(t) \/ end(t)

Next == ~checkFailed /\ (applicationAborts \/ \E t \in Threads : Step(t) \/ reconnect(t) \/ wakeUp(t))

\* Threads are scheduled; neither the application's abort nor a wake-up
\* without a notification is ever promised, and a thread that keeps losing its
\* connection gives up at last (max_transfer_retries).
Spec == Init /\ [][Next]_vars
        /\ \A t \in Threads : WF_vars(~checkFailed /\ Step(t))
-----------------------------------------------------------------------------
\* No WDT_CHECK on the way of a version mismatch fails: the barrier is not hit
\* after it was passed, no thread begins a negotiation that has failed, the
\* funnel has an outcome and a version when it ends (processVersionMismatch).
ChecksHold == ~checkFailed

\* Threads that go on after a negotiation all use the version that was settled,
\* and what they send settings with is what their receiver will accept.
OneVersion ==
    \A t \in Threads : (status = "RESOLVED" /\ pc[t] \in {"settings", "sending"}) =>
                         version[t] = parentVersion

\* An abort by the application, or because the versions are incompatible, is
\* never lost, although a negotiation in progress sets the abort code (abort)
\* and clears it (clearAbort).
Mild == {"OK", "VERSION_MISMATCH"}
KeepsAbort == abortCode \notin Mild => abortCode' \notin Mild
ApplicationAbortStays == [][KeepsAbort]_vars

\* Every thread that starts to process a version mismatch gets out of it: the
\* barrier and the funnel let it go, whatever the other threads do meanwhile.
NegotiationEnds ==
    \A t \in Threads : pc[t] \in {"barrier", "funnel"} ~> (pc[t] \notin {"barrier", "funnel"} \/ checkFailed)

\* A thread sends the footer its protocol version knows: a receiver older than
\* CHECKSUM_VERSION is sent none (setFooterType).
FooterMatchesVersion ==
    \A t \in Threads : pc[t] = "sending" => (footer[t] => FooterFor(version[t]))
=============================================================================
