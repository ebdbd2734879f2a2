----------------------------- MODULE MCSessions -----------------------------
(***************************************************************************)
(* The threads of a transfer that have to meet: the sessions of a Sender   *)
(* and of a Receiver, the negotiation of a protocol version and the        *)
(* hand-over of the receiver's list, each with a ThreadsController.  Every *)
(* behaviour is one of a part, in one instance of it, which alone has the  *)
(* variables; those that the part does not know are not used.              *)
(***************************************************************************)
EXTENDS Naturals

VARIABLES part,
          threadState, barrier, funnel, startHits, endHits, checkFailed,
          pc, abortCode,
          call, next, instanceLock, joining, transferStatus, throttled, reporter,
          discovery, found, queued, reporting, joinFailed,
          main, round, localError, attempts, started, checkpoints, checkpointIndex,
          pendingCheckpointIndex, sent, tracker,
          version, footer, negotiated, parentVersion, status, receiverVersion, queue, unacked,
          acked,
          files, resuming, s, r, link, received, applied, dequeued, headers, invalidated, early,
          breaks

controllerVars == <<threadState, barrier, funnel, startHits, endHits, checkFailed>>
threadVars == <<pc, abortCode>>
callVars == <<call, next, instanceLock, joining, transferStatus, throttled, reporter>>
senderVars == <<discovery, found, queued, reporting, joinFailed>>
receiverVars == <<main, round, localError, attempts, started, checkpoints, checkpointIndex,
                  pendingCheckpointIndex, sent, tracker>>
versionVars == <<version, footer, negotiated, parentVersion, status, receiverVersion, queue,
                 unacked, acked>>
listVars == <<files, resuming, s, r, link, received, applied, dequeued, headers, invalidated,
              early, breaks>>
sessionsVars == <<part, controllerVars, threadVars, callVars, senderVars, receiverVars,
                  versionVars, listVars>>

\* Sender: overlapping calls; discovery before sending; and, for liveness, one
\* call, with discovery that ends by itself and with one that does not.
Sender == INSTANCE SenderSession WITH
    Threads <- {1, 2}, Callers <- {"a", "b"}, Destructor <- "destructor", Overlap <- FALSE,
    TwoPhases <- FALSE, Reports <- TRUE, BufferFails <- TRUE, Endless <- FALSE, MaxSources <- 2
Phases == INSTANCE SenderSession WITH
    Threads <- {1, 2, 3}, Callers <- {"a"}, Destructor <- "destructor", Overlap <- TRUE,
    TwoPhases <- TRUE, Reports <- TRUE, BufferFails <- FALSE, Endless <- FALSE, MaxSources <- 2
OneCall == INSTANCE SenderSession WITH
    Threads <- {1, 2}, Callers <- {"a"}, Destructor <- "destructor", Overlap <- FALSE,
    TwoPhases <- FALSE, Reports <- TRUE, BufferFails <- FALSE, Endless <- FALSE, MaxSources <- 1
Unending == INSTANCE SenderSession WITH
    Threads <- {1, 2}, Callers <- {"a"}, Destructor <- "destructor", Overlap <- FALSE,
    TwoPhases <- FALSE, Reports <- TRUE, BufferFails <- FALSE, Endless <- TRUE, MaxSources <- 1

\* Receiver: one transfer with two calls of finish(); transfers without end; and,
\* for liveness, one call.
Once == INSTANCE ReceiverSessions WITH
    Threads <- {1, 2}, Joinable <- TRUE, Finishers <- {"a", "b"}, Destructor <- "destructor",
    MaxAcceptRetries <- 1, MaxRounds <- 1, Reports <- TRUE, BufferFails <- TRUE
Forever == INSTANCE ReceiverSessions WITH
    Threads <- {1, 2}, Joinable <- FALSE, Finishers <- {"a"}, Destructor <- "destructor",
    MaxAcceptRetries <- 0, MaxRounds <- 2, Reports <- TRUE, BufferFails <- FALSE
OneFinish == INSTANCE ReceiverSessions WITH
    Threads <- {1, 2}, Joinable <- TRUE, Finishers <- {"a"}, Destructor <- "destructor",
    MaxAcceptRetries <- 0, MaxRounds <- 1, Reports <- TRUE, BufferFails <- FALSE

\* Versions: three threads with a receiver that is older; and two, for liveness,
\* with a receiver that is older, or not, or whose version the sender does not
\* handle (0), and a block more.
Three == INSTANCE VersionNegotiation WITH
    Threads <- {1, 2, 3}, SenderVersion <- 30, ReceiverVersions <- {11},
    ChecksumVersion <- 12, MinVersion <- 10, Blocks <- {1}, BufferFails <- FALSE
Two == INSTANCE VersionNegotiation WITH
    Threads <- {1, 2}, SenderVersion <- 30, ReceiverVersions <- {0, 20, 30},
    ChecksumVersion <- 12, MinVersion <- 10, Blocks <- {1, 2}, BufferFails <- FALSE

\* The list: frames of ten bytes, so that two entries take one frame or two, and
\* one of nine bytes does not fit; and, for liveness, one entry that fits.
List == INSTANCE ChunksExchange WITH
    Threads <- {1, 2}, Lengths <- {3, 7, 9}, Slack <- 1, MaxFiles <- 2, BufSize <- 10,
    Prefix <- 2, MaxRetries <- 2, MaxBreaks <- 1, Cap <- 2

ShortList == INSTANCE ChunksExchange WITH
    Threads <- {1, 2}, Lengths <- {7}, Slack <- 1, MaxFiles <- 1, BufSize <- 10,
    Prefix <- 2, MaxRetries <- 2, MaxBreaks <- 1, Cap <- 2

ASSUME /\ Sender!SessionAssumption /\ Phases!SessionAssumption
       /\ Once!SessionAssumption /\ Forever!SessionAssumption /\ List!ChunksAssumption
       /\ Three!NegotiationAssumption /\ Two!NegotiationAssumption

\* The value of a variable that the part does not have.
Unused == "unused"

NoThreads == pc = [t \in {1, 2} |-> Unused] /\ abortCode = Unused
NoCalls == /\ call = [c \in {"a", "destructor"} |-> Unused] /\ next = Unused /\ instanceLock = Unused /\ joining = Unused
           /\ transferStatus = Unused /\ throttled = Unused /\ reporter = Unused
NoSender == /\ discovery = Unused /\ found = Unused /\ queued = Unused /\ reporting = Unused
            /\ joinFailed = Unused
NoReceiver == /\ main = Unused /\ round = Unused /\ localError = Unused /\ attempts = Unused
              /\ started = Unused /\ checkpoints = Unused /\ checkpointIndex = Unused
              /\ pendingCheckpointIndex = Unused /\ sent = Unused /\ tracker = Unused
NoVersions == /\ version = Unused /\ footer = Unused /\ negotiated = Unused
              /\ parentVersion = Unused /\ status = Unused /\ receiverVersion = Unused
              /\ queue = Unused /\ unacked = Unused /\ acked = Unused
NoList == /\ files = Unused /\ resuming = Unused /\ s = [t \in {1, 2} |-> [pc |-> Unused]] /\ r = Unused /\ link = Unused
          /\ received = Unused /\ applied = Unused /\ dequeued = Unused /\ headers = Unused
          /\ invalidated = Unused /\ early = Unused /\ breaks = Unused

SessionsInit ==
    \/ /\ \/ part = "sender" /\ Sender!Init
          \/ part = "two phases" /\ Phases!Init
          \/ part = "one call" /\ OneCall!Init
          \/ part = "unending" /\ Unending!Init
       /\ NoReceiver /\ NoVersions /\ NoList
    \/ /\ \/ part = "once" /\ Once!Init
          \/ part = "forever" /\ Forever!Init
          \/ part = "one finish" /\ OneFinish!Init
       /\ NoSender /\ NoVersions /\ NoList
    \/ /\ \/ part = "three" /\ Three!Init
          \/ part = "two" /\ Two!Init
       /\ NoCalls /\ NoSender /\ NoReceiver /\ NoList
    \/ /\ \/ part = "list" /\ List!Init
          \/ part = "short list" /\ ShortList!Init
       /\ NoThreads /\ NoCalls /\ NoSender /\ NoReceiver /\ NoVersions

SessionsNext ==
    /\ \/ /\ \/ part = "sender" /\ Sender!Next
             \/ part = "two phases" /\ Phases!Next
             \/ part = "one call" /\ OneCall!Next
             \/ part = "unending" /\ Unending!Next
          /\ UNCHANGED <<receiverVars, versionVars, listVars>>
       \/ /\ \/ part = "once" /\ Once!Next
             \/ part = "forever" /\ Forever!Next
             \/ part = "one finish" /\ OneFinish!Next
          /\ UNCHANGED <<senderVars, versionVars, listVars>>
       \/ /\ \/ part = "three" /\ Three!Next
             \/ part = "two" /\ Two!Next
          /\ UNCHANGED <<callVars, senderVars, receiverVars, listVars>>
       \/ /\ \/ part = "list" /\ List!Next
             \/ part = "short list" /\ ShortList!Next
          /\ UNCHANGED <<threadVars, callVars, senderVars, receiverVars, versionVars>>
    /\ UNCHANGED part

\* The fairness of SenderSession, ReceiverSessions, VersionNegotiation and
\* ChunksExchange, in the instances small enough for liveness.
senderPart == <<controllerVars, threadVars, callVars, senderVars>>
receiverPart == <<controllerVars, threadVars, callVars, receiverVars>>

OneCallFairness ==
    /\ WF_senderPart(part = "one call" /\ OneCall!discoveryEnds)
    /\ WF_senderPart(part = "one call" /\ OneCall!reporterWakes)
    /\ WF_senderPart(part = "one call" /\ OneCall!progress)
    /\ WF_senderPart(part = "one call" /\ OneCall!starting("a"))
    /\ \A t \in {1, 2} :
         WF_senderPart(/\ part = "one call" /\ (abortCode \/ pc[t] \in {"ending", "ended"})
                       /\ OneCall!thread(t))
    /\ \A c \in {"a", "destructor"} :
         /\ WF_senderPart(part = "one call" /\ OneCall!finish(c))
         /\ WF_senderPart(part = "one call" /\ OneCall!finishing(c))

UnendingFairness == WF_senderPart(part = "unending" /\ Unending!discoveryEnds)

OneFinishFairness ==
    /\ WF_receiverPart(part = "one finish" /\ OneFinish!startThread)
    /\ WF_receiverPart(part = "one finish" /\ OneFinish!startTracker)
    /\ WF_receiverPart(part = "one finish" /\ OneFinish!trackerWakes)
    /\ WF_receiverPart(part = "one finish" /\ OneFinish!trackerReports)
    /\ \A t \in {1, 2} :
         WF_receiverPart(part = "one finish" /\ abortCode /\ OneFinish!thread(t))
    /\ \A c \in {"a", "destructor"} :
         /\ WF_receiverPart(part = "one finish" /\ OneFinish!finish(c))
         /\ WF_receiverPart(/\ part = "one finish"
                            /\ \/ OneFinish!finishThread(c) \/ OneFinish!threadsJoined(c)
                               \/ OneFinish!joinTracker(c) \/ OneFinish!report(c))

SessionsSpec ==
    /\ SessionsInit /\ [][SessionsNext]_sessionsVars
    /\ OneCallFairness /\ UnendingFairness /\ OneFinishFairness
    /\ \A t \in {1, 2} :
         /\ WF_<<controllerVars, threadVars, versionVars>>(
                part = "two" /\ ~checkFailed /\ Two!Step(t))
         /\ WF_<<controllerVars, listVars>>(part = "short list" /\ ShortList!receiverStep(t))
         /\ WF_<<controllerVars, listVars>>(part = "short list" /\ ShortList!senderStep(t))
-----------------------------------------------------------------------------
\* finish() "can be called multiple times and is thread-safe": whoever calls that
\* of a Sender or of a Receiver, and however many do, no call joins a thread that
\* does not exist or has been joined, the report is made of threads that have all
\* ended and been joined, the discovery thread and the reporter included, and the
\* progress reporter gets progress() only between start() and end()
\* (reportProgress, progressTracker).
ReportIsFinal ==
    CASE part = "sender" -> /\ Sender!JoinsAreValid /\ Sender!ReportIsFinal
                            /\ Sender!ReporterInOrder
      [] part = "two phases" -> Phases!JoinsAreValid /\ Phases!ReportIsFinal
      [] part = "once" -> Once!ReportIsFinal /\ Once!ReporterInOrder
      [] OTHER -> TRUE

\* No WDT_CHECK of the threads that meet fails: every round of runForever() finds
\* the threads joined and the controller as new (Receiver::start, startThread,
\* finishWithError); the threads of a Sender are started once; and on the way of
\* a version mismatch no barrier is hit after it was passed and the funnel has an
\* outcome when it ends (processVersionMismatch).
ChecksHold ==
    CASE part = "one finish" -> OneFinish!ChecksHold
      [] part = "forever" -> Forever!ChecksHold
      [] part = "sender" -> Sender!StartedOnce
      [] part = "two phases" -> Phases!StartedOnce
      [] part = "three" -> Three!ChecksHold
      [] part = "two" -> Two!ChecksHold
      [] OTHER -> TRUE

\* A session leaves nothing to the next one: it is registered with the throttler
\* exactly once while its threads work and not when all have ended, and the
\* checkpoints that a Receiver's threads send were added in the round of their
\* own session (startNewGlobalSession, endCurGlobalSession, startNewTransfer,
\* endCurTransfer).
SessionsAreSeparate ==
    CASE part = "forever" -> Forever!CheckpointsOfThisSession /\ Forever!ThrottlerReleased
      [] part = "one finish" -> OneFinish!ThrottlerReleased
      [] part = "two phases" -> Phases!ThrottlerReleased
      [] part = "one call" -> OneCall!ThrottlerReleased
      [] OTHER -> TRUE

\* Threads that go on after a negotiation all use the version that was settled
\* (processVersionMismatch).
OneVersion ==
    CASE part = "three" -> Three!OneVersion
      [] part = "two" -> Two!OneVersion
      [] OTHER -> TRUE

\* What the source queue is rebuilt from (setPreviouslyReceivedChunks) is the
\* receiver's list, however it was cut into frames and however often a connection
\* broke while it was sent: every entry that fits into the buffer and no other,
\* and when all fit, each once and in order.  (An entry that does not fit is left
\* out by encodeFileChunksInfoList but counted by sendFileChunks, so that others
\* are sent twice, or the list is never complete.)  No sender thread ends
\* with PROTOCOL_ERROR on the way, the queue is not rebuilt once blocks have been
\* taken from it, and the log gets one header, only once the sender holds the
\* list (readFileChunks, processFileCmd).
ListArrivesWhole ==
    part = "list" => List!ListArrivesWhole /\ List!NoProtocolError /\ List!HeaderFollowsList

\* The destructor of a Sender and of a Receiver returns in every case, and
\* finish() once the transfer is aborted, though threads may be asleep in the
\* queue or waiting for a connection; and discovery stops when the transfer is
\* over, however much is left to discover (DirectorySourceQueue's abort checker).
CallsReturn ==
    /\ part \in {"one call", "one finish"} => OneCall!CallsReturn
    /\ part = "unending" => Unending!DiscoveryStops

\* Every thread that starts to process a version mismatch gets out of it,
\* whatever the other threads do meanwhile (processVersionMismatch), and every
\* thread that waits for the list comes to send blocks or gives up: a thread that
\* fails while it sends the list hands the funnel on (notifyFail).
EveryThreadGetsOut ==
    /\ part = "two" => Two!NegotiationEnds
    /\ part = "short list" => ShortList!EveryThreadServed
=============================================================================
