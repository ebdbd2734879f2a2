--------------------------- MODULE SenderSession ---------------------------
(***************************************************************************)
(* The life of a Sender object: the calls of transferAsync(), transfer(),  *)
(* finish() and the destructor, and the threads they start and join: one   *)
(* per port, one that discovers the files and one that reports progress.   *)
(* What a thread does with a source is abstracted to taking it from the    *)
(* queue; a thread that finds the queue empty sleeps there and looks at no *)
(* abort code until discovery adds a source or ends.                       *)
(***************************************************************************)
EXTENDS ThreadsController

CONSTANTS
    Callers,       \* callers of transferAsync() and transfer()
    Destructor,    \* the caller that destroys the object
    Overlap,       \* whether a call may begin while another is inside start()
    TwoPhases,     \* two_phases
    Reports,       \* progress_report_interval_millis > 0
    BufferFails,   \* whether the buffer of a thread may fail to be allocated
    Endless,       \* whether discovery only ends when it is told to
    MaxSources     \* bound on the sources discovered

SessionAssumption == Threads = 1..NumThreads /\ MaxSources \in Nat

NoOne == "no caller"

VARIABLES
    call, next,          \* where a call is, and the thread start() handles next
    instanceLock, joining,   \* instanceManagementMutex_, the thread finish() joins next
    transferStatus,      \* transferStatus_
    abortCode,           \* abortCode_ # OK
    pc,                  \* pc[t]: where thread t is; "none" if threadPtr_ is null
    throttled,           \* transfers registered with the throttler
    discovery,           \* where dirThread_ is; "none" before it exists
    found, queued,       \* sources discovered, sources in the queue
    reporting, reporter, \* where the reporter thread is; the last of start() and end() on it
    joinFailed           \* a std::thread that does not exist was joined: the process is gone

callVars == <<call, next, instanceLock, joining, joinFailed>>
threadVars == <<pc, throttled>>
queueVars == <<discovery, found, queued>>
reportVars == <<reporting, reporter>>
vars == <<controllerVars, callVars, threadVars, queueVars, reportVars, transferStatus, abortCode>>

Init ==
    /\ ControllerInit
    /\ call = [c \in Callers \cup {Destructor} |-> "idle"] /\ next = 1
    /\ instanceLock = NoOne /\ joining = 1
    /\ transferStatus = "NOT_STARTED" /\ abortCode = FALSE
    /\ pc = [t \in Threads |-> "none"] /\ throttled = 0
    /\ discovery = "none" /\ found = 0 /\ queued = 0
    /\ reporting = "none" /\ reporter = "none"
    /\ joinFailed = FALSE
-----------------------------------------------------------------------------
InStart(c) == call[c] \in {"building", "discovering", "starting"}

\* The first block of Sender::start, under mutex_: a second call is refused.
start(c) ==
    /\ call[c] = "idle"
    /\ call' = [call EXCEPT ![c] =
                   IF transferStatus = "NOT_STARTED" THEN "building" ELSE "started"]
    /\ transferStatus' = IF transferStatus = "NOT_STARTED" THEN "ONGOING" ELSE transferStatus

callStart(c) ==
    /\ c \in Callers /\ call[Destructor] = "idle"
    /\ Overlap \/ \A d \in Callers : ~InStart(d)
    /\ start(c)
    /\ UNCHANGED <<controllerVars, next, instanceLock, joining, joinFailed, threadVars,
                   queueVars, reportVars, abortCode>>

\* The queue and the thread objects are made, then the thread of discovery.
buildQueueAsynchronously(c) ==
    /\ call[c] = "building"
    /\ discovery' = "running"
    /\ call' = [call EXCEPT ![c] = "discovering"]
    /\ UNCHANGED <<controllerVars, next, instanceLock, joining, joinFailed, threadVars, found,
                   queued, reportVars, transferStatus, abortCode>>

\* With two_phases discovery is joined before a thread is started.
joinDiscovery(c) ==
    /\ call[c] = "discovering"
    /\ IF TwoPhases THEN discovery = "ended" /\ discovery' = "joined" ELSE UNCHANGED discovery
    /\ call' = [call EXCEPT ![c] = "starting"] /\ next' = 1
    /\ UNCHANGED <<controllerVars, instanceLock, joining, joinFailed, threadVars, found, queued,
                   reportVars, transferStatus, abortCode>>

\* WdtThread::startThread
startThread(c) ==
    /\ call[c] = "starting" /\ next \in Threads
    /\ checkFailed' = (checkFailed \/ pc[next] # "none" \/ threadState[next] # "RUNNING")
    /\ pc' = [pc EXCEPT ![next] = "start"]
    /\ next' = next + 1
    /\ UNCHANGED <<threadState, barrier, funnel, startHits, endHits, call, instanceLock, joining,
                   joinFailed, throttled, queueVars, reportVars, transferStatus, abortCode>>

startReporter(c) ==
    /\ call[c] = "starting" /\ next \notin Threads
    /\ call' = [call EXCEPT ![c] = "started"]
    /\ IF Reports THEN reporting' = "waiting" /\ reporter' = "started"
       ELSE UNCHANGED reportVars
    /\ UNCHANGED <<controllerVars, next, instanceLock, joining, joinFailed, threadVars,
                   queueVars, transferStatus, abortCode>>
-----------------------------------------------------------------------------
\* The thread of discovery.  QueueAbortChecker tells it to stop once the transfer
\* is FINISHED.
shouldAbort == transferStatus = "FINISHED"

discover ==
    /\ discovery = "running" /\ ~shouldAbort /\ found < MaxSources
    /\ found' = found + 1 /\ queued' = queued + 1
    /\ UNCHANGED <<controllerVars, callVars, threadVars, discovery, reportVars, transferStatus,
                   abortCode>>

discoveryEnds ==
    /\ discovery = "running"
    /\ shouldAbort \/ ~Endless
    /\ discovery' = "ended"
    /\ UNCHANGED <<controllerVars, callVars, threadVars, found, queued, reportVars,
                   transferStatus, abortCode>>
-----------------------------------------------------------------------------
\* A thread that notices the abort goes to the end of SenderThread::start.
GoTo(t, s) == pc' = [pc EXCEPT ![t] = IF abortCode THEN "ending" ELSE s]

\* Sender::startNewTransfer, run by the first thread.
startNewTransfer(t) ==
    /\ pc[t] = "start"
    /\ \E runs \in BOOLEAN : /\ executeAtStart(runs)
                             /\ throttled' = IF runs THEN throttled + 1 ELSE throttled
    /\ GoTo(t, "connect")
    /\ UNCHANGED <<threadState, barrier, funnel, endHits, checkFailed, callVars, queueVars,
                   reportVars, transferStatus, abortCode>>

noBuffer(t) ==
    /\ pc[t] = "start" /\ BufferFails
    /\ pc' = [pc EXCEPT ![t] = "exited"]
    /\ UNCHANGED <<controllerVars, callVars, throttled, queueVars, reportVars, transferStatus,
                   abortCode>>

\* Connecting works or is given up.
connect(t) ==
    /\ pc[t] = "connect"
    /\ \E s \in {"next", "ending"} : GoTo(t, s)
    /\ UNCHANGED <<controllerVars, callVars, throttled, queueVars, reportVars, transferStatus,
                   abortCode>>

DiscoveryFinished == discovery \in {"ended", "joined"}

\* getNextSource: a source, the end, or asleep until there is one of them.
getNextSource(t) ==
    /\ pc[t] \in {"next", "asleep"}
    /\ \/ queued > 0 /\ queued' = queued - 1 /\ GoTo(t, "sending")
       \/ queued = 0 /\ DiscoveryFinished /\ GoTo(t, "done") /\ UNCHANGED queued
       \/ /\ queued = 0 /\ ~DiscoveryFinished /\ pc[t] = "next"
          /\ pc' = [pc EXCEPT ![t] = "asleep"] /\ UNCHANGED queued
    /\ UNCHANGED <<controllerVars, callVars, throttled, discovery, found, reportVars,
                   transferStatus, abortCode>>

\* A source is sent, or the connection fails and is made again.
send(t) ==
    /\ pc[t] = "sending"
    /\ \E s \in {"next", "connect"} : GoTo(t, s)
    /\ UNCHANGED <<controllerVars, callVars, throttled, queueVars, reportVars, transferStatus,
                   abortCode>>

\* SEND_DONE_CMD and what follows until the receiver answers DONE.
done(t) ==
    /\ pc[t] = "done"
    /\ \E s \in {"next", "connect", "ending"} : GoTo(t, s)
    /\ UNCHANGED <<controllerVars, callVars, throttled, queueVars, reportVars, transferStatus,
                   abortCode>>

deRegister(t) ==
    /\ pc[t] = "ending"
    /\ deRegisterThread(t)
    /\ pc' = [pc EXCEPT ![t] = "ended"]
    /\ UNCHANGED <<funnel, startHits, endHits, callVars, throttled, queueVars, reportVars,
                   transferStatus, abortCode>>

\* Sender::endCurTransfer, run by the last thread.
endCurTransfer == transferStatus' = "FINISHED" /\ throttled' = throttled - 1

ended(t) ==
    /\ pc[t] = "ended"
    /\ \E runs \in BOOLEAN :
          /\ executeAtEnd(runs)
          /\ IF runs THEN endCurTransfer ELSE UNCHANGED <<transferStatus, throttled>>
    /\ pc' = [pc EXCEPT ![t] = "exited"]
    /\ UNCHANGED <<threadState, barrier, funnel, startHits, checkFailed, callVars, queueVars,
                   reportVars, abortCode>>

thread(t) ==
    \/ startNewTransfer(t) \/ noBuffer(t) \/ connect(t) \/ getNextSource(t) \/ send(t)
    \/ done(t) \/ deRegister(t) \/ ended(t)
-----------------------------------------------------------------------------
\* Sender::reportProgress: the wait of one interval, then the end or a report.
reporterWakes ==
    /\ reporting = "waiting"
    /\ reporting' = IF transferStatus = "THREADS_JOINED" THEN "ended" ELSE "progress"
    /\ UNCHANGED <<controllerVars, callVars, threadVars, queueVars, reporter, transferStatus,
                   abortCode>>

progress ==
    /\ reporting = "progress"
    /\ reporting' = "waiting"
    /\ UNCHANGED <<controllerVars, callVars, threadVars, queueVars, reporter, transferStatus,
                   abortCode>>
-----------------------------------------------------------------------------
\* transfer() calls finish() whatever start() returned; after transferAsync() the
\* application may call it.
callFinish(c) ==
    /\ c \in Callers /\ call[c] = "started" /\ call[Destructor] = "idle"
    /\ call' = [call EXCEPT ![c] = "finish"]
    /\ UNCHANGED <<controllerVars, next, instanceLock, joining, joinFailed, threadVars,
                   queueVars, reportVars, transferStatus, abortCode>>

\* Mutation of destroy: an ongoing transfer is not aborted.
destroyWaits ==
    /\ call[Destructor] = "idle"
    /\ \A c \in Callers : call[c] \in {"idle", "started", "returned"}
    /\ call' = [call EXCEPT ![Destructor] = "finish"]
    /\ UNCHANGED abortCode

\* Sender::~Sender
destroy ==
    /\ call[Destructor] = "idle"
    /\ \A c \in Callers : call[c] \in {"idle", "started", "returned"}
    /\ call' = [call EXCEPT ![Destructor] = "finish"]
    /\ abortCode' = (abortCode \/ transferStatus = "ONGOING")

destructor ==
    /\ destroy
    /\ UNCHANGED <<controllerVars, next, instanceLock, joining, joinFailed, threadVars,
                   queueVars, reportVars, transferStatus>>

\* Mutation of HasNothingToJoin: a finished transfer needs no join.
HasNothingToJoinIfStale == transferStatus \in {"NOT_STARTED", "FINISHED", "THREADS_JOINED"}

HasNothingToJoin == transferStatus \in {"NOT_STARTED", "THREADS_JOINED"}

\* finish() takes the mutex of the instance and looks at the status.
finish(c) ==
    /\ call[c] = "finish" /\ instanceLock = NoOne
    /\ instanceLock' = c
    /\ call' = [call EXCEPT ![c] = IF HasNothingToJoin THEN "report" ELSE "join"]
    /\ joining' = 1
    /\ UNCHANGED <<controllerVars, next, joinFailed, threadVars, queueVars, reportVars,
                   transferStatus, abortCode>>

\* It joins the threads in turn; WdtThread::finish does nothing without a thread.
finishThread(c) ==
    /\ call[c] = "join" /\ joining \in Threads
    /\ pc[joining] \in {"none", "exited"}
    /\ pc' = [pc EXCEPT ![joining] = "none"]
    /\ joining' = joining + 1
    /\ UNCHANGED <<controllerVars, call, next, instanceLock, joinFailed, throttled, queueVars,
                   reportVars, transferStatus, abortCode>>

\* dirThread_ is joined unless start() has joined it; then all threads are.
threadsJoined(c) ==
    /\ call[c] = "join" /\ joining \notin Threads
    /\ IF TwoPhases THEN UNCHANGED <<joinFailed, discovery>>
       ELSE /\ discovery # "running"
            /\ joinFailed' = (discovery # "ended")
            /\ discovery' = "joined"
    /\ transferStatus' = "THREADS_JOINED"
    /\ call' = [call EXCEPT ![c] = "reporter"]
    /\ UNCHANGED <<controllerVars, next, instanceLock, joining, threadVars, found, queued,
                   reportVars, abortCode>>

joinReporter(c) ==
    /\ call[c] = "reporter"
    /\ IF Reports
       THEN /\ reporting \notin {"waiting", "progress"}
            /\ joinFailed' = (reporting # "ended")
            /\ reporting' = "joined" /\ reporter' = "ended"
       ELSE UNCHANGED <<joinFailed, reportVars>>

finishReporter(c) ==
    /\ joinReporter(c)
    /\ call' = [call EXCEPT ![c] = "report"]
    /\ UNCHANGED <<controllerVars, next, instanceLock, joining, threadVars, queueVars,
                   transferStatus, abortCode>>

report(c) ==
    /\ call[c] = "report"
    /\ call' = [call EXCEPT ![c] = "returned"]
    /\ instanceLock' = NoOne
    /\ UNCHANGED <<controllerVars, next, joining, joinFailed, threadVars, queueVars, reportVars,
                   transferStatus, abortCode>>

\* WdtBase::abort by the application
abort ==
    /\ ~abortCode /\ call[Destructor] = "idle"
    /\ abortCode' = TRUE
    /\ UNCHANGED <<controllerVars, callVars, threadVars, queueVars, reportVars, transferStatus>>
-----------------------------------------------------------------------------
starting(c) ==
    buildQueueAsynchronously(c) \/ joinDiscovery(c) \/ startThread(c) \/ startReporter(c)
finishing(c) ==
    finishThread(c) \/ threadsJoined(c) \/ finishReporter(c) \/ report(c)

Next ==
    /\ ~joinFailed
    /\ \/ \E c \in Callers : callStart(c) \/ starting(c) \/ callFinish(c)
       \/ \E c \in Callers \cup {Destructor} : finish(c) \/ finishing(c)
       \/ destructor \/ abort
       \/ discover \/ discoveryEnds
       \/ \E t \in Threads : thread(t)
       \/ reporterWakes \/ progress

Spec == Init /\ [][Next]_vars

\* Every thread that can run does.  An abort is noticed by a thread wherever it is
\* but asleep; nothing is assumed of a transfer that is not aborted, nor of
\* discovery but that it ends, when it can, or goes on.
Fairness ==
    /\ WF_vars(discoveryEnds) /\ WF_vars(reporterWakes) /\ WF_vars(progress)
    /\ \A t \in Threads : WF_vars((abortCode \/ pc[t] \in {"ending", "ended"}) /\ thread(t))
    /\ \A c \in Callers : WF_vars(starting(c))
    /\ \A c \in Callers \cup {Destructor} : WF_vars(finish(c)) /\ WF_vars(finishing(c))
FairSpec == Spec /\ Fairness
-----------------------------------------------------------------------------
\* finish() "can be called multiple times and is thread-safe": no call joins a thread
\* that does not exist or has been joined.
JoinsAreValid == ~joinFailed

\* Whatever calls overlap, the threads of a Sender are started once: no WDT_CHECK of
\* startThread() or ExecuteOnceFunc fails.
StartedOnce == ~checkFailed /\ startHits <= NumThreads /\ endHits <= NumThreads

\* The report is made when every thread has ended and been joined.
ReportIsFinal ==
    \A c \in Callers \cup {Destructor} :
       call[c] = "report" /\ transferStatus # "NOT_STARTED"
          => /\ \A t \in Threads : pc[t] = "none"
             /\ discovery = "joined"
             /\ Reports => reporting = "joined" /\ reporter = "ended"

\* The progress reporter gets progress() only between start() and end().
ReporterInOrder == reporting = "progress" => reporter = "started"

\* The transfer is registered with the throttler while its threads work, once, and
\* not when all have ended.
ThrottlerReleased ==
    /\ (\E t \in Threads : pc[t] \in {"connect", "next", "asleep", "sending", "done", "ending"})
          => throttled = 1
    /\ endHits = NumThreads => throttled = 0

\* Discovery stops when the transfer is over, however much is left to discover.
DiscoveryStops == transferStatus = "FINISHED" ~> discovery \in {"ended", "joined"}

\* The destructor returns in every case, and a call of finish() once the transfer
\* has been aborted, though threads may be asleep in the queue.
CallsReturn ==
    \A c \in Callers \cup {Destructor} :
       call[c] = "finish" /\ (c = Destructor \/ abortCode) ~> call[c] = "returned"
=============================================================================
