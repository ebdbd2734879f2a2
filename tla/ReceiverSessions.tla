-------------------------- MODULE ReceiverSessions --------------------------
(***************************************************************************)
(* The life of a Receiver object: who starts, ends, joins and restarts its *)
(* threads, its progress tracker and its sessions.  transferAsync() starts *)
(* the threads once and finish() joins them; runForever() joins and        *)
(* restarts them for ever.  A session begins with the first connection any *)
(* thread accepts and ends with the last thread that ends.  What is read   *)
(* from a connection is abstracted to how it ends: DONE, an error after    *)
(* which the thread accepts again, or an error that ends the thread.       *)
(***************************************************************************)
EXTENDS ThreadsController, Sequences

CONSTANTS
    Joinable,          \* transferAsync() rather than runForever()
    Finishers,         \* callers of finish()
    Destructor,        \* the caller that destroys the object
    MaxAcceptRetries,  \* max_accept_retries; 0 is ACCEPT_FOREVER
    MaxRounds,         \* bound on how often the threads are started
    Reports,           \* progress_report_interval_millis > 0
    BufferFails        \* whether the buffer of a thread may fail to be allocated

SessionAssumption ==
    /\ Threads = 1..NumThreads
    /\ MaxAcceptRetries \in Nat /\ MaxRounds \in Nat

Callers == Finishers \cup {Destructor}
NoOne == "no caller"

VARIABLES
    main, next,       \* where start() is, and the thread it handles next
    round,            \* how often the threads have been started
    transferStatus,   \* transferStatus_
    abortCode,        \* abortCode_ # OK
    pc,               \* pc[t]: where thread t is; "none" if threadPtr_ is null
    localError,       \* the local error code of threadStats_ of t is not OK
    attempts,         \* acceptAttempts of t
    started,          \* hasNewTransferStarted_
    throttled,        \* sessions registered with the throttler
    checkpoints,      \* checkpoints_: the round each was added in
    checkpointIndex, pendingCheckpointIndex,
    sent,             \* rounds of the checkpoints sent to the sender in this round
    tracker,          \* where the progress tracker is; "none" before it exists
    reporter,         \* the last of start() and end() called on the reporter
    call, instanceLock, joining   \* the calls of finish(), the mutex, the thread joined next

threadVars == <<pc, localError, attempts, checkpointIndex, pendingCheckpointIndex>>
sessionVars == <<started, throttled, checkpoints, sent>>
mainVars == <<main, next, round>>
reportVars == <<tracker, reporter>>
callVars == <<call, instanceLock, joining>>
vars == <<controllerVars, threadVars, sessionVars, mainVars, reportVars, callVars,
          transferStatus, abortCode>>

Init ==
    /\ ControllerInit
    /\ main = "idle" /\ next = 1 /\ round = 0
    /\ transferStatus = "NOT_STARTED" /\ abortCode = FALSE
    /\ pc = [t \in Threads |-> "none"]
    /\ localError = [t \in Threads |-> FALSE]
    /\ attempts = [t \in Threads |-> 0]
    /\ started = FALSE /\ throttled = 0
    /\ checkpoints = <<>> /\ sent = {}
    /\ checkpointIndex = [t \in Threads |-> 0]
    /\ pendingCheckpointIndex = [t \in Threads |-> 0]
    /\ tracker = "none" /\ reporter = "none"
    /\ call = [c \in Callers |-> "idle"]
    /\ instanceLock = NoOne /\ joining = 1
-----------------------------------------------------------------------------
\* Receiver::start, one step per thread it starts, joins or resets.
start ==
    /\ main = "idle"
    /\ call[Destructor] = "idle" /\ \A c \in Finishers : call[c] \in {"idle", "returned"}
    /\ checkFailed' = (checkFailed \/ transferStatus # "NOT_STARTED")
    /\ transferStatus' = "ONGOING"
    /\ main' = "starting" /\ next' = 1 /\ round' = 1
    /\ UNCHANGED <<threadState, barrier, funnel, startHits, endHits, threadVars, sessionVars,
                   reportVars, callVars, abortCode>>

\* WdtThread::startThread
startThread ==
    /\ main = "starting" /\ next \in Threads
    /\ checkFailed' = (checkFailed \/ pc[next] # "none" \/ threadState[next] # "RUNNING")
    /\ pc' = [pc EXCEPT ![next] = "start"]
    /\ next' = next + 1
    /\ UNCHANGED <<threadState, barrier, funnel, startHits, endHits, localError, attempts,
                   checkpointIndex, pendingCheckpointIndex, sessionVars, main, round,
                   reportVars, callVars, transferStatus, abortCode>>

\* With a joinable receiver start() makes the tracker and returns.
startTracker ==
    /\ main = "starting" /\ next \notin Threads /\ Joinable
    /\ main' = "returned"
    /\ reporter' = IF Reports THEN "started" ELSE reporter
    /\ tracker' = IF Reports THEN "waiting" ELSE "ended"
    /\ UNCHANGED <<controllerVars, threadVars, sessionVars, next, round, callVars,
                   transferStatus, abortCode>>

\* Otherwise it joins every thread with finish() and reset()s it,
joinAndReset ==
    /\ main = "starting" /\ next \notin Threads /\ ~Joinable
    /\ main' = "joining" /\ next' = 1
    /\ UNCHANGED <<controllerVars, threadVars, sessionVars, round, reportVars, callVars,
                   transferStatus, abortCode>>

\* ReceiverThread::reset
reset(t) ==
    /\ localError' = [localError EXCEPT ![t] = FALSE]
    /\ checkpointIndex' = [checkpointIndex EXCEPT ![t] = 0]
    /\ pendingCheckpointIndex' = [pendingCheckpointIndex EXCEPT ![t] = 0]

joinThread ==
    /\ main = "joining" /\ next \in Threads
    /\ pc[next] = "exited"
    /\ pc' = [pc EXCEPT ![next] = "none"]
    /\ reset(next)
    /\ next' = next + 1
    /\ UNCHANGED <<controllerVars, attempts, sessionVars, main, round, reportVars, callVars,
                   transferStatus, abortCode>>

\* and resets the controller and the status before it starts the threads again.
restart ==
    /\ main = "joining" /\ next \notin Threads
    /\ round < MaxRounds
    /\ resetController
    /\ transferStatus' = "NOT_STARTED"
    /\ main' = "starting" /\ next' = 1 /\ round' = round + 1
    /\ sent' = {}
    /\ UNCHANGED <<threadVars, started, throttled, checkpoints, reportVars, callVars, abortCode>>
-----------------------------------------------------------------------------
\* The loop of ReceiverThread::start looks at the abort code before every state,
\* END included.
GoTo(t, s) == pc' = [pc EXCEPT ![t] = IF abortCode THEN "ending" ELSE s]
Fails(t, e) == localError' = [localError EXCEPT ![t] = abortCode \/ e]

\* ReceiverThread::start before its loop, LISTEN and the reset of
\* ACCEPT_FIRST_CONNECTION.
begin(t) ==
    /\ pc[t] = "start"
    /\ reset(t)
    /\ attempts' = [attempts EXCEPT ![t] = 0]
    /\ GoTo(t, "accept")
    /\ UNCHANGED <<controllerVars, sessionVars, mainVars, reportVars, callVars, transferStatus,
                   abortCode>>

\* Without a buffer the thread is over: it neither deregisters nor ends anything.
noBuffer(t) ==
    /\ pc[t] = "start" /\ BufferFails
    /\ pc' = [pc EXCEPT ![t] = "exited"]
    /\ localError' = [localError EXCEPT ![t] = TRUE]
    /\ UNCHANGED <<controllerVars, attempts, checkpointIndex, pendingCheckpointIndex,
                   sessionVars, mainVars, reportVars, callVars, transferStatus, abortCode>>

\* One turn of the loop of acceptFirstConnection.
acceptFirstConnection(t) ==
    /\ pc[t] = "accept"
    /\ \/ started /\ GoTo(t, "acceptAgain") /\ Fails(t, localError[t]) /\ UNCHANGED attempts
       \/ /\ ~started /\ MaxAcceptRetries > 0 /\ attempts[t] >= MaxAcceptRetries
          /\ GoTo(t, "failed") /\ Fails(t, TRUE) /\ UNCHANGED attempts
       \/ /\ ~started /\ (MaxAcceptRetries = 0 \/ attempts[t] < MaxAcceptRetries)
          /\ IF abortCode
             THEN GoTo(t, "failed") /\ Fails(t, TRUE) /\ UNCHANGED attempts
             ELSE \/ /\ pc' = [pc EXCEPT ![t] = "accepted"]
                     /\ UNCHANGED <<localError, attempts>>
                  \/ /\ MaxAcceptRetries > 0
                     /\ attempts' = [attempts EXCEPT ![t] = @ + 1]
                     /\ UNCHANGED <<pc, localError>>
    /\ UNCHANGED <<controllerVars, checkpointIndex, pendingCheckpointIndex, sessionVars,
                   mainVars, reportVars, callVars, transferStatus, abortCode>>

\* Receiver::startNewGlobalSession, run by the first thread that gets a connection.
startNewGlobalSession == throttled' = throttled + 1 /\ started' = TRUE

accepted(t) ==
    /\ pc[t] = "accepted"
    /\ \E runs \in BOOLEAN :
          /\ executeAtStart(runs)
          /\ IF runs THEN startNewGlobalSession ELSE UNCHANGED <<throttled, started>>
    /\ GoTo(t, "session") /\ Fails(t, localError[t])
    /\ UNCHANGED <<threadState, barrier, funnel, endHits, checkFailed, attempts,
                   checkpointIndex, pendingCheckpointIndex, checkpoints, sent, mainVars,
                   reportVars, callVars, transferStatus, abortCode>>

\* ACCEPT_WITH_TIMEOUT: another connection, none in time, or a socket that cannot
\* be used again.
acceptWithTimeout(t) ==
    /\ pc[t] = "acceptAgain"
    /\ \/ /\ GoTo(t, "session") /\ Fails(t, FALSE)
          /\ pendingCheckpointIndex' = [pendingCheckpointIndex EXCEPT ![t] = checkpointIndex[t]]
       \/ GoTo(t, "failed") /\ Fails(t, TRUE) /\ UNCHANGED pendingCheckpointIndex
       \/ GoTo(t, "ending") /\ Fails(t, TRUE) /\ UNCHANGED pendingCheckpointIndex
    /\ UNCHANGED <<controllerVars, attempts, checkpointIndex, sessionVars, mainVars, reportVars,
                   callVars, transferStatus, abortCode>>

\* READ_NEXT_CMD up to the DONE of the sender, an error of the connection or an
\* error that no other connection repairs.
connection(t) ==
    /\ pc[t] = "session"
    /\ \/ /\ pc' = [pc EXCEPT ![t] = IF abortCode THEN "ending" ELSE "waiting"]
          /\ threadState' = [threadState EXCEPT ![t] = IF abortCode THEN @ ELSE "WAITING"]
          /\ Fails(t, FALSE)
          /\ checkpointIndex' = [checkpointIndex EXCEPT ![t] = pendingCheckpointIndex[t]]
       \/ /\ \E s \in {"acceptAgain", "failed"} : GoTo(t, s)
          /\ Fails(t, TRUE)
          /\ UNCHANGED <<threadState, checkpointIndex>>
    /\ UNCHANGED <<barrier, funnel, startHits, endHits, checkFailed, attempts,
                   pendingCheckpointIndex, sessionVars, mainVars, reportVars, callVars,
                   transferStatus, abortCode>>

\* getNewCheckpoints(checkpointIndex_)
NewCheckpoints(t) == SubSeq(checkpoints, checkpointIndex[t] + 1, Len(checkpoints))

\* One turn of the loop of waitForFinishOrNewCheckpoint that finds new checkpoints,
\* and SEND_GLOBAL_CHECKPOINTS with them.
sendGlobalCheckpoint(t) ==
    /\ pc[t] = "waiting" /\ NewCheckpoints(t) # <<>>
    /\ threadState' = [threadState EXCEPT ![t] = "RUNNING"]
    /\ \/ /\ ~abortCode
          /\ GoTo(t, "session") /\ UNCHANGED localError
          /\ sent' = sent \cup {NewCheckpoints(t)[k] : k \in DOMAIN NewCheckpoints(t)}
          /\ pendingCheckpointIndex' = [pendingCheckpointIndex EXCEPT ![t] = Len(checkpoints)]
       \/ /\ GoTo(t, "acceptAgain") /\ Fails(t, TRUE)
          /\ UNCHANGED <<sent, pendingCheckpointIndex>>
    /\ UNCHANGED <<barrier, funnel, startHits, endHits, checkFailed, attempts, checkpointIndex,
                   started, throttled, checkpoints, mainVars, reportVars, callVars,
                   transferStatus, abortCode>>

\* A turn that finds none, when nobody else runs
waitForFinishOrNewCheckpoint(t) ==
    /\ pc[t] = "waiting" /\ NewCheckpoints(t) = <<>>
    /\ \A u \in Threads \ {t} : threadState[u] # "RUNNING"
    /\ threadState' = [threadState EXCEPT ![t] = "FINISHED"]
    /\ GoTo(t, "sendDone") /\ Fails(t, localError[t])
    /\ UNCHANGED <<barrier, funnel, startHits, endHits, checkFailed, attempts, checkpointIndex,
                   pendingCheckpointIndex, sessionVars, mainVars, reportVars, callVars,
                   transferStatus, abortCode>>

\* or when the WAIT that keeps the sender alive cannot be written.
waitFails(t) ==
    /\ pc[t] = "waiting" /\ NewCheckpoints(t) = <<>>
    /\ \E u \in Threads \ {t} : threadState[u] = "RUNNING"
    /\ threadState' = [threadState EXCEPT ![t] = "RUNNING"]
    /\ GoTo(t, "acceptAgain") /\ Fails(t, TRUE)
    /\ UNCHANGED <<barrier, funnel, startHits, endHits, checkFailed, attempts, checkpointIndex,
                   pendingCheckpointIndex, sessionVars, mainVars, reportVars, callVars,
                   transferStatus, abortCode>>

sendDoneCmd(t) ==
    /\ pc[t] = "sendDone"
    /\ \/ GoTo(t, "ending") /\ Fails(t, FALSE)
       \/ GoTo(t, "acceptAgain") /\ Fails(t, TRUE)
    /\ UNCHANGED <<controllerVars, attempts, checkpointIndex, pendingCheckpointIndex,
                   sessionVars, mainVars, reportVars, callVars, transferStatus, abortCode>>

finishWithError(t) ==
    /\ pc[t] = "failed"
    /\ checkFailed' = (checkFailed \/ ~localError[t])
    /\ checkpoints' = Append(checkpoints, round)
    /\ threadState' = [threadState EXCEPT ![t] = "FINISHED"]
    /\ GoTo(t, "ending")
    /\ UNCHANGED <<barrier, funnel, startHits, endHits, localError, attempts, checkpointIndex,
                   pendingCheckpointIndex, started, throttled, sent, mainVars, reportVars,
                   callVars, transferStatus, abortCode>>

\* The end of ReceiverThread::start: deRegisterThread and executeAtEnd.
deRegister(t) ==
    /\ pc[t] = "ending"
    /\ deRegisterThread(t)
    /\ pc' = [pc EXCEPT ![t] = "ended"]
    /\ UNCHANGED <<funnel, startHits, endHits, localError, attempts, checkpointIndex,
                   pendingCheckpointIndex, sessionVars, mainVars, reportVars, callVars,
                   transferStatus, abortCode>>

\* Mutation of endCurGlobalSession: the checkpoints stay for the next session.
endCurGlobalSessionKeeps ==
    /\ transferStatus' = "FINISHED"
    /\ IF started
       THEN throttled' = throttled - 1 /\ started' = FALSE /\ UNCHANGED checkpoints
       ELSE UNCHANGED <<throttled, started, checkpoints>>

\* Receiver::endCurGlobalSession, run by the last thread that ends.
endCurGlobalSession ==
    /\ transferStatus' = "FINISHED"
    /\ IF started
       THEN throttled' = throttled - 1 /\ checkpoints' = <<>> /\ started' = FALSE
       ELSE UNCHANGED <<throttled, started, checkpoints>>

ended(t) ==
    /\ pc[t] = "ended"
    /\ \E runs \in BOOLEAN :
          /\ executeAtEnd(runs)
          /\ IF runs THEN endCurGlobalSession
             ELSE UNCHANGED <<transferStatus, throttled, started, checkpoints>>
    /\ pc' = [pc EXCEPT ![t] = "exited"]
    /\ UNCHANGED <<threadState, barrier, funnel, startHits, checkFailed, localError, attempts,
                   checkpointIndex, pendingCheckpointIndex, sent, mainVars, reportVars,
                   callVars, abortCode>>

thread(t) ==
    \/ begin(t) \/ noBuffer(t) \/ acceptFirstConnection(t) \/ accepted(t)
    \/ acceptWithTimeout(t) \/ connection(t) \/ waitForFinishOrNewCheckpoint(t)
    \/ sendGlobalCheckpoint(t) \/ sendDoneCmd(t) \/ finishWithError(t)
    \/ deRegister(t) \/ ended(t)
-----------------------------------------------------------------------------
\* Receiver::progressTracker: the wait of one interval, then the end or a report.
trackerWakes ==
    /\ tracker = "waiting"
    /\ tracker' = IF transferStatus = "THREADS_JOINED" THEN "ended" ELSE "progress"
    /\ UNCHANGED <<controllerVars, threadVars, sessionVars, mainVars, reporter, callVars,
                   transferStatus, abortCode>>

trackerReports ==
    /\ tracker = "progress"
    /\ tracker' = "waiting"
    /\ UNCHANGED <<controllerVars, threadVars, sessionVars, mainVars, reporter, callVars,
                   transferStatus, abortCode>>
-----------------------------------------------------------------------------
\* Calls of finish(), by an application that has got the object from transferAsync().
\* The object outlives every call but the destructor.
callFinish(c) ==
    /\ c \in Finishers /\ call[c] = "idle"
    /\ main \in {"idle", "returned"} /\ call[Destructor] = "idle"
    /\ call' = [call EXCEPT ![c] = "finish"]
    /\ UNCHANGED <<controllerVars, threadVars, sessionVars, mainVars, reportVars, instanceLock,
                   joining, transferStatus, abortCode>>

\* Receiver::~Receiver
destroy ==
    /\ call[Destructor] = "idle" /\ main \in {"idle", "returned"}
    /\ \A c \in Finishers : call[c] \in {"idle", "returned"}
    /\ call' = [call EXCEPT ![Destructor] = "finish"]
    /\ abortCode' = (abortCode \/ transferStatus = "ONGOING")
    /\ UNCHANGED <<controllerVars, threadVars, sessionVars, mainVars, reportVars, instanceLock,
                   joining, transferStatus>>

HasNothingToJoin == transferStatus \in {"NOT_STARTED", "THREADS_JOINED"}

\* finish() takes the mutex of the instance and looks at the status.
finish(c) ==
    /\ call[c] = "finish" /\ instanceLock = NoOne
    /\ instanceLock' = c
    /\ call' = [call EXCEPT ![c] = IF HasNothingToJoin THEN "report" ELSE "join"]
    /\ joining' = 1
    /\ UNCHANGED <<controllerVars, threadVars, sessionVars, mainVars, reportVars,
                   transferStatus, abortCode>>

\* It joins the threads in turn; WdtThread::finish does nothing without a thread.
finishThread(c) ==
    /\ call[c] = "join" /\ joining \in Threads
    /\ pc[joining] \in {"none", "exited"}
    /\ pc' = [pc EXCEPT ![joining] = "none"]
    /\ joining' = joining + 1
    /\ UNCHANGED <<controllerVars, localError, attempts, checkpointIndex,
                   pendingCheckpointIndex, sessionVars, mainVars, reportVars, call,
                   instanceLock, transferStatus, abortCode>>

\* setTransferStatus(THREADS_JOINED) before the tracker is joined
threadsJoined(c) ==
    /\ call[c] = "join" /\ joining \notin Threads
    /\ transferStatus' = "THREADS_JOINED"
    /\ call' = [call EXCEPT ![c] = "tracker"]
    /\ UNCHANGED <<controllerVars, threadVars, sessionVars, mainVars, reportVars, instanceLock,
                   joining, abortCode>>

\* The tracker is joined and, if the sender has told its size, the reporter ended.
joinTracker(c) ==
    /\ call[c] = "tracker" /\ tracker = "ended"
    /\ \/ reporter' = IF Reports THEN "ended" ELSE reporter
       \/ UNCHANGED reporter
    /\ call' = [call EXCEPT ![c] = "report"]
    /\ UNCHANGED <<controllerVars, threadVars, sessionVars, mainVars, tracker, instanceLock,
                   joining, transferStatus, abortCode>>

\* The report is the sum of the statistics of the threads.
report(c) ==
    /\ call[c] = "report"
    /\ call' = [call EXCEPT ![c] = "returned"]
    /\ instanceLock' = NoOne
    /\ UNCHANGED <<controllerVars, threadVars, sessionVars, mainVars, reportVars, joining,
                   transferStatus, abortCode>>

\* WdtBase::abort by the application
abort ==
    /\ ~abortCode /\ call[Destructor] = "idle"
    /\ abortCode' = TRUE
    /\ UNCHANGED <<controllerVars, threadVars, sessionVars, mainVars, reportVars, callVars,
                   transferStatus>>

Next ==
    \/ start \/ startThread \/ startTracker \/ joinAndReset \/ joinThread \/ restart
    \/ \E t \in Threads : thread(t) \/ waitFails(t)
    \/ trackerWakes \/ trackerReports
    \/ \E c \in Callers :
          \/ callFinish(c) \/ finish(c) \/ finishThread(c) \/ threadsJoined(c)
          \/ joinTracker(c) \/ report(c)
    \/ destroy \/ abort

Spec == Init /\ [][Next]_vars

\* Every thread that can run does; an abort is noticed in every state of a thread
\* because accepting, reading and writing time out.  Nothing is assumed of the
\* senders: a connection need not end by itself, nor a first one come.
Fairness ==
    /\ WF_vars(startThread) /\ WF_vars(startTracker)
    /\ WF_vars(trackerWakes) /\ WF_vars(trackerReports)
    /\ \A t \in Threads : WF_vars(abortCode /\ thread(t))
    /\ \A c \in Callers : WF_vars(finish(c)) /\ WF_vars(finishThread(c) \/ threadsJoined(c)
                                                          \/ joinTracker(c) \/ report(c))
FairSpec == Spec /\ Fairness
-----------------------------------------------------------------------------
\* No WDT_CHECK of start(), startThread(), finishWithError() or ExecuteOnceFunc
\* fails: every round finds the threads joined and the controller as new.
ChecksHold == ~checkFailed /\ startHits <= NumThreads /\ endHits <= NumThreads

\* "We will de register from the throttler when the current session ends" in either
\* mode: a session in progress is registered exactly once, and nothing is left when
\* every thread has ended.
InSession(t) == pc[t] \in {"session", "acceptAgain", "waiting", "sendDone"}
ThrottlerReleased ==
    /\ (\E t \in Threads : InSession(t)) => throttled = 1
    /\ main # "starting" /\ (\A t \in Threads : pc[t] \in {"none", "exited"}) => throttled = 0

\* The checkpoints that threads send to a sender were added in the round of its
\* session: the sender gives up the ports they name and sends their blocks again.
CheckpointsOfThisSession == sent \subseteq {round}

\* Whoever calls finish(), and however many do, the report is made of threads that
\* have all ended and been joined.
ReportIsFinal ==
    \A c \in Callers : call[c] = "report" /\ transferStatus # "NOT_STARTED"
                          => /\ \A t \in Threads : pc[t] = "none"
                             /\ tracker = "ended"

\* The progress reporter gets progress() only between start() and end().
ReporterInOrder == tracker = "progress" => reporter = "started"

\* "this method is called before the transfer starts"
ReporterStartsFirst == Joinable /\ Reports /\ started => reporter # "none"

\* The destructor returns in every case, and a call of finish() once the transfer
\* has been aborted.
CallsReturn ==
    \A c \in Callers : call[c] = "finish" /\ (c = Destructor \/ abortCode)
                          ~> call[c] = "returned"
=============================================================================
