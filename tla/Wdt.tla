-------------------------------- MODULE Wdt --------------------------------
(***************************************************************************)
(* The high level API over the resource controller: wdtSend and the        *)
(* wdtReceiveStart / wdtReceiveFinish pair, each a job of an application   *)
(* thread that makes several calls of ResourceController.                  *)
(***************************************************************************)
EXTENDS ResourceController

CONSTANTS
    TransferIds,   \* transfer ids of the requests
    Terminate,     \* values of terminateExistingOne
    NoObject       \* null pointer

VARIABLES
    job,          \* job[p]: the API call of thread p and the pointer it holds
    transferId,   \* transferId[k][o]: of the request the object was made for
    aborted,      \* senders told to abort (ABORTED_BY_APPLICATION)
    terminated    \* <<namespace, id>> a terminating wdtSend was made for; observes only

wdtVars == <<job, transferId, aborted, terminated>>

NoJob == [st |-> "none"]
Job(st, k, n, i, term, t, obj) ==
    [st |-> st, kind |-> k, ns |-> n, id |-> i, term |-> term, tid |-> t, obj |-> obj]
FirstTransferId == CHOOSE t \in TransferIds : TRUE

WdtInit == /\ Init
           /\ job = [p \in Callers |-> NoJob]
           /\ transferId \in [Kinds -> [Objects -> {FirstTransferId}]]
           /\ aborted = {}
           /\ terminated = {}

Stage(p, st) == job[p] # NoJob /\ job[p].st = st
GoTo(p, st, obj) == job' = [job EXCEPT ![p].st = st, ![p].obj = obj]
Return(p) == job' = [job EXCEPT ![p] = NoJob]
\* A shared_ptr keeps the object it points to: a new object is none of those.
NewObjectIsNew(p, k) ==
    \A q \in Callers : (job[q] # NoJob /\ job[q].kind = k /\ job[q].obj # NoObject)
                         => place'[k][job[q].obj] # Pending(p)
-----------------------------------------------------------------------------
\* createWdtSender (first try) and wdtReceiveStart: ask the controller.
create(p, k, n, i, term, t) ==
    /\ job[p] = NoJob
    /\ \E code \in ReturnCodes :
         /\ createReserve(p, k, n, i, code)
         /\ IF code = "OK"
              THEN job' = [job EXCEPT ![p] = Job("create", k, n, i, term, t, NoObject)]
              ELSE UNCHANGED job
    /\ NewObjectIsNew(p, k)
    /\ terminated' = IF term THEN terminated \cup {<<n, i>>} ELSE terminated
    /\ UNCHANGED <<transferId, aborted>>

\* Mutations of created: a sender that exists is terminated although the caller
\* did not ask for it; a creation after a termination is tried again and again.
createdTerminates(p) ==
    /\ Stage(p, "create") \/ Stage(p, "create again")
    /\ LET k == job[p].kind IN
       \E code \in ReturnCodes :
         /\ createInsert(p, code)
         /\ IF code = "OK"
              THEN \E o \in Held(k, p) : GoTo(p, "init", o)
              ELSE IF code = "ALREADY_EXISTS"
              THEN \E o \in Entry(k, call[p].ctl, call[p].id) : GoTo(p, "exists", o)
              ELSE Return(p)
    /\ UNCHANGED <<transferId, aborted, terminated>>
createdRetries(p) ==
    /\ Stage(p, "create") \/ Stage(p, "create again")
    /\ LET k == job[p].kind IN
       \E code \in ReturnCodes :
         /\ createInsert(p, code)
         /\ IF code = "OK"
              THEN \E o \in Held(k, p) :
                     /\ GoTo(p, "init", o)
                     /\ transferId' = [transferId EXCEPT ![k][o] = job[p].tid]
              ELSE /\ UNCHANGED transferId
                   /\ IF code = "ALREADY_EXISTS" /\ job[p].term
                        THEN \E o \in Entry(k, call[p].ctl, call[p].id) : GoTo(p, "exists", o)
                        ELSE Return(p)
    /\ UNCHANGED <<aborted, terminated>>

\* The controller inserts the object, or returns the one that exists already.
created(p) ==
    /\ Stage(p, "create") \/ Stage(p, "create again")
    /\ LET k == job[p].kind IN
       \E code \in ReturnCodes :
         /\ createInsert(p, code)
         /\ IF code = "OK"
              THEN \E o \in Held(k, p) :
                     /\ GoTo(p, "init", o)
                     /\ transferId' = [transferId EXCEPT ![k][o] = job[p].tid]
                     /\ aborted' = IF k = "sender" THEN aborted \ {o} ELSE aborted
              ELSE /\ UNCHANGED <<transferId, aborted>>
                   /\ IF code = "ALREADY_EXISTS" /\ job[p].st = "create" /\ job[p].term
                        THEN \E o \in Entry(k, call[p].ctl, call[p].id) : GoTo(p, "exists", o)
                        ELSE Return(p)
    /\ UNCHANGED terminated

\* The count is given back; another sender with the same request is kept, any
\* other one is aborted.
existed(p) ==
    /\ Stage(p, "exists")
    /\ \E code \in ReturnCodes : settle(p, code)
    /\ IF transferId[job[p].kind][job[p].obj] = job[p].tid
         THEN Return(p) /\ UNCHANGED aborted
         ELSE GoTo(p, "terminate", job[p].obj) /\ aborted' = aborted \cup {job[p].obj}
    /\ UNCHANGED <<transferId, terminated>>

\* releaseSender(wdtNamespace, secondKey): by key, whatever is there now.
terminate(p) ==
    /\ Stage(p, "terminate")
    /\ \E code \in ReturnCodes :
         /\ releaseLookup(p, "releaseOne", job[p].kind, job[p].ns, job[p].id, code)
         /\ GoTo(p, IF code = "OK" THEN "release" ELSE "recreate", job[p].obj)
    /\ UNCHANGED <<transferId, aborted, terminated>>

\* The rest of a release, for the termination and for the end of a transfer.
released(p) ==
    /\ Stage(p, "release") \/ Stage(p, "last release")
    /\ \E code \in ReturnCodes :
         \/ \E gone \in SUBSET Objects : releaseErase(p, gone, code)
         \/ settle(p, code)
    /\ IF call'[p] # Idle THEN UNCHANGED job
       ELSE IF job[p].st = "release" THEN GoTo(p, "recreate", NoObject) ELSE Return(p)
    /\ UNCHANGED <<transferId, aborted, terminated>>

\* Try#2.
recreate(p) ==
    /\ Stage(p, "recreate")
    /\ \E code \in ReturnCodes :
         /\ createReserve(p, job[p].kind, job[p].ns, job[p].id, code)
         /\ IF code = "OK" THEN GoTo(p, "create again", NoObject) ELSE Return(p)
    /\ NewObjectIsNew(p, job[p].kind)
    /\ UNCHANGED <<transferId, aborted, terminated>>

\* A creation that failed gives its count back and the API call is over.
createFailed(p) ==
    /\ job[p] = NoJob
    /\ call[p] # Idle
    /\ \E code \in ReturnCodes : settle(p, code)
    /\ UNCHANGED wdtVars

\* init of the sender fails: wdtSend returns and the sender stays where it is.
init(p, ok) ==
    /\ Stage(p, "init")
    /\ IF ok /\ job[p].kind = "sender" THEN GoTo(p, "running", job[p].obj) ELSE Return(p)
    /\ UNCHANGED <<vars, transferId, aborted, terminated>>

\* wdtReceiveFinish looks the receiver up and waits for it.
wdtReceiveFinish(p, n, i) ==
    /\ job[p] = NoJob /\ call[p] = Idle
    /\ namespaceMap[n] # NoController
    /\ \E o \in Entry("receiver", namespaceMap[n], i) :
         job' = [job EXCEPT ![p] = Job("finish", "receiver", n, i, FALSE,
                                       transferId["receiver"][o], o)]
    /\ UNCHANGED <<vars, transferId, aborted, terminated>>

\* transfer() or finish() has returned; releaseWdtSender, releaseReceiver by key.
finished(p) ==
    /\ Stage(p, "running") \/ Stage(p, "finish")
    /\ \E code \in ReturnCodes :
         /\ releaseLookup(p, "releaseOne", job[p].kind, job[p].ns, job[p].id, code)
         /\ IF code = "OK" THEN GoTo(p, "last release", NoObject) ELSE Return(p)
    /\ UNCHANGED <<transferId, aborted, terminated>>

wdtSend(p, n, i, term, t) == create(p, "sender", n, i, term, t)
wdtReceiveStart(p, n, i) == create(p, "receiver", n, i, FALSE, FirstTransferId)
-----------------------------------------------------------------------------
Advance(p) == \/ created(p) \/ existed(p) \/ terminate(p) \/ released(p) \/ recreate(p)
              \/ createFailed(p) \/ finished(p)
              \/ \E ok \in BOOLEAN : init(p, ok)

Start(p) == \E n \in Namespaces, i \in Ids :
    \/ \E t \in TransferIds, term \in Terminate : wdtSend(p, n, i, term, t)
    \/ wdtReceiveStart(p, n, i) \/ wdtReceiveFinish(p, n, i)

WdtNext == \E p \in Callers : Advance(p) \/ Start(p)

\* A transfer ends at last, by success, error or abort, and calls go on.
WdtSpec == WdtInit /\ [][WdtNext]_<<vars, wdtVars>>
           /\ \A p \in Callers : WF_<<vars, wdtVars>>(Advance(p))
-----------------------------------------------------------------------------
\* A sender whose wdtSend is still transferring stays in the controller, and
\* so in the quota, unless some call asked to terminate the sender of that key
\* (releaseWdtSender releases by key after the transfer).
RunningSenderIsCounted ==
    \A p \in Callers : Stage(p, "running") =>
       \/ job[p].obj \in InMaps("sender")
       \/ <<job[p].ns, job[p].id>> \in terminated

\* Every wdtSend, wdtReceiveStart and wdtReceiveFinish comes back, the retry
\* after a termination included.
EveryJobReturns == \A p \in Callers : job[p] # NoJob ~> job[p] = NoJob

\* A terminating wdtSend replaces the sender it has aborted: a sender that
\* goes on transferring outside the controller was told to stop.
ReplacedSenderWasAborted ==
    \A p \in Callers : Stage(p, "running") =>
       \/ job[p].obj \in InMaps("sender")
       \/ job[p].obj \in aborted
=============================================================================
