------------------------- MODULE ThreadsController -------------------------
(***************************************************************************)
(* The synchronisation that the threads of one transfer share: their       *)
(* states, a Barrier, a Funnel and the two ExecuteOnceFunc objects.  Every *)
(* method is one critical section, so an operator here is one step of a    *)
(* thread; a thread that waits on a condition variable is in a set until   *)
(* it is notified, or wakes without being notified.                        *)
(***************************************************************************)
EXTENDS Integers, FiniteSets

CONSTANT Threads

ThreadsAssumption == IsFiniteSet(Threads) /\ Threads # {}

VARIABLES
    threadState,   \* threadStateMap_
    barrier,       \* Barrier: numThreads_, numHits_, isComplete_
    funnel,        \* Funnel: status_ and the threads inside wait()
    startHits,     \* execAtStart_->numHits_
    endHits,       \* execAtEnd_->numHits_
    checkFailed    \* a WDT_CHECK of one of these failed: the process is gone

controllerVars == <<threadState, barrier, funnel, startHits, endHits, checkFailed>>

NumThreads == Cardinality(Threads)

NewBarrier == [numThreads |-> NumThreads, numHits |-> 0, isComplete |-> FALSE]
NewFunnel == [status |-> "START", waiting |-> {}]

\* The constructor of a thread object registers the thread.
ControllerInit ==
    /\ threadState = [t \in Threads |-> "RUNNING"]
    /\ barrier = NewBarrier
    /\ funnel = NewFunnel
    /\ startHits = 0 /\ endHits = 0
    /\ checkFailed = FALSE
-----------------------------------------------------------------------------
\* Barrier::checkForFinish, for the counts n and h.
Finish(n, h) == [numThreads |-> n, numHits |-> h, isComplete |-> barrier.isComplete \/ h = n]

\* Barrier::execute up to the wait, and its return.
barrierHit ==
    /\ barrier' = Finish(barrier.numThreads, barrier.numHits + 1)
    /\ checkFailed' = (checkFailed \/ barrier.isComplete
                          \/ barrier.numThreads < barrier.numHits + 1)
barrierPassed == barrier.isComplete

\* Mutation of barrierDeRegister: also done when the barrier was passed.
barrierDeRegisterAlways ==
    /\ barrier' = Finish(barrier.numThreads - 1, barrier.numHits)
    /\ checkFailed' = (checkFailed \/ barrier.numThreads - 1 < barrier.numHits)

\* Barrier::deRegister
barrierDeRegister ==
    IF barrier.isComplete THEN UNCHANGED <<barrier, checkFailed>>
    ELSE /\ barrier' = Finish(barrier.numThreads - 1, barrier.numHits)
         /\ checkFailed' = (checkFailed \/ barrier.numThreads - 1 < barrier.numHits)

\* Mutation of deRegisterThread: the barriers are not told.
deRegisterThreadOnly(t) ==
    /\ threadState' = [threadState EXCEPT ![t] = "FINISHED"]
    /\ UNCHANGED <<barrier, checkFailed>>

deRegisterThread(t) ==
    /\ threadState' = [threadState EXCEPT ![t] = "FINISHED"]
    /\ barrierDeRegister
-----------------------------------------------------------------------------
\* Funnel::getStatus hands FUNNEL_START to one thread only.
funnelStatus(s) ==
    /\ s = funnel.status
    /\ funnel' = [funnel EXCEPT !.status = IF @ = "START" THEN "PROGRESS" ELSE @]

\* Funnel::wait returns at once when there is nothing to wait for.
funnelWait(t) ==
    funnel' = [funnel EXCEPT !.waiting = IF funnel.status = "PROGRESS" THEN @ \cup {t} ELSE @]

\* The wait without a predicate ends when notified or for no reason at all.
funnelAwake(t) == t \notin funnel.waiting
funnelSpurious(t) ==
    /\ t \in funnel.waiting
    /\ funnel' = [funnel EXCEPT !.waiting = @ \ {t}]

notifySuccess == funnel' = [status |-> "END", waiting |-> {}]

\* notify_one: one waiter, if there is any, is woken.
notifyFail ==
    \E woken \in SUBSET funnel.waiting :
       /\ Cardinality(woken) = IF funnel.waiting = {} THEN 0 ELSE 1
       /\ funnel' = [status |-> "START", waiting |-> funnel.waiting \ woken]
-----------------------------------------------------------------------------
\* ExecuteOnceFunc::execute: does this call run the function?
executeAtStart(runs) ==
    /\ runs = (startHits + 1 = 1)
    /\ startHits' = startHits + 1
executeAtEnd(runs) ==
    /\ runs = (endHits + 1 = NumThreads)
    /\ endHits' = endHits + 1
-----------------------------------------------------------------------------
\* ThreadsController::reset
resetController ==
    /\ threadState' = [t \in Threads |-> "RUNNING"]
    /\ barrier' = NewBarrier
    /\ funnel' = NewFunnel
    /\ startHits' = 0 /\ endHits' = 0
    /\ UNCHANGED checkFailed
=============================================================================
