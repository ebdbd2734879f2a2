----------------------------- MODULE MCSharing -----------------------------
(***************************************************************************)
(* What the transfers of a process share: the throttler, the resource      *)
(* controller and the API over it.  Every behaviour is one of a part, in   *)
(* one instance of it; the other parts stay as they start.                 *)
(***************************************************************************)
EXTENDS Throttler

VARIABLES part, namespaceMap, numControllers, place, num, maxNum, maxNumNs, strict, call,
          crashed, job, transferId, aborted, terminated

controllerVars ==
    <<namespaceMap, numControllers, place, num, maxNum, maxNumNs, strict, call, crashed>>
jobVars == <<job, transferId, aborted, terminated>>
sharingVars == <<part, vars, controllerVars, jobVars>>

\* Two threads that create, release, register and de-register, with two keys.
Calls == INSTANCE Wdt WITH
    Callers <- {"a", "b"}, Namespaces <- {"n"}, Ids <- {"i", "j"}, Objects <- {"o", "p"},
    MaxControllers <- 1, GlobalLimits <- {2}, NamespaceLimits <- {0},
    TransferIds <- {"x"}, Terminate <- {FALSE}, NoObject <- "none"

\* The same with one key, and a namespace that is registered again.
KeyCalls == INSTANCE Wdt WITH
    Callers <- {"a", "b"}, Namespaces <- {"n"}, Ids <- {"i"}, Objects <- {"o", "p"},
    MaxControllers <- 2, GlobalLimits <- {1}, NamespaceLimits <- {1},
    TransferIds <- {"x"}, Terminate <- {FALSE}, NoObject <- "none"

\* Two threads that send and receive under one key, and may terminate a sender.
Jobs == INSTANCE Wdt WITH
    Callers <- {"a", "b"}, Namespaces <- {"n"}, Ids <- {"i"}, Objects <- {"o", "p"},
    MaxControllers <- 1, GlobalLimits <- {2}, NamespaceLimits <- {0},
    TransferIds <- {"x", "y"}, Terminate <- {TRUE, FALSE}, NoObject <- "none"

\* The same, always terminating.
TerminatingJobs == INSTANCE Wdt WITH
    Callers <- {"a", "b"}, Namespaces <- {"n"}, Ids <- {"i"}, Objects <- {"o", "p"},
    MaxControllers <- 1, GlobalLimits <- {2}, NamespaceLimits <- {0},
    TransferIds <- {"x", "y"}, Terminate <- {TRUE}, NoObject <- "none"

ASSUME Calls!ControllersAssumption /\ KeyCalls!ControllersAssumption /\ Jobs!ControllersAssumption

SharingInit ==
    /\ part \in {"throttler", "calls", "key calls", "jobs", "terminating jobs"}
    /\ Init /\ (part # "throttler" => options = [avg |-> 0, peak |-> 0, limit |-> 0])
    /\ CASE part = "calls" -> Calls!WdtInit
         [] part = "key calls" -> KeyCalls!WdtInit
         [] OTHER -> Jobs!WdtInit

SharingNext ==
    /\ \/ part = "throttler" /\ Next /\ UNCHANGED <<controllerVars, jobVars>>
       \/ part = "calls" /\ Calls!Next /\ UNCHANGED <<vars, jobVars>>
       \/ part = "key calls" /\ KeyCalls!Next /\ UNCHANGED <<vars, jobVars>>
       \/ part = "jobs" /\ Jobs!WdtNext /\ UNCHANGED vars
       \/ part = "terminating jobs" /\ TerminatingJobs!WdtNext /\ UNCHANGED vars
    /\ UNCHANGED part

\* The fairness of ResourceController and of Wdt, in the instances small
\* enough for liveness.
SharingSpec ==
    /\ SharingInit /\ [][SharingNext]_sharingVars
    /\ \A p \in {"a", "b"} :
         /\ WF_controllerVars(part = "key calls" /\ ~crashed /\ KeyCalls!Proceed(p))
         /\ WF_<<controllerVars, jobVars>>(part = "terminating jobs" /\ TerminatingJobs!Advance(p))
-----------------------------------------------------------------------------
\* numSenders_ and numReceivers_ of the root controller count what is in the
\* maps that can be found, in the calls in flight, and what was put into a map
\* after its namespace was emptied and died with it, and nothing else, whatever
\* calls interleave (createSender, releaseSender, deRegisterWdtNamespace).
CountsAreExact ==
    CASE part = "calls" -> Calls!CountsAreExact
      [] part = "key calls" -> KeyCalls!CountsAreExact
      [] OTHER -> Jobs!CountsAreExact

\* No step takes what is counted past the global limit, nor a namespace past
\* its own, with other calls in flight (hasSenderQuota, hasReceiverQuota).
QuotaNeverExceeded ==
    [][/\ part = "calls" => Calls!WithinQuota
       /\ part = "key calls" => KeyCalls!WithinQuota]_sharingVars

\* Every API call returns; deRegisterWdtNamespace, which waits until nobody
\* else holds its controller, too; and so do wdtSend, wdtReceiveStart and
\* wdtReceiveFinish, with the second try of createWdtSender after a termination.
EveryCallReturns ==
    /\ part = "key calls" => KeyCalls!EveryCallReturns
    /\ part = "terminating jobs" => TerminatingJobs!EveryJobReturns

\* A sender that wdtSend is still transferring with stays in the controller
\* and in the quota, unless a call asked to terminate the one of its key
\* (releaseWdtSender releases by key).
RunningSenderIsCounted ==
    part \in {"jobs", "terminating jobs"} => Jobs!RunningSenderIsCounted
=============================================================================
