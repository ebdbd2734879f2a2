------------------------- MODULE ResourceController -------------------------
(***************************************************************************)
(* WdtResourceController and its namespace controllers: the quotas on      *)
(* senders and receivers, and the API calls of concurrent application      *)
(* threads.  Every critical section of controllerMutex_ is one step; what  *)
(* a call does between two of them is a step boundary.  The code for       *)
(* senders and for receivers is the same text, so one definition serves    *)
(* both kinds.  An object is a Sender or a Receiver: free, on its way in   *)
(* or out of a map (charged by a call that is in flight), in the map of a  *)
(* namespace controller, or lost: counted, and destroyed together with the *)
(* controller whose map it was in.  The numSenders_ of a namespace         *)
(* controller changes together with its map and is the size of that map.   *)
(***************************************************************************)
EXTENDS Integers, FiniteSets

CONSTANTS
    Callers,          \* application threads
    Namespaces,
    Ids,              \* identifiers of senders and receivers
    Objects,          \* Sender and Receiver instances
    MaxControllers,   \* bound on the namespace controllers ever made
    GlobalLimits,     \* values of maxNumSenders_ / maxNumReceivers_, 0: no limit
    NamespaceLimits   \* the same for a namespace controller

ControllersAssumption == /\ MaxControllers \in Nat
                         /\ IsFiniteSet(Objects)
                         /\ GlobalLimits \subseteq Nat
                         /\ NamespaceLimits \subseteq Nat

VARIABLES
    namespaceMap,    \* namespaceMap_: the registered controller, NoController if none
    numControllers,  \* controllers made so far; a controller is its number
    place,           \* place[k][o]: where object o of kind k is
    num,             \* num[k]: numSenders_ / numReceivers_ of the root controller
    maxNum,          \* maxNum[k]: the limits of the root controller
    maxNumNs,        \* maxNumNs[c][k]: the limits of controller c
    strict,          \* strictRegistration_
    call,            \* call[p]: the API call of thread p and how far it is
    crashed          \* a WDT_CHECK failed: the process is gone

vars == <<namespaceMap, numControllers, place, num, maxNum, maxNumNs, strict, call, crashed>>

Kinds == {"sender", "receiver"}
NoController == 0
Controllers == 1..MaxControllers

Free == [tag |-> "free"]
Pending(p) == [tag |-> "call", caller |-> p]
InMap(c, i) == [tag |-> "map", ctl |-> c, id |-> i]
Lost == [tag |-> "lost"]
Places == {Free, Lost} \cup {Pending(p) : p \in Callers}
            \cup {InMap(c, i) : c \in Controllers, i \in Ids}

Idle == [op |-> "idle"]
Call(op, k, c, i, ret) == [op |-> op, kind |-> k, ctl |-> c, id |-> i, ret |-> ret]
ReturnCodes == {"OK", "ALREADY_EXISTS", "QUOTA_EXCEEDED", "NOT_FOUND", "ERROR"}
NoId == "no id"
ReleaseOps == {"releaseOne", "releaseAll", "releaseStale"}
DeRegisterOps == {"deRegister_senders", "deRegister_receivers", "deRegister_counts",
                  "deRegister_wait"}
Calls == {Idle} \cup
    [op : {"create", "settle"} \cup ReleaseOps \cup DeRegisterOps, kind : Kinds,
     ctl : Controllers, id : Ids \cup {NoId}, ret : ReturnCodes]

\* The objects of kind k in the map of controller c, under identifier i, held by p.
Members(k, c) == {o \in Objects : place[k][o].tag = "map" /\ place[k][o].ctl = c}
Entry(k, c, i) == {o \in Objects : place[k][o] = InMap(c, i)}
Held(k, p) == {o \in Objects : place[k][o] = Pending(p)}
InMaps(k) == {o \in Objects : place[k][o].tag = "map"}
\* A controller that can be found: it is registered, or the call that
\* de-registers it still holds it.
Live(c) == \/ \E n \in Namespaces : namespaceMap[n] = c
           \/ \E p \in Callers : call[p].op \in DeRegisterOps /\ call[p].ctl = c
\* What the root controller should have counted: the objects in the maps that
\* can be found and those of calls in flight.
Charged(k) == {o \in Objects : \/ place[k][o].tag = "call"
                               \/ place[k][o].tag = "map" /\ Live(place[k][o].ctl)}
LostOnes(k) == {o \in Objects : place[k][o] = Lost}
\* What it has counted, those that are lost included.
Counted(k) == {o \in Objects : place[k][o] # Free}

\* Mutation of UseCountIsOne: the reference of the waiting call is counted too.
UseCountIsZero(p, c) == \A q \in Callers : call[q] # Idle => call[q].ctl # c

UseCountIsOne(p, c) == \A q \in Callers \ {p} : call[q] # Idle => call[q].ctl # c

Init == /\ namespaceMap = [n \in Namespaces |-> NoController]
        /\ numControllers = 0
        /\ place = [k \in Kinds |-> [o \in Objects |-> Free]]
        /\ num = [k \in Kinds |-> 0]
        /\ maxNum \in [Kinds -> GlobalLimits]
        /\ maxNumNs \in [Controllers -> [Kinds -> NamespaceLimits]]
        /\ strict = FALSE
        /\ call = [p \in Callers |-> Idle]
        /\ crashed = FALSE

TypeOK == /\ namespaceMap \in [Namespaces -> Controllers \cup {NoController}]
          /\ numControllers \in 0..MaxControllers
          /\ place \in [Kinds -> [Objects -> Places]]
          /\ num \in [Kinds -> Int]
          /\ maxNum \in [Kinds -> GlobalLimits]
          /\ maxNumNs \in [Controllers -> [Kinds -> NamespaceLimits]]
          /\ strict \in BOOLEAN
          /\ call \in [Callers -> Calls]
          /\ crashed \in BOOLEAN
-----------------------------------------------------------------------------
\* hasSenderQuota of the namespace controller, hasSenderQuotaInternal of the root.
hasNamespaceQuota(k, c) == Cardinality(Members(k, c)) < maxNumNs[c][k] \/ maxNumNs[c][k] = 0
\* Mutation of hasQuota: off by one.
hasQuotaOrOneMore(k, c) == /\ num[k] <= maxNum[k] \/ maxNum[k] = 0
                           /\ hasNamespaceQuota(k, c)

hasQuota(k, c) == /\ num[k] < maxNum[k] \/ maxNum[k] = 0
                  /\ hasNamespaceQuota(k, c)

\* getNamespaceController, and createNamespaceController when there is none.
getOrCreate(n) == IF namespaceMap[n] # NoController THEN namespaceMap[n] ELSE numControllers + 1

\* The first critical section of createSender: find or make the controller,
\* check both quotas, count the sender before it exists.  A controller made
\* for a call without quota stays.
createReserve(p, k, n, i, code) ==
    /\ call[p] = Idle
    /\ LET c == getOrCreate(n) IN
       /\ IF namespaceMap[n] = NoController /\ strict
            THEN code = "NOT_FOUND" /\ UNCHANGED <<namespaceMap, numControllers, num, place, call>>
            ELSE /\ c \in Controllers
                 /\ namespaceMap' = [namespaceMap EXCEPT ![n] = c]
                 /\ numControllers' = IF c > numControllers THEN c ELSE numControllers
                 /\ IF hasQuota(k, c)
                      THEN /\ code = "OK"
                           /\ \E o \in Objects : /\ place[k][o] = Free
                                                 /\ place' = [place EXCEPT ![k][o] = Pending(p)]
                           /\ num' = [num EXCEPT ![k] = @ + 1]
                           /\ call' = [call EXCEPT ![p] = Call("create", k, c, i, "OK")]
                      ELSE code = "QUOTA_EXCEEDED" /\ UNCHANGED <<num, place, call>>
       /\ UNCHANGED <<maxNum, maxNumNs, strict, crashed>>

\* createSender of the namespace controller: refuse a known identifier, check
\* the quota again, insert.
createInsert(p, code) ==
    /\ call[p] # Idle /\ call[p].op = "create"
    /\ LET k == call[p].kind
           c == call[p].ctl
           i == call[p].id
       IN  IF Entry(k, c, i) = {} /\ hasNamespaceQuota(k, c)
             THEN /\ code = "OK"
                  /\ place' = [place EXCEPT ![k] = [o \in Objects |->
                                   IF o \in Held(k, p) THEN InMap(c, i) ELSE place[k][o]]]
                  /\ call' = [call EXCEPT ![p] = Idle]
             ELSE /\ code = IF Entry(k, c, i) # {} THEN "ALREADY_EXISTS" ELSE "QUOTA_EXCEEDED"
                  /\ call' = [call EXCEPT ![p] = Call("settle", k, c, i, code)]
                  /\ UNCHANGED place
    /\ UNCHANGED <<namespaceMap, numControllers, num, maxNum, maxNumNs, strict, crashed>>

\* Mutation of settle: one is subtracted whatever the call took out.
settleOne(p, code) ==
    /\ call[p] # Idle /\ call[p].op = "settle"
    /\ code = call[p].ret
    /\ LET k == call[p].kind IN
       /\ num' = [num EXCEPT ![k] = @ - 1]
       /\ place' = [place EXCEPT ![k] = [o \in Objects |->
                       IF o \in Held(k, p) THEN Free ELSE place[k][o]]]
    /\ call' = [call EXCEPT ![p] = Idle]
    /\ UNCHANGED <<namespaceMap, numControllers, maxNum, maxNumNs, strict, crashed>>

\* The last critical section: subtract what a failed creation had counted, or
\* what a release took out of the map.
settle(p, code) ==
    /\ call[p] # Idle /\ call[p].op = "settle"
    /\ code = call[p].ret
    /\ LET k == call[p].kind IN
       /\ num' = [num EXCEPT ![k] = @ - Cardinality(Held(k, p))]
       /\ place' = [place EXCEPT ![k] = [o \in Objects |->
                       IF o \in Held(k, p) THEN Free ELSE place[k][o]]]
    /\ call' = [call EXCEPT ![p] = Idle]
    /\ UNCHANGED <<namespaceMap, numControllers, maxNum, maxNumNs, strict, crashed>>

createSender(p, n, i, code) == createReserve(p, "sender", n, i, code)
createReceiver(p, n, i, code) == createReserve(p, "receiver", n, i, code)
-----------------------------------------------------------------------------
\* releaseSender, releaseAllSenders, releaseStaleSenders: look up the
\* controller, take objects out of its map, subtract their number.
releaseLookup(p, op, k, n, i, code) ==
    /\ call[p] = Idle
    /\ IF namespaceMap[n] = NoController
         THEN code = (IF op = "releaseStale" THEN "NOT_FOUND" ELSE "ERROR") /\ UNCHANGED call
         ELSE /\ code = "OK"
              /\ call' = [call EXCEPT ![p] = Call(op, k, namespaceMap[n], i, "OK")]
    /\ UNCHANGED <<namespaceMap, numControllers, place, num, maxNum, maxNumNs, strict, crashed>>

\* The objects a call takes out of the map; which of them are stale is up to
\* their transfers.
Released(op, k, c, i, gone) ==
    \/ op = "releaseOne" /\ gone = Entry(k, c, i)
    \/ op = "releaseAll" /\ gone = Members(k, c)
    \/ op = "releaseStale" /\ gone \subseteq Members(k, c)

TakeOut(p, k, gone) ==
    place' = [place EXCEPT ![k] = [o \in Objects |->
                 IF o \in gone THEN Pending(p) ELSE place[k][o]]]

releaseErase(p, gone, code) ==
    /\ call[p] # Idle /\ call[p].op \in ReleaseOps
    /\ LET op == call[p].op
           k == call[p].kind
           c == call[p].ctl
       IN  /\ Released(op, k, c, call[p].id, gone)
           /\ code = IF op = "releaseOne" /\ gone = {} THEN "ERROR" ELSE "OK"
           /\ TakeOut(p, k, gone)
           /\ call' = [call EXCEPT ![p] = IF gone = {} THEN Idle
                                          ELSE Call("settle", k, c, call[p].id, "OK")]
    /\ UNCHANGED <<namespaceMap, numControllers, num, maxNum, maxNumNs, strict, crashed>>

releaseSender(p, n, i, code) == releaseLookup(p, "releaseOne", "sender", n, i, code)
releaseReceiver(p, n, i, code) == releaseLookup(p, "releaseOne", "receiver", n, i, code)
releaseAllSenders(p, n) == \E code \in ReturnCodes : releaseLookup(p, "releaseAll", "sender", n, NoId, code)
releaseAllReceivers(p, n) == \E code \in ReturnCodes : releaseLookup(p, "releaseAll", "receiver", n, NoId, code)
releaseStaleSenders(p, n) == \E code \in ReturnCodes : releaseLookup(p, "releaseStale", "sender", n, NoId, code)
releaseStaleReceivers(p, n) == \E code \in ReturnCodes : releaseLookup(p, "releaseStale", "receiver", n, NoId, code)
-----------------------------------------------------------------------------
registerWdtNamespace(p, n) ==
    /\ call[p] = Idle
    /\ getOrCreate(n) \in Controllers
    /\ namespaceMap' = [namespaceMap EXCEPT ![n] = getOrCreate(n)]
    /\ numControllers' = IF getOrCreate(n) > numControllers THEN getOrCreate(n) ELSE numControllers
    /\ UNCHANGED <<place, num, maxNum, maxNumNs, strict, call, crashed>>

\* deRegisterWdtNamespace erases the entry first, releases what the controller
\* holds, subtracts, and then waits until no other call holds the controller.
deRegisterErase(p, n) ==
    /\ call[p] = Idle
    /\ namespaceMap[n] # NoController
    /\ call' = [call EXCEPT ![p] = Call("deRegister_senders", "sender", namespaceMap[n], NoId, "OK")]
    /\ namespaceMap' = [namespaceMap EXCEPT ![n] = NoController]
    /\ UNCHANGED <<numControllers, place, num, maxNum, maxNumNs, strict, crashed>>

deRegisterRelease(p) ==
    /\ call[p] # Idle
    /\ \/ /\ call[p].op = "deRegister_senders"
          /\ TakeOut(p, "sender", Members("sender", call[p].ctl))
          /\ call' = [call EXCEPT ![p].op = "deRegister_receivers"]
       \/ /\ call[p].op = "deRegister_receivers"
          /\ TakeOut(p, "receiver", Members("receiver", call[p].ctl))
          /\ call' = [call EXCEPT ![p].op = "deRegister_counts"]
    /\ UNCHANGED <<namespaceMap, numControllers, num, maxNum, maxNumNs, strict, crashed>>

deRegisterCounts(p) ==
    /\ call[p] # Idle /\ call[p].op = "deRegister_counts"
    /\ num' = [k \in Kinds |-> num[k] - Cardinality(Held(k, p))]
    /\ place' = [k \in Kinds |-> [o \in Objects |->
                    IF o \in Held(k, p) THEN Free ELSE place[k][o]]]
    /\ call' = [call EXCEPT ![p].op = "deRegister_wait"]
    /\ UNCHANGED <<namespaceMap, numControllers, maxNum, maxNumNs, strict, crashed>>

\* The last reference goes and with it the controller.  What a creation has put
\* into its map since it was released is not in any map any more; nobody
\* subtracts it.
deRegisterWait(p) ==
    /\ call[p] # Idle /\ call[p].op = "deRegister_wait"
    /\ UseCountIsOne(p, call[p].ctl)
    /\ place' = [k \in Kinds |-> [o \in Objects |->
                    IF o \in Members(k, call[p].ctl) THEN Lost ELSE place[k][o]]]
    /\ call' = [call EXCEPT ![p] = Idle]
    /\ UNCHANGED <<namespaceMap, numControllers, num, maxNum, maxNumNs, strict, crashed>>

\* shutdown holds the root mutex throughout: it releases every registered
\* controller and checks that both counts are then zero.
Registered(k) == UNION {Members(k, namespaceMap[n]) : n \in Namespaces}

shutdown(p) ==
    /\ call[p] = Idle
    /\ num' = [k \in Kinds |-> num[k] - Cardinality(Registered(k))]
    /\ place' = [k \in Kinds |-> [o \in Objects |->
                    IF o \in Registered(k) THEN Free ELSE place[k][o]]]
    /\ namespaceMap' = [n \in Namespaces |-> NoController]
    /\ crashed' = (num' # [k \in Kinds |-> 0])
    /\ UNCHANGED <<numControllers, maxNum, maxNumNs, strict, call>>

updateMaxLimit(p, k, m) ==
    /\ call[p] = Idle
    /\ maxNum' = [maxNum EXCEPT ![k] = m]
    /\ UNCHANGED <<namespaceMap, numControllers, place, num, maxNumNs, strict, call, crashed>>

updateMaxNamespaceLimit(p, k, n, m) ==
    /\ call[p] = Idle
    /\ namespaceMap[n] # NoController
    /\ maxNumNs' = [maxNumNs EXCEPT ![namespaceMap[n]][k] = m]
    /\ UNCHANGED <<namespaceMap, numControllers, place, num, maxNum, strict, call, crashed>>

requireRegistration(p, b) ==
    /\ call[p] = Idle
    /\ strict' = b
    /\ UNCHANGED <<namespaceMap, numControllers, place, num, maxNum, maxNumNs, call, crashed>>
-----------------------------------------------------------------------------
\* The steps of a call that has begun.
Proceed(p) ==
    \/ \E code \in ReturnCodes : createInsert(p, code) \/ settle(p, code)
    \/ \E code \in ReturnCodes, gone \in SUBSET Objects : releaseErase(p, gone, code)
    \/ deRegisterRelease(p) \/ deRegisterCounts(p) \/ deRegisterWait(p)

Begin(p, n) ==
    \/ \E i \in Ids, code \in ReturnCodes :
         \/ createSender(p, n, i, code) \/ createReceiver(p, n, i, code)
         \/ releaseSender(p, n, i, code) \/ releaseReceiver(p, n, i, code)
    \/ releaseAllSenders(p, n) \/ releaseAllReceivers(p, n)
    \/ releaseStaleSenders(p, n) \/ releaseStaleReceivers(p, n)
    \/ registerWdtNamespace(p, n) \/ deRegisterErase(p, n)
    \/ \E k \in Kinds : \/ \E m \in GlobalLimits : updateMaxLimit(p, k, m)
                        \/ \E m \in NamespaceLimits : updateMaxNamespaceLimit(p, k, n, m)
    \/ shutdown(p)
    \/ \E b \in BOOLEAN : requireRegistration(p, b)

Next == ~crashed /\ \E p \in Callers : Proceed(p) \/ \E n \in Namespaces : Begin(p, n)

\* A thread inside a call goes on with it: the critical sections are short and
\* nothing but deRegisterWdtNamespace waits for anybody.
Fairness == \A p \in Callers : WF_vars(~crashed /\ Proceed(p))

Spec == Init /\ [][Next]_vars /\ Fairness
-----------------------------------------------------------------------------
\* The counts of the root controller, updated outside the critical section
\* that changes the maps, are the number of senders (receivers) in the maps of
\* the controllers that are registered or being de-registered, plus those of
\* calls in flight, plus those that deRegisterWdtNamespace lost: an object that
\* a creation put into the map after the map was released stays counted for
\* ever.  Nothing else is counted twice or forgotten, whatever interleaving of
\* creations, releases and de-registrations, and no other map is dropped with
\* something in it (createSender, releaseSender, deRegisterWdtNamespace).
CountsAreExact ==
    \A k \in Kinds : num[k] = Cardinality(Charged(k)) + Cardinality(LostOnes(k))

\* No identifier of a controller ever names two senders (receivers), although
\* createSender checks for it in another critical section than the one that
\* reserves the quota.
OneObjectPerId ==
    \A k \in Kinds, c \in Controllers, i \in Ids : Cardinality(Entry(k, c, i)) <= 1

\* No step makes the senders (receivers) that are counted, lost ones included,
\* more than the global limit, nor those of a controller more than the limit of its namespace, with
\* other creations, releases and changes of the limits in flight between the
\* reservation and the insertion; 0 is no limit (hasSenderQuota).
Within(limit, n) == limit = 0 \/ n <= limit
WithinQuota ==
    \A k \in Kinds :
      /\ Cardinality(Counted(k))' > Cardinality(Counted(k))
           => Within(maxNum[k], Cardinality(Counted(k))')
      /\ \A c \in Controllers :
           Cardinality(Members(k, c))' > Cardinality(Members(k, c))
             => Within(maxNumNs[c][k], Cardinality(Members(k, c))')
QuotaNeverExceeded == [][WithinQuota]_vars

\* Every API call returns, deRegisterWdtNamespace included, which waits for
\* the calls that still hold its controller.
EveryCallReturns == \A p \in Callers : call[p] # Idle ~> (call[p] = Idle \/ crashed)

\* shutdown asserts that nothing is left once it has released the registered
\* namespaces: it must be able to, at least when no call is in flight.
ShutdownFindsNothing ==
    (\A p \in Callers : call[p] = Idle) => \A k \in Kinds : num[k] = Cardinality(Registered(k))
=============================================================================
