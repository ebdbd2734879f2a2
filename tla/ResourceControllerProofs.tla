---------------------- MODULE ResourceControllerProofs ----------------------
(***************************************************************************)
(* Proofs about the resource controller, for any threads, namespaces,      *)
(* identifiers, objects and limits.                                        *)
(*                                                                         *)
(* An object goes from free to a call, into a map, out to a call, and is   *)
(* free again; the calls that are in flight hold what the root controller  *)
(* has counted and no map has, or no longer has.  CallOK says what a call  *)
(* holds at each of its step boundaries.                                   *)
(***************************************************************************)
EXTENDS ResourceController, FiniteSetTheorems, TLAPS

CallOK(p) ==
    /\ call[p].op \in {"idle", "deRegister_senders", "deRegister_wait"} \cup ReleaseOps =>
          \A k \in Kinds : Held(k, p) = {}
    /\ call[p].op \in {"create", "settle"} =>
          \A k \in Kinds : k # call[p].kind => Held(k, p) = {}
    /\ call[p].op = "create" =>
          call[p].id \in Ids /\ \E o \in Objects : Held(call[p].kind, p) = {o}
    /\ call[p].op = "deRegister_receivers" => Held("receiver", p) = {}

CallsOK == \A p \in Callers : CallOK(p)

\* The counts are those of all that is not free.
CountsAddUp == \A k \in Kinds : num[k] = Cardinality(Counted(k))

Accounts == TypeOK /\ CallsOK /\ CountsAddUp /\ OneObjectPerId

\* What is in a map can be found there, and so will be what a creation in
\* flight is about to put into one.
Findable == /\ \A k \in Kinds, o \in Objects : place[k][o].tag = "map" => Live(place[k][o].ctl)
            /\ ~crashed => \A p \in Callers : call[p].op = "create" => Live(call[p].ctl)

\* A step of p touches what is free, in a map, or its own.
Moved(p) ==
    \A k \in Kinds, o \in Objects :
        \/ place'[k][o] = place[k][o]
        \/ /\ place[k][o] \in {Free, Pending(p)} \/ place[k][o].tag = "map"
           /\ place'[k][o] \in {Free, Lost, Pending(p)} \/ place'[k][o].tag = "map"

\* Nothing new is in a map.
NoneInserted ==
    \A k \in Kinds, o \in Objects : place'[k][o].tag = "map" => place'[k][o] = place[k][o]

\* As many are counted as before.
SameCounted ==
    \A k \in Kinds, o \in Objects : place'[k][o] = Free <=> place[k][o] = Free
----------------------------------------------------------------------------
LEMMA PlaceFacts ==
    /\ Free.tag = "free" /\ Lost.tag = "lost" /\ Lost # Free
    /\ \A p : Pending(p).tag = "call" /\ Pending(p).caller = p /\ Pending(p) # Free
    /\ \A c, i : /\ InMap(c, i).tag = "map" /\ InMap(c, i).ctl = c /\ InMap(c, i).id = i
                 /\ InMap(c, i) # Free
    /\ \A p, c, i : Pending(p) # InMap(c, i)
    /\ \A p : Pending(p) # Lost
    /\ \A x \in Places : \/ x = Free \/ x = Lost
                         \/ x.tag = "call" /\ \E p \in Callers : x = Pending(p)
                         \/ /\ x.tag = "map" /\ x.ctl \in Controllers /\ x.id \in Ids
                            /\ x = InMap(x.ctl, x.id)
<1>1. Free.tag = "free" /\ Lost.tag = "lost"
  BY DEF Free, Lost
<1>2. \A p : Pending(p).tag = "call" /\ Pending(p).caller = p
  BY DEF Pending
<1>3. \A c, i : InMap(c, i).tag = "map" /\ InMap(c, i).ctl = c /\ InMap(c, i).id = i
  BY DEF InMap
<1>4. /\ \A p : Pending(p) # Free /\ Pending(p) # Lost
      /\ Lost # Free
      /\ \A c, i : InMap(c, i) # Free
      /\ \A p, c, i : Pending(p) # InMap(c, i)
  BY <1>1, <1>2, <1>3
<1>5. ASSUME NEW x \in Places
      PROVE  \/ x = Free \/ x = Lost
             \/ x.tag = "call" /\ \E p \in Callers : x = Pending(p)
             \/ /\ x.tag = "map" /\ x.ctl \in Controllers /\ x.id \in Ids
                /\ x = InMap(x.ctl, x.id)
  BY <1>2, <1>3 DEF Places
<1> QED
  BY <1>1, <1>2, <1>3, <1>4, <1>5

LEMMA CallFacts ==
    ASSUME call \in [Callers -> Calls], NEW p \in Callers
    PROVE  /\ Idle.op = "idle"
           /\ call[p] = Idle <=> call[p].op = "idle"
           /\ call[p] # Idle =>
                 /\ call[p].op \in {"create", "settle"} \cup ReleaseOps \cup DeRegisterOps
                 /\ call[p].kind \in Kinds /\ call[p].ctl \in Controllers
                 /\ call[p].id \in Ids \cup {NoId} /\ call[p].ret \in ReturnCodes
<1> DEFINE Others == [op : {"create", "settle"} \cup ReleaseOps \cup DeRegisterOps, kind : Kinds,
                      ctl : Controllers, id : Ids \cup {NoId}, ret : ReturnCodes]
<1>1. call[p] \in {Idle} \cup Others
  BY DEF Calls
<1>2. Idle.op = "idle"
  BY DEF Idle
<1>3. \A x \in Others : /\ x.op \in {"create", "settle"} \cup ReleaseOps \cup DeRegisterOps
                        /\ x.kind \in Kinds /\ x.ctl \in Controllers
                        /\ x.id \in Ids \cup {NoId} /\ x.ret \in ReturnCodes
  OBVIOUS
<1>4. "idle" \notin {"create", "settle"} \cup ReleaseOps \cup DeRegisterOps
  BY DEF ReleaseOps, DeRegisterOps
<1> HIDE DEF Others
<1> QED
  BY <1>1, <1>2, <1>3, <1>4

LEMMA CallIsCall ==
    ASSUME NEW op \in {"create", "settle"} \cup ReleaseOps \cup DeRegisterOps, NEW k \in Kinds,
           NEW c \in Controllers, NEW i \in Ids \cup {NoId}, NEW r \in ReturnCodes
    PROVE  /\ Call(op, k, c, i, r) \in Calls
           /\ Call(op, k, c, i, r).op = op /\ Call(op, k, c, i, r).kind = k
           /\ Call(op, k, c, i, r).ctl = c /\ Call(op, k, c, i, r).id = i
BY DEF Call, Calls

\* The calls of other threads hold what they held.
LEMMA OthersHold ==
    ASSUME place \in [Kinds -> [Objects -> Places]], NEW p \in Callers, NEW q \in Callers, q # p,
           Moved(p), NEW k \in Kinds
    PROVE  Held(k, q)' = Held(k, q)
<1>1. /\ Pending(q) # Pending(p) /\ Pending(q) # Free /\ Pending(q) # Lost
      /\ Pending(q).tag # "map"
  BY PlaceFacts
<1>2. \A o \in Objects : place'[k][o] = Pending(q) <=> place[k][o] = Pending(q)
  BY <1>1 DEF Moved
<1> QED
  BY <1>2 DEF Held

LEMMA CallsStep ==
    ASSUME TypeOK, CallsOK, NEW p \in Callers, Moved(p), CallOK(p)',
           NEW x, call' = [call EXCEPT ![p] = x]
    PROVE  CallsOK'
<1> SUFFICES ASSUME NEW q \in Callers, q # p PROVE CallOK(q)'
  BY DEF CallsOK
<1>1. call'[q] = call[q]
  BY DEF TypeOK
<1>2. \A k \in Kinds : Held(k, q)' = Held(k, q)
  BY OthersHold DEF TypeOK
<1>3. CallOK(q)
  BY DEF CallsOK
<1>4. call[q].op = "create" => call[q].kind \in Kinds
  BY CallFacts DEF TypeOK
<1>5. "receiver" \in Kinds
  BY DEF Kinds
<1> HIDE DEF Held
<1> QED
  BY <1>1, <1>2, <1>3, <1>4, <1>5 DEF CallOK

LEMMA CountsStep ==
    ASSUME CountsAddUp, SameCounted, UNCHANGED num
    PROVE  CountsAddUp'
<1>1. \A k \in Kinds : Counted(k)' = Counted(k)
  BY DEF SameCounted, Counted
<1> QED
  BY <1>1 DEF CountsAddUp

LEMMA FiniteObjects ==
    ASSUME ControllersAssumption, NEW S, S \subseteq Objects
    PROVE  IsFiniteSet(S) /\ Cardinality(S) \in Nat
BY FS_Subset, FS_CardinalityType DEF ControllersAssumption

\* Where nothing new is in a map, no map has more and no identifier names more.
LEMMA MapsStep ==
    ASSUME ControllersAssumption, OneObjectPerId, NoneInserted, NEW k \in Kinds
    PROVE  /\ \A c \in Controllers : Cardinality(Members(k, c))' <= Cardinality(Members(k, c))
           /\ \A c \in Controllers, i \in Ids : Cardinality(Entry(k, c, i))' <= 1
<1>1. ASSUME NEW c \in Controllers PROVE Cardinality(Members(k, c))' <= Cardinality(Members(k, c))
  <2>1. Members(k, c)' \subseteq Members(k, c) /\ Members(k, c) \subseteq Objects
    BY DEF Members, NoneInserted
  <2> QED
    BY <2>1, FiniteObjects, FS_Subset
<1>2. ASSUME NEW c \in Controllers, NEW i \in Ids PROVE Cardinality(Entry(k, c, i))' <= 1
  <2>1. Entry(k, c, i)' \subseteq Entry(k, c, i) /\ Entry(k, c, i) \subseteq Objects
    BY PlaceFacts DEF Entry, NoneInserted
  <2>2. Cardinality(Entry(k, c, i)) <= 1
    BY DEF OneObjectPerId
  <2>3. /\ Cardinality(Entry(k, c, i)') <= Cardinality(Entry(k, c, i))
        /\ Cardinality(Entry(k, c, i)') \in Nat /\ Cardinality(Entry(k, c, i)) \in Nat
    BY <2>1, FiniteObjects, FS_Subset
  <2> QED
    BY <2>2, <2>3
<1> QED
  BY <1>1, <1>2
----------------------------------------------------------------------------
\* The rest of a step that moves objects from the maps to a call, if any.
LEMMA KeepingStep ==
    ASSUME ControllersAssumption, Accounts, NEW p \in Callers, TypeOK', CallOK(p)',
           Moved(p), NoneInserted, SameCounted, UNCHANGED num,
           NEW x, call' = [call EXCEPT ![p] = x]
    PROVE  Accounts' /\ WithinQuota
<1> USE DEF Accounts
<1>1. CallsOK' /\ CountsAddUp'
  BY CallsStep, CountsStep, Zenon
<1>2. OneObjectPerId'
  BY MapsStep DEF OneObjectPerId
<1>3. WithinQuota
  <2> SUFFICES ASSUME NEW k \in Kinds
               PROVE  /\ ~(Cardinality(Counted(k)') > Cardinality(Counted(k)))
                      /\ \A c \in Controllers :
                            ~(Cardinality(Members(k, c)') > Cardinality(Members(k, c)))
    BY DEF WithinQuota
  <2>1. Counted(k)' = Counted(k) /\ Counted(k) \subseteq Objects
    BY DEF SameCounted, Counted
  <2>2. Cardinality(Counted(k)) \in Nat
    BY <2>1, FiniteObjects
  <2>3. ASSUME NEW c \in Controllers
        PROVE  ~(Cardinality(Members(k, c)') > Cardinality(Members(k, c)))
    <3>1. /\ Cardinality(Members(k, c)') \in Nat /\ Cardinality(Members(k, c)) \in Nat
      BY FiniteObjects DEF Members
    <3>2. Cardinality(Members(k, c)') <= Cardinality(Members(k, c))
      BY MapsStep
    <3> QED
      BY <3>1, <3>2
  <2> QED
    BY <2>1, <2>2, <2>3
<1> QED
  BY <1>1, <1>2, <1>3

\* The rest of a step that frees the objects G, and subtracts their number.
LEMMA FreeingStep ==
    ASSUME ControllersAssumption, Accounts, NEW p \in Callers, TypeOK', CallOK(p)', Moved(p),
           NEW x, call' = [call EXCEPT ![p] = x],
           NEW G \in [Kinds -> SUBSET Objects],
           \A k \in Kinds : G[k] \subseteq Counted(k),
           \A k \in Kinds : num'[k] = num[k] - Cardinality(G[k]),
           \A k \in Kinds, o \in Objects : place'[k][o] = IF o \in G[k] THEN Free ELSE place[k][o]
    PROVE  Accounts' /\ WithinQuota
<1> USE DEF Accounts
<1>1. NoneInserted
  BY PlaceFacts DEF NoneInserted
<1>2. CallsOK'
  BY CallsStep, Zenon
<1>3. OneObjectPerId'
  BY <1>1, MapsStep DEF OneObjectPerId
<1>4. ASSUME NEW k \in Kinds
      PROVE  /\ num'[k] = Cardinality(Counted(k)')
             /\ ~(Cardinality(Counted(k)') > Cardinality(Counted(k)))
  <2>1. Counted(k)' = Counted(k) \ G[k]
    BY DEF Counted
  <2>2. IsFiniteSet(Counted(k)) /\ Cardinality(Counted(k)) \in Nat
    BY FiniteObjects DEF Counted
  <2>g. G[k] \subseteq Objects
    OBVIOUS
  <2>3. Cardinality(G[k]) \in Nat
    BY <2>g, FiniteObjects
  <2>4. Counted(k) \cap G[k] = G[k]
    OBVIOUS
  <2>5. Cardinality(Counted(k) \ G[k]) = Cardinality(Counted(k)) - Cardinality(G[k])
    <3>1. Cardinality(Counted(k) \ G[k]) =
             Cardinality(Counted(k)) - Cardinality(Counted(k) \cap G[k])
      BY <2>2, FS_Difference, Zenon
    <3> QED
      BY <2>4, <3>1, Zenon
  <2>6. num[k] = Cardinality(Counted(k)) /\ num'[k] = num[k] - Cardinality(G[k])
    BY DEF CountsAddUp
  <2> QED
    BY <2>1, <2>2, <2>3, <2>5, <2>6
<1>5. ASSUME NEW k \in Kinds, NEW c \in Controllers
      PROVE  ~(Cardinality(Members(k, c)') > Cardinality(Members(k, c)))
  <2>1. /\ Cardinality(Members(k, c)') \in Nat /\ Cardinality(Members(k, c)) \in Nat
    BY FiniteObjects DEF Members
  <2>2. Cardinality(Members(k, c)') <= Cardinality(Members(k, c))
    BY <1>1, MapsStep
  <2> QED
    BY <2>1, <2>2
<1>6. CountsAddUp' /\ WithinQuota
  BY <1>4, <1>5 DEF CountsAddUp, WithinQuota
<1> QED
  BY <1>2, <1>3, <1>6

\* A step that leaves places, counts and calls alone.
LEMMA SettingsStep ==
    ASSUME ControllersAssumption, Accounts, NEW p \in Callers, TypeOK', UNCHANGED <<place, num, call>>
    PROVE  Accounts' /\ WithinQuota
<1>1. CallOK(p)'
  BY DEF Accounts, CallsOK, CallOK, Held
<1>2. Moved(p) /\ NoneInserted /\ SameCounted
  BY DEF Moved, NoneInserted, SameCounted
<1>3. call' = [call EXCEPT ![p] = call[p]]
  BY DEF Accounts, TypeOK
<1> QED
  BY <1>1, <1>2, <1>3, KeepingStep, Zenon
----------------------------------------------------------------------------
\* getOrCreate and the count of the controllers keep their types.
LEMMA ControllersStep ==
    ASSUME ControllersAssumption, TypeOK, NEW n \in Namespaces, getOrCreate(n) \in Controllers
    PROVE  /\ [namespaceMap EXCEPT ![n] = getOrCreate(n)] \in
                 [Namespaces -> Controllers \cup {NoController}]
           /\ (IF getOrCreate(n) > numControllers THEN getOrCreate(n) ELSE numControllers) \in
                 0..MaxControllers
BY DEF ControllersAssumption, TypeOK, Controllers

LEMMA ReserveStep ==
    ASSUME ControllersAssumption, Accounts, NEW p \in Callers, NEW k \in Kinds,
           NEW n \in Namespaces, NEW i \in Ids, NEW code \in ReturnCodes,
           createReserve(p, k, n, i, code)
    PROVE  Accounts' /\ WithinQuota
<1>1. CASE UNCHANGED <<num, place, call>>
  <2>1. TypeOK'
    BY <1>1, ControllersStep DEF createReserve, Accounts, TypeOK
  <2> QED
    BY <1>1, <2>1, SettingsStep
<1>2. CASE ~UNCHANGED <<num, place, call>>
  <2> DEFINE c == getOrCreate(n)
             x == Call("create", k, c, i, "OK")
  <2>1. /\ call[p] = Idle /\ c \in Controllers /\ hasQuota(k, c)
        /\ num' = [num EXCEPT ![k] = @ + 1]
        /\ call' = [call EXCEPT ![p] = x]
        /\ namespaceMap' = [namespaceMap EXCEPT ![n] = c]
        /\ numControllers' = IF c > numControllers THEN c ELSE numControllers
        /\ UNCHANGED <<maxNum, maxNumNs, strict, crashed>>
        /\ \E o \in Objects : place[k][o] = Free /\ place' = [place EXCEPT ![k][o] = Pending(p)]
    BY <1>2 DEF createReserve
  <2>2. PICK o \in Objects : place[k][o] = Free /\ place' = [place EXCEPT ![k][o] = Pending(p)]
    BY <2>1, Zenon
  <2>3. TypeOK
    BY DEF Accounts
  <2>4. x \in Calls /\ x.op = "create" /\ x.kind = k /\ x.id = i
    <3>1. "OK" \in ReturnCodes /\ i \in Ids \cup {NoId}
      BY DEF ReturnCodes
    <3> HIDE DEF c
    <3> QED
      BY <2>1, <3>1, CallIsCall
  <2>5. Pending(p) \in Places
    BY DEF Places
  <2>6. TypeOK'
    BY <2>1, <2>2, <2>3, <2>4, <2>5, ControllersStep DEF TypeOK
  <2>7. \A kk \in Kinds, oo \in Objects :
           place'[kk][oo] = IF kk = k /\ oo = o THEN Pending(p) ELSE place[kk][oo]
    BY <2>2, <2>3 DEF TypeOK
  <2>8. Moved(p) /\ NoneInserted
    BY <2>2, <2>7, PlaceFacts DEF Moved, NoneInserted
  <2>9. CallOK(p)'
    <3>1. \A kk \in Kinds : Held(kk, p) = {}
      BY <2>1, <2>3, CallFacts DEF Accounts, CallsOK, CallOK, TypeOK
    <3>2. Held(k, p)' = {o} /\ \A kk \in Kinds : kk # k => Held(kk, p)' = {}
      BY <2>7, <3>1 DEF Held
    <3>3. call'[p] = x
      BY <2>1, <2>3 DEF TypeOK
    <3> HIDE DEF x
    <3> QED
      BY <2>4, <3>2, <3>3 DEF CallOK, ReleaseOps, Kinds
  <2>10. CallsOK'
    <3> HIDE DEF x
    <3> QED
      BY <2>1, <2>3, <2>8, <2>9, CallsStep, Zenon DEF Accounts
  <2>11. OneObjectPerId'
    BY <2>8, MapsStep DEF OneObjectPerId, Accounts
  <2>12. /\ Counted(k)' = Counted(k) \cup {o} /\ o \notin Counted(k)
         /\ \A kk \in Kinds : kk # k => Counted(kk)' = Counted(kk)
    BY <2>2, <2>7, PlaceFacts DEF Counted
  <2>13. Cardinality(Counted(k)') = Cardinality(Counted(k)) + 1
    <3>1. IsFiniteSet(Counted(k))
      BY FiniteObjects DEF Counted
    <3> QED
      BY <2>12, <3>1, FS_AddElement, Zenon
  <2>14. num[k] = Cardinality(Counted(k)) /\ num \in [Kinds -> Int]
    BY <2>3 DEF Accounts, CountsAddUp, TypeOK
  <2>15. CountsAddUp'
    <3>1. num'[k] = Cardinality(Counted(k)')
      BY <2>1, <2>13, <2>14
    <3>2. ASSUME NEW kk \in Kinds, kk # k PROVE num'[kk] = Cardinality(Counted(kk)')
      BY <2>1, <2>12, <2>14, <3>2 DEF Accounts, CountsAddUp
    <3> QED
      BY <3>1, <3>2 DEF CountsAddUp
  <2>16. WithinQuota
    <3>1. Within(maxNum[k], Cardinality(Counted(k)'))
      <4>1. num[k] < maxNum[k] \/ maxNum[k] = 0
        BY <2>1 DEF hasQuota
      <4>2. maxNum[k] \in Nat
        BY <2>3, Zenon DEF TypeOK, ControllersAssumption
      <4> QED
        BY <2>13, <2>14, <4>1, <4>2 DEF Within
    <3>2. ASSUME NEW kk \in Kinds, kk # k
          PROVE  ~(Cardinality(Counted(kk)') > Cardinality(Counted(kk)))
      <4>1. Cardinality(Counted(kk)) \in Nat
        BY FiniteObjects DEF Counted
      <4> QED
        BY <2>12, <3>2, <4>1
    <3>3. ASSUME NEW kk \in Kinds, NEW cc \in Controllers
          PROVE  ~(Cardinality(Members(kk, cc)') > Cardinality(Members(kk, cc)))
      <4>1. /\ Cardinality(Members(kk, cc)') \in Nat /\ Cardinality(Members(kk, cc)) \in Nat
        BY FiniteObjects DEF Members
      <4>2. Cardinality(Members(kk, cc)') <= Cardinality(Members(kk, cc))
        BY <2>8, MapsStep DEF Accounts
      <4> QED
        BY <4>1, <4>2
    <3> QED
      BY <3>1, <3>2, <3>3 DEF WithinQuota
  <2> QED
    BY <2>6, <2>10, <2>11, <2>15, <2>16 DEF Accounts
<1> QED
  BY <1>1, <1>2

\* createSender of the namespace controller: the only step that puts an object
\* into a map, one that its call holds.
LEMMA InsertStep ==
    ASSUME ControllersAssumption, Accounts, NEW p \in Callers, NEW code \in ReturnCodes,
           createInsert(p, code)
    PROVE  Accounts' /\ WithinQuota
<1>1. TypeOK /\ CallOK(p)
  BY DEF Accounts, CallsOK
<1>a. /\ call[p].op = "create"
      /\ call[p].kind \in Kinds /\ call[p].ctl \in Controllers /\ call[p].id \in Ids
  BY <1>1, CallFacts DEF createInsert, CallOK, TypeOK
<1>b. PICK k \in Kinds, c \in Controllers, i \in Ids :
           k = call[p].kind /\ c = call[p].ctl /\ i = call[p].id
  BY <1>a
<1>2. /\ \A kk \in Kinds : kk # k => Held(kk, p) = {}
      /\ \E o \in Objects : Held(k, p) = {o}
  BY <1>1, <1>a, <1>b DEF CallOK
<1>3. CASE Entry(k, c, i) = {} /\ hasNamespaceQuota(k, c)
  <2>1. PICK o \in Objects : Held(k, p) = {o}
    BY <1>2
  <2>2. /\ place' = [place EXCEPT ![k] = [oo \in Objects |->
                        IF oo \in Held(k, p) THEN InMap(c, i) ELSE place[k][oo]]]
        /\ call' = [call EXCEPT ![p] = Idle]
        /\ UNCHANGED <<namespaceMap, numControllers, num, maxNum, maxNumNs, strict, crashed>>
    BY <1>b, <1>3 DEF createInsert
  <2>3. InMap(c, i) \in Places /\ Idle \in Calls
    BY <1>2 DEF Places, Calls
  <2>4. TypeOK'
    BY <1>1, <1>2, <2>2, <2>3 DEF TypeOK
  <2>5. place[k][o] = Pending(p)
    BY <2>1 DEF Held
  <2>6. \A kk \in Kinds, oo \in Objects :
           place'[kk][oo] = IF kk = k /\ oo = o THEN InMap(c, i) ELSE place[kk][oo]
    BY <1>1, <1>2, <2>1, <2>2 DEF TypeOK
  <2>7. Moved(p) /\ SameCounted
    BY <2>5, <2>6, PlaceFacts DEF Moved, SameCounted
  <2>8. CallOK(p)'
    <3>1. \A kk \in Kinds : Held(kk, p)' = {}
      BY <1>2, <2>1, <2>6, PlaceFacts DEF Held
    <3>2. call'[p].op = "idle"
      BY <1>1, <2>2, CallFacts DEF TypeOK
    <3> QED
      BY <3>1, <3>2 DEF CallOK, ReleaseOps
  <2>9. CallsOK' /\ CountsAddUp'
    BY <2>2, <2>7, <2>8, CallsStep, CountsStep, Zenon DEF Accounts
  <2>10. OneObjectPerId'
    <3> SUFFICES ASSUME NEW kk \in Kinds, NEW cc \in Controllers, NEW ii \in Ids
                 PROVE  Cardinality(Entry(kk, cc, ii)') <= 1
      BY DEF OneObjectPerId
    <3>1. CASE kk = k /\ cc = c /\ ii = i
      <4>1. Entry(k, c, i)' = {o}
        BY <1>2, <1>3, <2>6 DEF Entry
      <4> QED
        BY <3>1, <4>1, FS_Singleton
    <3>2. CASE ~(kk = k /\ cc = c /\ ii = i)
      <4>1. kk = k => InMap(c, i) # InMap(cc, ii) /\ Pending(p) # InMap(cc, ii)
        BY <3>2, PlaceFacts
      <4>2. Entry(kk, cc, ii)' = Entry(kk, cc, ii)
        BY <2>5, <2>6, <4>1 DEF Entry
      <4> QED
        BY <4>2 DEF Accounts, OneObjectPerId
    <3> QED
      BY <3>1, <3>2
  <2>11. WithinQuota
    <3>1. ASSUME NEW kk \in Kinds PROVE ~(Cardinality(Counted(kk)') > Cardinality(Counted(kk)))
      <4>1. Counted(kk)' = Counted(kk) /\ Counted(kk) \subseteq Objects
        BY <2>7 DEF SameCounted, Counted
      <4>2. Cardinality(Counted(kk)) \in Nat
        BY <4>1, FiniteObjects
      <4> QED
        BY <4>1, <4>2
    <3>2. Within(maxNumNs[c][k], Cardinality(Members(k, c)'))
      <4>1. Members(k, c)' = Members(k, c) \cup {o} /\ o \notin Members(k, c)
        BY <1>2, <2>5, <2>6, PlaceFacts DEF Members
      <4>2. IsFiniteSet(Members(k, c)) /\ Cardinality(Members(k, c)) \in Nat
        BY FiniteObjects DEF Members
      <4>3. Cardinality(Members(k, c)') = Cardinality(Members(k, c)) + 1
        BY <4>1, <4>2, FS_AddElement, Zenon
      <4>4. maxNumNs[c][k] \in Nat
        BY <1>1, <1>2, Zenon DEF TypeOK, ControllersAssumption
      <4>5. Cardinality(Members(k, c)) < maxNumNs[c][k] \/ maxNumNs[c][k] = 0
        BY <1>3 DEF hasNamespaceQuota
      <4> QED
        BY <4>2, <4>3, <4>4, <4>5 DEF Within
    <3>3. ASSUME NEW kk \in Kinds, NEW cc \in Controllers, ~(kk = k /\ cc = c)
          PROVE  ~(Cardinality(Members(kk, cc)') > Cardinality(Members(kk, cc)))
      <4>1. Members(kk, cc)' = Members(kk, cc) /\ Members(kk, cc) \subseteq Objects
        BY <2>5, <2>6, <3>3, PlaceFacts DEF Members
      <4>2. Cardinality(Members(kk, cc)) \in Nat
        BY <4>1, FiniteObjects
      <4> QED
        BY <4>1, <4>2
    <3> QED
      BY <3>1, <3>2, <3>3 DEF WithinQuota
  <2> QED
    BY <2>4, <2>9, <2>10, <2>11 DEF Accounts
<1>4. CASE ~(Entry(k, c, i) = {} /\ hasNamespaceQuota(k, c))
  <2> DEFINE x == Call("settle", k, c, i, code)
  <2>1. /\ call' = [call EXCEPT ![p] = x]
        /\ UNCHANGED <<place, namespaceMap, numControllers, num, maxNum, maxNumNs, strict, crashed>>
    BY <1>b, <1>4 DEF createInsert
  <2>2. x \in Calls /\ x.op = "settle" /\ x.kind = k
    <3>1. i \in Ids \cup {NoId}
      BY <1>2
    <3> QED
      BY <1>2, <3>1, CallIsCall
  <2> HIDE DEF x
  <2>3. TypeOK'
    BY <1>1, <2>1, <2>2 DEF TypeOK
  <2>4. Moved(p) /\ NoneInserted /\ SameCounted
    BY <2>1 DEF Moved, NoneInserted, SameCounted
  <2>5. CallOK(p)'
    <3>1. \A kk \in Kinds : Held(kk, p)' = Held(kk, p)
      BY <2>1 DEF Held
    <3>2. call'[p] = x
      BY <1>1, <2>1 DEF TypeOK
    <3> QED
      BY <1>2, <2>2, <3>1, <3>2 DEF CallOK, ReleaseOps
  <2> QED
    BY <2>1, <2>3, <2>4, <2>5, KeepingStep, Zenon
<1> QED
  BY <1>3, <1>4

LEMMA SettleStep ==
    ASSUME ControllersAssumption, Accounts, NEW p \in Callers, NEW code \in ReturnCodes,
           settle(p, code)
    PROVE  Accounts' /\ WithinQuota
<1>1. TypeOK /\ CallOK(p)
  BY DEF Accounts, CallsOK
<1>2. call[p].op = "settle" /\ call[p].kind \in Kinds
  BY <1>1, CallFacts DEF settle, TypeOK
<1>3. PICK k \in Kinds : k = call[p].kind
  BY <1>2
<1>4. /\ num' = [num EXCEPT ![k] = @ - Cardinality(Held(k, p))]
      /\ place' = [place EXCEPT ![k] = [o \in Objects |->
                      IF o \in Held(k, p) THEN Free ELSE place[k][o]]]
      /\ call' = [call EXCEPT ![p] = Idle]
      /\ UNCHANGED <<namespaceMap, numControllers, maxNum, maxNumNs, strict, crashed>>
  BY <1>3 DEF settle
<1>5. \A kk \in Kinds : kk # k => Held(kk, p) = {} /\ Cardinality(Held(kk, p)) = 0
  BY <1>1, <1>2, <1>3, FS_EmptySet DEF CallOK
<1>6. \A kk \in Kinds : /\ Held(kk, p) \subseteq Counted(kk) /\ Held(kk, p) \subseteq Objects
                        /\ Cardinality(Held(kk, p)) \in Nat
  <2>1. \A kk \in Kinds : Held(kk, p) \subseteq Counted(kk) /\ Held(kk, p) \subseteq Objects
    BY PlaceFacts DEF Held, Counted
  <2> QED
    BY <2>1, FiniteObjects
<1>7. \A kk \in Kinds : num'[kk] = num[kk] - Cardinality(Held(kk, p))
  BY <1>1, <1>4, <1>5, <1>6 DEF TypeOK
<1>8. \A kk \in Kinds, o \in Objects :
         place'[kk][o] = IF o \in Held(kk, p) THEN Free ELSE place[kk][o]
  BY <1>1, <1>4, <1>5 DEF TypeOK
<1>9. TypeOK'
  <2>1. Free \in Places /\ Idle \in Calls
    BY DEF Places, Calls
  <2>2. num' \in [Kinds -> Int]
    BY <1>1, <1>4, <1>6 DEF TypeOK
  <2> QED
    BY <1>1, <1>4, <2>1, <2>2 DEF TypeOK
<1>10. Moved(p)
  BY <1>8 DEF Moved, Held
<1>11. CallOK(p)'
  <2>1. \A kk \in Kinds : Held(kk, p)' = {}
    BY <1>8, PlaceFacts DEF Held
  <2>2. call'[p].op = "idle"
    BY <1>1, <1>4, CallFacts DEF TypeOK
  <2> QED
    BY <2>1, <2>2 DEF CallOK, ReleaseOps
<1>12. PICK G \in [Kinds -> SUBSET Objects] : G = [kk \in Kinds |-> Held(kk, p)]
  BY <1>6, Zenon
<1>13. \A kk \in Kinds : G[kk] = Held(kk, p)
  BY <1>12
<1>14. /\ \A kk \in Kinds : G[kk] \subseteq Counted(kk)
       /\ \A kk \in Kinds : num'[kk] = num[kk] - Cardinality(G[kk])
       /\ \A kk \in Kinds, o \in Objects :
             place'[kk][o] = IF o \in G[kk] THEN Free ELSE place[kk][o]
  BY <1>6, <1>7, <1>8, <1>13
<1> QED
  BY <1>4, <1>9, <1>10, <1>11, <1>14, FreeingStep, Zenon

\* A call begins, or ends, without an object.
LEMMA EmptyHandedStep ==
    ASSUME ControllersAssumption, Accounts, NEW p \in Callers, NEW x \in Calls,
           call' = [call EXCEPT ![p] = x], TypeOK', UNCHANGED <<place, num>>,
           \A k \in Kinds : Held(k, p) = {}, x.op # "create"
    PROVE  Accounts' /\ WithinQuota
<1>1. Moved(p) /\ NoneInserted /\ SameCounted
  BY DEF Moved, NoneInserted, SameCounted
<1>2. CallOK(p)'
  <2>1. \A k \in Kinds : Held(k, p)' = {}
    BY DEF Held
  <2>2. call'[p] = x
    BY DEF Accounts, TypeOK
  <2>3. "receiver" \in Kinds
    BY DEF Kinds
  <2> QED
    BY <2>1, <2>2, <2>3 DEF CallOK
<1> QED
  BY <1>1, <1>2, KeepingStep, Zenon

LEMMA IdleIsEmptyHanded ==
    ASSUME Accounts, NEW p \in Callers,
           call[p] = Idle \/ call[p].op \in {"deRegister_senders", "deRegister_wait"} \cup ReleaseOps
    PROVE  \A k \in Kinds : Held(k, p) = {}
BY CallFacts DEF Accounts, TypeOK, CallsOK, CallOK

LEMMA LookupStep ==
    ASSUME ControllersAssumption, Accounts, NEW p \in Callers, NEW op \in ReleaseOps,
           NEW k \in Kinds, NEW n \in Namespaces, NEW i \in Ids \cup {NoId},
           NEW code \in ReturnCodes, releaseLookup(p, op, k, n, i, code)
    PROVE  Accounts' /\ WithinQuota
<1>1. TypeOK
  BY DEF Accounts
<1>2. CASE namespaceMap[n] = NoController
  <2>1. TypeOK' /\ UNCHANGED <<place, num, call>>
    BY <1>1, <1>2 DEF releaseLookup, TypeOK
  <2> QED
    BY <2>1, SettingsStep
<1>3. CASE namespaceMap[n] # NoController
  <2>1. PICK c \in Controllers : c = namespaceMap[n]
    BY <1>1, <1>3 DEF TypeOK
  <2> DEFINE x == Call(op, k, c, i, "OK")
  <2>2. /\ call[p] = Idle /\ call' = [call EXCEPT ![p] = x]
        /\ UNCHANGED <<namespaceMap, numControllers, place, num, maxNum, maxNumNs, strict, crashed>>
    BY <1>3, <2>1 DEF releaseLookup
  <2>3. x \in Calls /\ x.op = op
    <3>1. "OK" \in ReturnCodes /\ op \in {"create", "settle"} \cup ReleaseOps \cup DeRegisterOps
      BY DEF ReturnCodes
    <3> QED
      BY <3>1, CallIsCall
  <2>4. x.op # "create"
    BY <2>3 DEF ReleaseOps
  <2> HIDE DEF x
  <2>5. TypeOK'
    BY <1>1, <2>2, <2>3 DEF TypeOK
  <2> QED
    BY <2>2, <2>3, <2>4, <2>5, IdleIsEmptyHanded, EmptyHandedStep, Zenon
<1> QED
  BY <1>2, <1>3

\* Objects go from a map to the call.
LEMMA TakeOutMoves ==
    ASSUME TypeOK, NEW p \in Callers, NEW k \in Kinds, NEW gone, TakeOut(p, k, gone),
           \A o \in gone : place[k][o].tag = "map"
    PROVE  /\ place' \in [Kinds -> [Objects -> Places]]
           /\ Moved(p) /\ NoneInserted /\ SameCounted
           /\ \A kk \in Kinds : kk # k => Held(kk, p)' = Held(kk, p)
           /\ gone = {} => Held(k, p)' = Held(k, p)
<1>1. Pending(p) \in Places
  BY DEF Places
<1>2. place' \in [Kinds -> [Objects -> Places]]
  BY <1>1 DEF TakeOut, TypeOK
<1>3. \A kk \in Kinds, o \in Objects :
         place'[kk][o] = IF kk = k /\ o \in gone THEN Pending(p) ELSE place[kk][o]
  BY DEF TakeOut, TypeOK
<1>f. Pending(p) # Free /\ Pending(p).tag # "map" /\ Free.tag # "map"
  BY PlaceFacts
<1>4. Moved(p) /\ NoneInserted /\ SameCounted
  BY <1>3, <1>f DEF Moved, NoneInserted, SameCounted
<1>5. /\ \A kk \in Kinds : kk # k => Held(kk, p)' = Held(kk, p)
      /\ gone = {} => Held(k, p)' = Held(k, p)
  BY <1>3 DEF Held
<1> QED
  BY <1>2, <1>4, <1>5

LEMMA EraseStep ==
    ASSUME ControllersAssumption, Accounts, NEW p \in Callers, NEW code \in ReturnCodes,
           NEW gone \in SUBSET Objects, releaseErase(p, gone, code)
    PROVE  Accounts' /\ WithinQuota
<1>1. TypeOK
  BY DEF Accounts
<1>2. /\ call[p].op \in ReleaseOps /\ call[p].kind \in Kinds /\ call[p].ctl \in Controllers
      /\ call[p].id \in Ids \cup {NoId}
  BY <1>1, CallFacts DEF releaseErase, TypeOK
<1>3. PICK k \in Kinds, c \in Controllers, i \in Ids \cup {NoId} :
           k = call[p].kind /\ c = call[p].ctl /\ i = call[p].id
  BY <1>2
<1>4. PICK x : x = IF gone = {} THEN Idle ELSE Call("settle", k, c, i, "OK")
  BY Zenon
<1>5. /\ Released(call[p].op, k, c, i, gone) /\ TakeOut(p, k, gone)
      /\ call' = [call EXCEPT ![p] = x]
      /\ UNCHANGED <<namespaceMap, numControllers, num, maxNum, maxNumNs, strict, crashed>>
  BY <1>3, <1>4 DEF releaseErase
<1>6. \A o \in gone : place[k][o].tag = "map"
  <2>1. InMap(c, i).tag = "map"
    BY PlaceFacts
  <2> QED
    BY <1>5, <2>1 DEF Released, Entry, Members
<1>7. /\ place' \in [Kinds -> [Objects -> Places]]
      /\ Moved(p) /\ NoneInserted /\ SameCounted
      /\ \A kk \in Kinds : kk # k => Held(kk, p)' = Held(kk, p)
      /\ gone = {} => Held(k, p)' = Held(k, p)
  BY <1>1, <1>5, <1>6, TakeOutMoves, Zenon
<1>8. /\ x \in Calls
      /\ gone = {} => x.op = "idle"
      /\ gone # {} => x.op = "settle" /\ x.kind = k
  <2>1. "OK" \in ReturnCodes
    BY DEF ReturnCodes
  <2>2. /\ Call("settle", k, c, i, "OK") \in Calls
        /\ Call("settle", k, c, i, "OK").op = "settle" /\ Call("settle", k, c, i, "OK").kind = k
    BY <2>1, CallIsCall
  <2>3. Idle \in Calls /\ Idle.op = "idle"
    BY DEF Calls, Idle
  <2> QED
    BY <1>4, <2>2, <2>3
<1>9. TypeOK'
  BY <1>1, <1>5, <1>7, <1>8 DEF TypeOK
<1>10. CallOK(p)'
  <2>1. \A kk \in Kinds : Held(kk, p) = {}
    BY <1>2, IdleIsEmptyHanded
  <2>2. call'[p] = x
    BY <1>1, <1>5 DEF TypeOK
  <2>3. /\ \A kk \in Kinds : kk # k => Held(kk, p)' = {}
        /\ gone = {} => Held(k, p)' = {}
    BY <1>7, <2>1
  <2> QED
    BY <1>8, <2>2, <2>3 DEF CallOK, ReleaseOps
<1> QED
  BY <1>5, <1>7, <1>9, <1>10, KeepingStep, Zenon

LEMMA DeRegisterEraseStep ==
    ASSUME ControllersAssumption, Accounts, NEW p \in Callers, NEW n \in Namespaces,
           deRegisterErase(p, n)
    PROVE  Accounts' /\ WithinQuota
<1>1. TypeOK
  BY DEF Accounts
<1>2. PICK c \in Controllers : c = namespaceMap[n]
  BY <1>1 DEF TypeOK, deRegisterErase
<1> DEFINE x == Call("deRegister_senders", "sender", c, NoId, "OK")
<1>3. /\ call[p] = Idle /\ call' = [call EXCEPT ![p] = x]
      /\ namespaceMap' = [namespaceMap EXCEPT ![n] = NoController]
      /\ UNCHANGED <<numControllers, place, num, maxNum, maxNumNs, strict, crashed>>
  BY <1>2 DEF deRegisterErase
<1>4. x \in Calls /\ x.op = "deRegister_senders"
  <2>1. /\ "OK" \in ReturnCodes /\ "sender" \in Kinds /\ NoId \in Ids \cup {NoId}
        /\ "deRegister_senders" \in {"create", "settle"} \cup ReleaseOps \cup DeRegisterOps
    BY DEF ReturnCodes, Kinds, DeRegisterOps
  <2> QED
    BY <2>1, CallIsCall
<1> HIDE DEF x
<1>5. TypeOK'
  BY <1>1, <1>3, <1>4 DEF TypeOK
<1> QED
  BY <1>3, <1>4, <1>5, IdleIsEmptyHanded, EmptyHandedStep, Zenon

\* A call of which only the operation changes.
LEMMA NextOp ==
    ASSUME call \in [Callers -> Calls], NEW p \in Callers, call[p] # Idle, NEW op \in DeRegisterOps,
           call' = [call EXCEPT ![p].op = op]
    PROVE  /\ call' \in [Callers -> Calls] /\ call'[p].op = op
           /\ \E x : call' = [call EXCEPT ![p] = x]
<1> DEFINE Others == [op : {"create", "settle"} \cup ReleaseOps \cup DeRegisterOps, kind : Kinds,
                      ctl : Controllers, id : Ids \cup {NoId}, ret : ReturnCodes]
           x == [call[p] EXCEPT !.op = op]
<1>1. call[p] \in Others
  BY DEF Calls
<1>2. x \in Others /\ x.op = op
  BY <1>1
<1>3. x \in Calls
  BY <1>2 DEF Calls
<1>4. call' = [call EXCEPT ![p] = x]
  OBVIOUS
<1> HIDE DEF x, Others
<1> QED
  BY <1>2, <1>3, <1>4, Zenon

LEMMA DeRegisterReleaseStep ==
    ASSUME ControllersAssumption, Accounts, NEW p \in Callers, deRegisterRelease(p)
    PROVE  Accounts' /\ WithinQuota
<1>1. TypeOK /\ CallOK(p) /\ "sender" \in Kinds /\ "receiver" \in Kinds
  BY DEF Accounts, CallsOK, Kinds
<1>2. /\ call[p] # Idle
      /\ UNCHANGED <<namespaceMap, numControllers, num, maxNum, maxNumNs, strict, crashed>>
  BY DEF deRegisterRelease
<1>3. CASE /\ call[p].op = "deRegister_senders"
           /\ TakeOut(p, "sender", Members("sender", call[p].ctl))
           /\ call' = [call EXCEPT ![p].op = "deRegister_receivers"]
  <2>1. \A o \in Members("sender", call[p].ctl) : place["sender"][o].tag = "map"
    BY DEF Members
  <2>2. PICK gone : gone = Members("sender", call[p].ctl)
    OBVIOUS
  <2>3. /\ place' \in [Kinds -> [Objects -> Places]]
        /\ Moved(p) /\ NoneInserted /\ SameCounted
        /\ \A kk \in Kinds : kk # "sender" => Held(kk, p)' = Held(kk, p)
    BY <1>1, <1>3, <2>1, <2>2, TakeOutMoves
  <2>4. "deRegister_receivers" \in DeRegisterOps
    BY DEF DeRegisterOps
  <2>5. /\ call' \in [Callers -> Calls] /\ call'[p].op = "deRegister_receivers"
        /\ \E x : call' = [call EXCEPT ![p] = x]
    BY <1>1, <1>2, <1>3, <2>4, NextOp, Zenon DEF TypeOK
  <2>6. TypeOK'
    BY <1>1, <1>2, <2>3, <2>5 DEF TypeOK
  <2>7. Held("receiver", p)' = {}
    BY <1>1, <1>3, <2>3, IdleIsEmptyHanded
  <2>8. CallOK(p)'
    BY <2>5, <2>7 DEF CallOK, ReleaseOps
  <2> QED
    BY <1>2, <2>3, <2>5, <2>6, <2>8, KeepingStep, Zenon
<1>4. CASE /\ call[p].op = "deRegister_receivers"
           /\ TakeOut(p, "receiver", Members("receiver", call[p].ctl))
           /\ call' = [call EXCEPT ![p].op = "deRegister_counts"]
  <2>1. \A o \in Members("receiver", call[p].ctl) : place["receiver"][o].tag = "map"
    BY DEF Members
  <2>2. PICK gone : gone = Members("receiver", call[p].ctl)
    OBVIOUS
  <2>3. /\ place' \in [Kinds -> [Objects -> Places]]
        /\ Moved(p) /\ NoneInserted /\ SameCounted
    BY <1>1, <1>4, <2>1, <2>2, TakeOutMoves
  <2>4. "deRegister_counts" \in DeRegisterOps
    BY DEF DeRegisterOps
  <2>5. /\ call' \in [Callers -> Calls] /\ call'[p].op = "deRegister_counts"
        /\ \E x : call' = [call EXCEPT ![p] = x]
    BY <1>1, <1>2, <1>4, <2>4, NextOp, Zenon DEF TypeOK
  <2>6. TypeOK'
    BY <1>1, <1>2, <2>3, <2>5 DEF TypeOK
  <2>7. CallOK(p)'
    BY <2>5 DEF CallOK, ReleaseOps
  <2> QED
    BY <1>2, <2>3, <2>5, <2>6, <2>7, KeepingStep, Zenon
<1> QED
  BY <1>3, <1>4 DEF deRegisterRelease

LEMMA DeRegisterCountsStep ==
    ASSUME ControllersAssumption, Accounts, NEW p \in Callers, deRegisterCounts(p)
    PROVE  Accounts' /\ WithinQuota
<1>1. TypeOK
  BY DEF Accounts
<1>2. PICK G \in [Kinds -> SUBSET Objects] : G = [k \in Kinds |-> Held(k, p)]
  BY Zenon DEF Held
<1>3. \A k \in Kinds : G[k] = Held(k, p) /\ G[k] \subseteq Objects
  BY <1>2
<1>4. /\ call[p] # Idle
      /\ num' = [k \in Kinds |-> num[k] - Cardinality(G[k])]
      /\ place' = [k \in Kinds |-> [o \in Objects |-> IF o \in G[k] THEN Free ELSE place[k][o]]]
      /\ call' = [call EXCEPT ![p].op = "deRegister_wait"]
      /\ UNCHANGED <<namespaceMap, numControllers, maxNum, maxNumNs, strict, crashed>>
  BY <1>3 DEF deRegisterCounts
<1>5. \A k \in Kinds : G[k] \subseteq Counted(k) /\ Cardinality(G[k]) \in Nat
  <2>1. \A k \in Kinds : Held(k, p) \subseteq Counted(k)
    BY PlaceFacts DEF Held, Counted
  <2> QED
    BY <1>3, <2>1, FiniteObjects
<1>6. /\ \A k \in Kinds : num'[k] = num[k] - Cardinality(G[k])
      /\ \A k \in Kinds, o \in Objects : place'[k][o] = IF o \in G[k] THEN Free ELSE place[k][o]
  BY <1>4
<1>7. /\ call' \in [Callers -> Calls] /\ call'[p].op = "deRegister_wait"
      /\ \E x : call' = [call EXCEPT ![p] = x]
  <2>1. "deRegister_wait" \in DeRegisterOps
    BY DEF DeRegisterOps
  <2> QED
    BY <1>1, <1>4, <2>1, NextOp, Zenon DEF TypeOK
<1>8. TypeOK'
  <2>1. Free \in Places
    BY DEF Places
  <2>2. num' \in [Kinds -> Int]
    BY <1>1, <1>4, <1>5 DEF TypeOK
  <2> QED
    BY <1>1, <1>4, <1>7, <2>1, <2>2 DEF TypeOK
<1>9. Moved(p)
  BY <1>3, <1>6 DEF Moved, Held
<1>10. CallOK(p)'
  <2>f. Free # Pending(p)
    BY PlaceFacts
  <2>1. ASSUME NEW k \in Kinds PROVE Held(k, p)' = {}
    <3>1. ASSUME NEW o \in Objects PROVE place'[k][o] # Pending(p)
      <4>1. o \in G[k] <=> place[k][o] = Pending(p)
        BY <1>3 DEF Held
      <4> QED
        BY <1>6, <2>f, <4>1
    <3> QED
      BY <3>1 DEF Held
  <2> QED
    BY <1>7, <2>1 DEF CallOK, ReleaseOps
<1> QED
  BY <1>5, <1>6, <1>7, <1>8, <1>9, <1>10, FreeingStep, Zenon

\* What the controller still has is lost, and stays counted.
LEMMA DeRegisterWaitStep ==
    ASSUME ControllersAssumption, Accounts, NEW p \in Callers, deRegisterWait(p)
    PROVE  Accounts' /\ WithinQuota
<1>1. /\ call[p].op = "deRegister_wait" /\ call' = [call EXCEPT ![p] = Idle]
      /\ place' = [k \in Kinds |-> [o \in Objects |->
                      IF o \in Members(k, call[p].ctl) THEN Lost ELSE place[k][o]]]
      /\ UNCHANGED <<namespaceMap, numControllers, num, maxNum, maxNumNs, strict, crashed>>
  BY DEF deRegisterWait
<1>2. \A k \in Kinds, o \in Objects :
         \/ place'[k][o] = place[k][o]
         \/ place'[k][o] = Lost /\ place[k][o].tag = "map"
  BY <1>1 DEF Members
<1>3. TypeOK'
  <2>1. Lost \in Places /\ Idle \in Calls
    BY DEF Places, Calls
  <2>2. place' \in [Kinds -> [Objects -> Places]]
    BY <1>1, <2>1 DEF Accounts, TypeOK
  <2> QED
    BY <1>1, <2>1, <2>2 DEF Accounts, TypeOK
<1>4. Moved(p) /\ NoneInserted /\ SameCounted
  <2>1. Lost # Free /\ Lost.tag # "map" /\ Free.tag # "map"
    BY PlaceFacts
  <2> QED
    BY <1>2, <2>1 DEF Moved, NoneInserted, SameCounted
<1>5. CallOK(p)'
  <2>1. \A k \in Kinds : Held(k, p) = {}
    BY <1>1 DEF Accounts, CallsOK, CallOK
  <2>2. Lost # Pending(p)
    BY PlaceFacts
  <2>3. \A k \in Kinds : Held(k, p)' = {}
    BY <1>2, <2>1, <2>2 DEF Held
  <2>4. call'[p].op = "idle"
    BY <1>1 DEF Accounts, TypeOK, Idle
  <2> QED
    BY <2>3, <2>4 DEF CallOK, ReleaseOps
<1> QED
  BY <1>1, <1>3, <1>4, <1>5, KeepingStep, Zenon

LEMMA ShutdownStep ==
    ASSUME ControllersAssumption, Accounts, NEW p \in Callers, shutdown(p)
    PROVE  Accounts' /\ WithinQuota
<1>1. TypeOK
  BY DEF Accounts
<1>2. PICK G \in [Kinds -> SUBSET Objects] : G = [k \in Kinds |-> Registered(k)]
  BY Zenon DEF Registered, Members
<1>3. \A k \in Kinds : G[k] = Registered(k) /\ G[k] \subseteq Objects
  BY <1>2
<1>4. /\ call[p] = Idle
      /\ num' = [k \in Kinds |-> num[k] - Cardinality(G[k])]
      /\ place' = [k \in Kinds |-> [o \in Objects |-> IF o \in G[k] THEN Free ELSE place[k][o]]]
      /\ namespaceMap' = [n \in Namespaces |-> NoController]
      /\ crashed' \in BOOLEAN
      /\ UNCHANGED <<numControllers, maxNum, maxNumNs, strict, call>>
  BY <1>3 DEF shutdown
<1>5. \A k \in Kinds, o \in Objects : o \in G[k] => place[k][o].tag = "map"
  BY <1>3 DEF Registered, Members
<1>6. \A k \in Kinds : G[k] \subseteq Counted(k) /\ Cardinality(G[k]) \in Nat
  <2>1. \A k \in Kinds : G[k] \subseteq Counted(k)
    BY <1>3, <1>5, PlaceFacts DEF Counted
  <2> QED
    BY <1>3, <2>1, FiniteObjects
<1>7. /\ \A k \in Kinds : num'[k] = num[k] - Cardinality(G[k])
      /\ \A k \in Kinds, o \in Objects : place'[k][o] = IF o \in G[k] THEN Free ELSE place[k][o]
  BY <1>4
<1>8. TypeOK'
  <2>1. Free \in Places /\ NoController \in Controllers \cup {NoController}
    BY DEF Places
  <2>2. num' \in [Kinds -> Int]
    BY <1>1, <1>4, <1>6 DEF TypeOK
  <2> QED
    BY <1>1, <1>4, <2>1, <2>2 DEF TypeOK
<1>9. Moved(p)
  BY <1>5, <1>7 DEF Moved
<1>10. CallOK(p)'
  <2>1. \A k \in Kinds : Held(k, p) = {}
    BY <1>4, IdleIsEmptyHanded, Zenon
  <2>f. Free # Pending(p)
    BY PlaceFacts
  <2>2. ASSUME NEW k \in Kinds PROVE Held(k, p)' = {}
    <3>1. ASSUME NEW o \in Objects PROVE place'[k][o] # Pending(p)
      <4>1. place[k][o] # Pending(p)
        BY <2>1 DEF Held
      <4> QED
        BY <1>7, <2>f, <4>1
    <3> QED
      BY <3>1 DEF Held
  <2>3. call'[p].op = "idle"
    BY <1>4 DEF Idle
  <2> QED
    BY <2>2, <2>3 DEF CallOK, ReleaseOps
<1>11. call' = [call EXCEPT ![p] = call[p]]
  BY <1>1, <1>4 DEF TypeOK
<1> QED
  BY <1>6, <1>7, <1>8, <1>9, <1>10, <1>11, FreeingStep, Zenon

LEMMA SettingsSteps ==
    ASSUME ControllersAssumption, Accounts, NEW p \in Callers, NEW n \in Namespaces,
           \/ registerWdtNamespace(p, n)
           \/ \E k \in Kinds : \/ \E m \in GlobalLimits : updateMaxLimit(p, k, m)
                               \/ \E m \in NamespaceLimits : updateMaxNamespaceLimit(p, k, n, m)
           \/ \E b \in BOOLEAN : requireRegistration(p, b)
    PROVE  Accounts' /\ WithinQuota
<1>1. TypeOK
  BY DEF Accounts
<1>2. CASE registerWdtNamespace(p, n)
  <2>1. TypeOK' /\ UNCHANGED <<place, num, call>>
    BY <1>1, <1>2, ControllersStep DEF registerWdtNamespace, TypeOK
  <2> QED
    BY <2>1, SettingsStep
<1>3. CASE \E k \in Kinds, m \in GlobalLimits : updateMaxLimit(p, k, m)
  <2>1. TypeOK' /\ UNCHANGED <<place, num, call>>
    BY <1>1, <1>3 DEF updateMaxLimit, TypeOK
  <2> QED
    BY <2>1, SettingsStep
<1>4. CASE \E k \in Kinds, m \in NamespaceLimits : updateMaxNamespaceLimit(p, k, n, m)
  <2>1. UNCHANGED <<namespaceMap, numControllers, place, num, maxNum, strict, call, crashed>>
    BY <1>4 DEF updateMaxNamespaceLimit
  <2>2. maxNumNs' \in [Controllers -> [Kinds -> NamespaceLimits]]
    BY <1>1, <1>4 DEF updateMaxNamespaceLimit, TypeOK
  <2>3. TypeOK'
    BY <1>1, <2>1, <2>2 DEF TypeOK
  <2> QED
    BY <2>1, <2>3, SettingsStep
<1>5. CASE \E b \in BOOLEAN : requireRegistration(p, b)
  <2>1. TypeOK' /\ UNCHANGED <<place, num, call>>
    BY <1>1, <1>5 DEF requireRegistration, TypeOK
  <2> QED
    BY <2>1, SettingsStep
<1> QED
  BY <1>2, <1>3, <1>4, <1>5
----------------------------------------------------------------------------
LEMMA AccountsInit == ASSUME ControllersAssumption, Init PROVE Accounts
<1>1. \A k \in Kinds, o \in Objects : place[k][o] = Free
  BY DEF Init
<1>2. \A p \in Callers : call[p].op = "idle"
  BY DEF Init, Idle
<1>3. TypeOK
  <2>1. Free \in Places /\ Idle \in Calls /\ 0 \in 0..MaxControllers
    BY DEF Places, Calls, ControllersAssumption
  <2>2. place \in [Kinds -> [Objects -> Places]] /\ num \in [Kinds -> Int]
    BY <2>1 DEF Init
  <2>3. call \in [Callers -> Calls]
    BY <2>1 DEF Init
  <2> QED
    BY <2>1, <2>2, <2>3, Zenon DEF Init, TypeOK
<1>4. CallsOK
  <2>1. \A p \in Callers, k \in Kinds : Held(k, p) = {}
    BY <1>1, PlaceFacts DEF Held
  <2> QED
    BY <1>2, <2>1 DEF CallsOK, CallOK
<1>5. CountsAddUp
  <2>1. \A k \in Kinds : Counted(k) = {} /\ num[k] = 0
    BY <1>1 DEF Counted, Init
  <2> QED
    BY <2>1, FS_EmptySet DEF CountsAddUp
<1>6. OneObjectPerId
  <2>1. \A k \in Kinds, c \in Controllers, i \in Ids : Entry(k, c, i) = {}
    <3>1. \A c, i : InMap(c, i) # Free
      BY PlaceFacts
    <3> QED
      BY <1>1, <3>1 DEF Entry
  <2>2. Cardinality({}) <= 1
    BY FS_EmptySet
  <2> QED
    BY <2>1, <2>2 DEF OneObjectPerId
<1> QED
  BY <1>3, <1>4, <1>5, <1>6 DEF Accounts

LEMMA AccountsNext ==
    ASSUME ControllersAssumption, Accounts, Next
    PROVE  Accounts' /\ WithinQuota
<1> PICK p \in Callers : Proceed(p) \/ \E n \in Namespaces : Begin(p, n)
  BY DEF Next
<1>1. CASE Proceed(p)
  BY <1>1, InsertStep, SettleStep, EraseStep, DeRegisterReleaseStep, DeRegisterCountsStep,
     DeRegisterWaitStep DEF Proceed
<1>2. ASSUME NEW n \in Namespaces, Begin(p, n) PROVE Accounts' /\ WithinQuota
  <2>1. /\ "sender" \in Kinds /\ "receiver" \in Kinds /\ Ids \subseteq Ids \cup {NoId}
        /\ NoId \in Ids \cup {NoId}
        /\ "releaseOne" \in ReleaseOps /\ "releaseAll" \in ReleaseOps
        /\ "releaseStale" \in ReleaseOps
    BY DEF Kinds, ReleaseOps
  <2>2. CASE \E i \in Ids, code \in ReturnCodes :
                createSender(p, n, i, code) \/ createReceiver(p, n, i, code)
    BY <2>1, <2>2, ReserveStep DEF createSender, createReceiver
  <2>3. CASE \E i \in Ids, code \in ReturnCodes :
                releaseSender(p, n, i, code) \/ releaseReceiver(p, n, i, code)
    BY <2>1, <2>3, LookupStep DEF releaseSender, releaseReceiver
  <2>4. CASE \/ releaseAllSenders(p, n) \/ releaseAllReceivers(p, n)
             \/ releaseStaleSenders(p, n) \/ releaseStaleReceivers(p, n)
    BY <2>1, <2>4, LookupStep DEF releaseAllSenders, releaseAllReceivers, releaseStaleSenders,
       releaseStaleReceivers
  <2>5. CASE \/ registerWdtNamespace(p, n)
             \/ \E k \in Kinds : \/ \E m \in GlobalLimits : updateMaxLimit(p, k, m)
                                 \/ \E m \in NamespaceLimits : updateMaxNamespaceLimit(p, k, n, m)
             \/ \E b \in BOOLEAN : requireRegistration(p, b)
    BY <2>5, SettingsSteps
  <2>6. CASE deRegisterErase(p, n)
    BY <2>6, DeRegisterEraseStep
  <2>7. CASE shutdown(p)
    BY <2>7, ShutdownStep
  <2> QED
    BY <1>2, <2>2, <2>3, <2>4, <2>5, <2>6, <2>7 DEF Begin
<1> QED
  BY <1>1, <1>2

LEMMA AccountsStutter == ASSUME Accounts, UNCHANGED vars PROVE Accounts'
<1>1. TypeOK'
  BY DEF Accounts, TypeOK, vars
<1>2. CallsOK'
  <2> SUFFICES ASSUME NEW p \in Callers PROVE CallOK(p)'
    BY DEF CallsOK
  <2>1. CallOK(p) /\ call' = call
    BY DEF Accounts, CallsOK, vars
  <2>2. \A k : Held(k, p)' = Held(k, p)
    BY DEF Held, vars
  <2> QED
    BY <2>1, <2>2 DEF CallOK
<1>3. CountsAddUp' /\ OneObjectPerId'
  BY DEF Accounts, CountsAddUp, OneObjectPerId, Counted, Entry, vars
<1> QED
  BY <1>1, <1>2, <1>3 DEF Accounts

----------------------------------------------------------------------------
\* A step of p that takes no controller off its namespace, or hands it to the
\* de-registration of p, leaves what can be found to be found.
LEMMA LiveStays ==
    ASSUME NEW p \in Callers,
           \A n \in Namespaces : namespaceMap[n] \in Controllers =>
              \/ namespaceMap'[n] = namespaceMap[n]
              \/ call'[p].op \in DeRegisterOps /\ call'[p].ctl = namespaceMap[n],
           \A q \in Callers : q # p => call'[q] = call[q],
           call[p].op \in DeRegisterOps =>
              call'[p].op \in DeRegisterOps /\ call'[p].ctl = call[p].ctl,
           NEW c \in Controllers, Live(c)
    PROVE  Live(c)'
<1>1. CASE \E n \in Namespaces : namespaceMap[n] = c
  BY <1>1 DEF Live
<1>2. CASE \E q \in Callers : call[q].op \in DeRegisterOps /\ call[q].ctl = c
  <2>1. PICK q \in Callers : call[q].op \in DeRegisterOps /\ call[q].ctl = c
    BY <1>2
  <2>2. call'[q].op \in DeRegisterOps /\ call'[q].ctl = c
    BY <2>1
  <2> QED
    BY <2>2 DEF Live
<1> QED
  BY <1>1, <1>2 DEF Live

\* Such a step keeps Findable, when what it puts into a map or is about to put
\* into one can be found.
LEMMA FindableStep ==
    ASSUME TypeOK, Findable, ~crashed, NEW p \in Callers,
           \A c \in Controllers : Live(c) => Live(c)',
           \A k \in Kinds, o \in Objects : place'[k][o].tag = "map" =>
              place'[k][o] = place[k][o] \/ Live(place[k][o].ctl)',
           \A q \in Callers : q # p => call'[q] = call[q],
           call'[p].op = "create" => Live(call[p].ctl)'
    PROVE  Findable'
<1>1. ASSUME NEW k \in Kinds, NEW o \in Objects, place'[k][o].tag = "map"
      PROVE  Live(place[k][o].ctl)'
  <2>1. CASE place'[k][o] = place[k][o]
    <3>1. place[k][o] \in Places /\ place[k][o].tag = "map"
      BY <1>1, <2>1 DEF TypeOK
    <3>2. PICK c \in Controllers : c = place[k][o].ctl
      BY <3>1, PlaceFacts
    <3>3. Live(c)
      BY <3>1, <3>2 DEF Findable, Live
    <3>4. Live(c)'
      BY <3>3
    <3> QED
      BY <2>1, <3>2, <3>4, Zenon DEF Live
  <2> QED
    BY <1>1, <2>1
<1>2. ASSUME NEW q \in Callers, call'[q].op = "create" PROVE Live(call[q].ctl)'
  <2>1. CASE q # p
    <3>1. call'[q] = call[q] /\ call[q].op = "create"
      BY <1>2, <2>1
    <3>2. PICK c \in Controllers : c = call[q].ctl
      <4>1. call[q] # Idle
        BY <3>1 DEF Idle
      <4> QED
        BY <4>1, CallFacts DEF TypeOK
    <3>3. Live(c)
      BY <3>1, <3>2 DEF Findable, Live
    <3>4. Live(c)'
      BY <3>3
    <3> QED
      BY <3>1, <3>2, <3>4 DEF Live
  <2> QED
    BY <1>2, <2>1
<1> QED
  BY <1>1, <1>2 DEF Findable

\* A call begins, goes on, or ends, and no map gets anything.
LEMMA CallingStep ==
    ASSUME TypeOK, Findable, ~crashed, NEW p \in Callers, NoneInserted, UNCHANGED namespaceMap,
           NEW x, call' = [call EXCEPT ![p] = x], x.op # "create",
           call[p].op \in DeRegisterOps => x.op \in DeRegisterOps /\ x.ctl = call[p].ctl
    PROVE  Findable'
<1>1. /\ \A q \in Callers : q # p => call'[q] = call[q]
      /\ call'[p] = x
  BY DEF TypeOK
<1>2. \A c \in Controllers : Live(c) => Live(c)'
  BY <1>1, LiveStays
<1>3. \A k \in Kinds, o \in Objects : place'[k][o].tag = "map" => place'[k][o] = place[k][o]
  BY DEF NoneInserted
<1> QED
  BY <1>1, <1>2, <1>3, FindableStep

LEMMA CreationIsFindable ==
    ASSUME TypeOK, Findable, ~crashed, NEW p \in Callers, NEW k \in Kinds, NEW n \in Namespaces,
           NEW i \in Ids, NEW code \in ReturnCodes, createReserve(p, k, n, i, code)
    PROVE  Findable'
<1>1. call[p].op = "idle" /\ "idle" \notin DeRegisterOps \cup {"create"}
  BY DEF createReserve, Idle, DeRegisterOps
<1>2. CASE UNCHANGED <<namespaceMap, place, call>>
  BY <1>2 DEF createReserve, Findable, Live
<1>3. CASE ~UNCHANGED <<namespaceMap, place, call>>
  <2>0. getOrCreate(n) \in Controllers
    BY <1>3 DEF createReserve
  <2>c. PICK c \in Controllers : c = getOrCreate(n)
    BY <2>0
  <2>1. /\ namespaceMap' = [namespaceMap EXCEPT ![n] = c]
        /\ \/ UNCHANGED <<place, call>>
           \/ /\ call' = [call EXCEPT ![p] = Call("create", k, c, i, "OK")]
              /\ \E o \in Objects : place' = [place EXCEPT ![k][o] = Pending(p)]
    BY <1>3, <2>c DEF createReserve
  <2>2. namespaceMap'[n] = c /\ Live(c)'
    BY <2>1 DEF TypeOK, Live
  <2>3. \A m \in Namespaces : namespaceMap[m] \in Controllers => namespaceMap'[m] = namespaceMap[m]
    BY <2>1, <2>c DEF TypeOK, getOrCreate, NoController, Controllers
  <2>4. \A q \in Callers : q # p => call'[q] = call[q]
    BY <2>1 DEF TypeOK
  <2>5. \A cc \in Controllers : Live(cc) => Live(cc)'
    BY <1>1, <2>3, <2>4, LiveStays, Zenon
  <2>6. call'[p].op = "create" => Live(call[p].ctl)'
    <3>1. CASE call' = [call EXCEPT ![p] = Call("create", k, c, i, "OK")]
      <4>1. call'[p].ctl = c
        BY <3>1 DEF TypeOK, Call
      <4> QED
        BY <2>2, <4>1 DEF Live
    <3> QED
      BY <1>1, <2>1, <3>1
  <2>7. \A kk \in Kinds, o \in Objects : place'[kk][o].tag = "map" => place'[kk][o] = place[kk][o]
    <3>1. Pending(p).tag # "map"
      BY PlaceFacts
    <3> QED
      BY <2>1, <3>1 DEF TypeOK
  <2> QED
    BY <2>4, <2>5, <2>6, <2>7, FindableStep, Zenon
<1> QED
  BY <1>2, <1>3

LEMMA InsertionIsFindable ==
    ASSUME TypeOK, Findable, ~crashed, NEW p \in Callers, NEW code \in ReturnCodes,
           createInsert(p, code)
    PROVE  Findable'
<1>1. call[p] # Idle /\ call[p].op = "create" /\ "create" \notin DeRegisterOps
  BY DEF createInsert, DeRegisterOps
<1>2. PICK k \in Kinds, c \in Controllers, i \in Ids \cup {NoId} :
         k = call[p].kind /\ c = call[p].ctl /\ i = call[p].id
  BY <1>1, CallFacts DEF TypeOK
<1>3. /\ UNCHANGED namespaceMap
      /\ \/ call' = [call EXCEPT ![p] = Idle]
         \/ call' = [call EXCEPT ![p] = Call("settle", k, c, i, code)]
      /\ \/ UNCHANGED place
         \/ place' = [place EXCEPT ![k] = [o \in Objects |->
                         IF o \in Held(k, p) THEN InMap(c, i) ELSE place[k][o]]]
  BY <1>2, Zenon DEF createInsert
<1>4. call'[p].op # "create" /\ \A q \in Callers : q # p => call'[q] = call[q]
  <2>1. Idle.op # "create" /\ Call("settle", k, c, i, code).op # "create"
    BY DEF Idle, Call
  <2>2. call \in [Callers -> Calls]
    BY DEF TypeOK
  <2> QED
    BY <1>3, <2>1, <2>2
<1>5. \A cc \in Controllers : Live(cc) => Live(cc)'
  BY <1>1, <1>3, <1>4, LiveStays, Zenon
<1>6. Live(c)'
  <2>1. Live(c)
    BY <1>1, <1>2, Zenon DEF Findable, Live
  <2> QED
    BY <1>5, <2>1
<1>7. ASSUME NEW kk \in Kinds, NEW o \in Objects
      PROVE  place'[kk][o] = place[kk][o] \/ Live(place[kk][o].ctl)'
  <2>1. place'[kk][o] = place[kk][o] \/ place'[kk][o] = InMap(c, i)
    BY <1>3 DEF TypeOK
  <2>2. InMap(c, i).ctl = c
    BY PlaceFacts
  <2> QED
    BY <1>6, <2>1, <2>2 DEF Live
<1> QED
  BY <1>4, <1>5, <1>7, FindableStep, Zenon

\* A controller goes when no creation that could put something into its map is
\* in flight, and what it has is lost.
LEMMA WaitIsFindable ==
    ASSUME TypeOK, Findable, ~crashed, NEW p \in Callers, deRegisterWait(p)
    PROVE  Findable'
<1>1. /\ call[p] # Idle /\ UseCountIsOne(p, call[p].ctl)
      /\ call' = [call EXCEPT ![p] = Idle]
      /\ place' = [k \in Kinds |-> [o \in Objects |->
                      IF o \in Members(k, call[p].ctl) THEN Lost ELSE place[k][o]]]
      /\ UNCHANGED <<namespaceMap, crashed>>
  BY DEF deRegisterWait
<1>2. ASSUME NEW c \in Controllers, c # call[p].ctl, Live(c)
      PROVE  Live(c)'
  <2>1. CASE \E n \in Namespaces : namespaceMap[n] = c
    BY <1>1, <2>1 DEF Live
  <2>2. CASE \E q \in Callers : call[q].op \in DeRegisterOps /\ call[q].ctl = c
    <3>1. PICK q \in Callers : call[q].op \in DeRegisterOps /\ call[q].ctl = c
      BY <2>2
    <3>2. call'[q] = call[q]
      BY <1>1, <1>2, <3>1 DEF TypeOK
    <3> QED
      BY <3>1, <3>2 DEF Live
  <2> QED
    BY <1>2, <2>1, <2>2 DEF Live
<1>3. ASSUME NEW k \in Kinds, NEW o \in Objects, place'[k][o].tag = "map"
      PROVE  Live(place[k][o].ctl)'
  <2>1. o \notin Members(k, call[p].ctl) /\ place'[k][o] = place[k][o]
    BY <1>1, <1>3, PlaceFacts
  <2>2. place[k][o] \in Places /\ place[k][o].tag = "map"
    BY <1>3, <2>1, Zenon DEF TypeOK
  <2>3. PICK c \in Controllers : c = place[k][o].ctl
    BY <2>2, PlaceFacts
  <2>4. c # call[p].ctl /\ Live(c)
    BY <2>1, <2>2, <2>3 DEF Members, Findable, Live
  <2>5. Live(c)'
    BY <1>2, <2>4
  <2> QED
    BY <2>1, <2>3, <2>5 DEF Live
<1>4. ASSUME NEW q \in Callers, call'[q].op = "create"
      PROVE  Live(call[q].ctl)'
  <2>1. q # p /\ call'[q] = call[q] /\ call[q] # Idle
    BY <1>1, <1>4 DEF TypeOK, Idle
  <2>2. PICK c \in Controllers : c = call[q].ctl
    BY <2>1, CallFacts DEF TypeOK
  <2>3. c # call[p].ctl /\ Live(c)
    BY <1>1, <1>4, <2>1, <2>2 DEF UseCountIsOne, Findable, Live
  <2>4. Live(c)'
    BY <1>2, <2>3
  <2> QED
    BY <2>1, <2>2, <2>4 DEF Live
<1> QED
  BY <1>3, <1>4 DEF Findable

\* A shutdown empties the maps that are registered; if its checks hold, no
\* creation is in flight.
LEMMA ShutdownIsFindable ==
    ASSUME ControllersAssumption, Accounts, Findable, ~crashed, NEW p \in Callers, shutdown(p),
           Accounts'
    PROVE  Findable'
<1>1. /\ place' = [k \in Kinds |-> [o \in Objects |->
                      IF o \in Registered(k) THEN Free ELSE place[k][o]]]
      /\ call' = call
      /\ ~crashed' => num' = [k \in Kinds |-> 0]
  BY Zenon DEF shutdown
<1>2. ASSUME NEW k \in Kinds, NEW o \in Objects, place'[k][o].tag = "map"
      PROVE  Live(place[k][o].ctl)'
  <2>1. o \notin Registered(k) /\ place'[k][o] = place[k][o]
    BY <1>1, <1>2, PlaceFacts
  <2>2. Live(place[k][o].ctl) /\ place[k][o].tag = "map"
    BY <1>2, <2>1 DEF Findable
  <2>3. \A n \in Namespaces : namespaceMap[n] # place[k][o].ctl
    BY <2>1, <2>2 DEF Registered, Members
  <2>4. PICK q \in Callers : call[q].op \in DeRegisterOps /\ call[q].ctl = place[k][o].ctl
    BY <2>2, <2>3 DEF Live
  <2> QED
    BY <1>1, <2>1, <2>4 DEF Live
<1>3. ASSUME ~crashed', NEW q \in Callers PROVE call'[q].op # "create"
  <2> SUFFICES ASSUME call'[q].op = "create" PROVE FALSE
    OBVIOUS
  <2>1. PICK k \in Kinds : k = call'[q].kind
    <3>1. call'[q] \in Calls /\ call'[q] # Idle
      BY DEF Accounts, TypeOK, Idle
    <3> QED
      BY <3>1 DEF Calls
  <2>2. PICK o \in Objects : Held(k, q)' = {o}
    BY <2>1 DEF Accounts, CallsOK, CallOK
  <2>3. o \in Counted(k)'
    BY <2>2, PlaceFacts DEF Held, Counted
  <2>4. num'[k] = Cardinality(Counted(k)') /\ num'[k] = 0
    BY <1>1, <1>3, Zenon DEF Accounts, CountsAddUp
  <2>5. IsFiniteSet(Counted(k)')
    BY FiniteObjects DEF Counted
  <2> QED
    BY <2>3, <2>4, <2>5, FS_EmptySet, Zenon
<1> QED
  BY <1>2, <1>3 DEF Findable

LEMMA FindableNext ==
    ASSUME ControllersAssumption, Accounts, Findable, Next
    PROVE  Findable'
<1>t. TypeOK
  BY DEF Accounts
<1>s. /\ place \in [Kinds -> [Objects -> Places]] /\ call \in [Callers -> Calls]
      /\ namespaceMap \in [Namespaces -> Controllers \cup {NoController}]
  BY <1>t DEF TypeOK
<1>1. ~crashed
  BY DEF Next
<1> PICK p \in Callers : Proceed(p) \/ \E n \in Namespaces : Begin(p, n)
  BY DEF Next
<1>f. Free.tag # "map" /\ Pending(p).tag # "map"
  BY PlaceFacts
<1>i. /\ Idle.op \notin DeRegisterOps \cup {"create"}
      /\ \A op, k, c, i, r : Call(op, k, c, i, r).op = op /\ Call(op, k, c, i, r).ctl = c
      /\ ({"settle"} \cup ReleaseOps) \cap (DeRegisterOps \cup {"create"}) = {}
      /\ "create" \notin DeRegisterOps
  BY DEF Idle, Call, DeRegisterOps, ReleaseOps
<1>2. CASE \E code \in ReturnCodes : createInsert(p, code)
  BY <1>t, <1>1, <1>2, InsertionIsFindable
<1>3. CASE \E code \in ReturnCodes : settle(p, code)
  <2>1. /\ call[p].op = "settle" /\ call' = [call EXCEPT ![p] = Idle] /\ UNCHANGED namespaceMap
        /\ \A k \in Kinds, o \in Objects : place'[k][o] \in {place[k][o], Free}
    BY <1>3, <1>s DEF settle
  <2>2. NoneInserted
    BY <1>f, <2>1 DEF NoneInserted
  <2> QED
    BY <1>t, <1>1, <1>i, <2>1, <2>2, CallingStep, Zenon
<1>4. CASE \E code \in ReturnCodes, gone \in SUBSET Objects : releaseErase(p, gone, code)
  <2>g. PICK code \in ReturnCodes, gone \in SUBSET Objects : releaseErase(p, gone, code)
    BY <1>4
  <2>0. /\ call[p].op \in ReleaseOps /\ UNCHANGED namespaceMap
        /\ TakeOut(p, call[p].kind, gone)
    BY <2>g, Zenon DEF releaseErase
  <2>1. /\ call[p].op \in ReleaseOps /\ UNCHANGED namespaceMap
        /\ \A k \in Kinds, o \in Objects : place'[k][o] \in {place[k][o], Pending(p)}
    BY <1>s, <2>0 DEF TakeOut
  <2>2. \/ call' = [call EXCEPT ![p] = Idle]
        \/ \E k, c, i : call' = [call EXCEPT ![p] = Call("settle", k, c, i, "OK")]
    BY <2>g, Zenon DEF releaseErase
  <2>3. NoneInserted
    BY <1>f, <2>1 DEF NoneInserted
  <2>4. PICK x : call' = [call EXCEPT ![p] = x] /\ x.op # "create"
    BY <1>i, <2>2
  <2>5. call[p].op \notin DeRegisterOps
    BY <1>i, <2>1
  <2> QED
    BY <1>t, <1>1, <2>1, <2>3, <2>4, <2>5, CallingStep, Zenon
<1>5. CASE deRegisterRelease(p) \/ deRegisterCounts(p)
  <2>1. /\ call[p].op \in DeRegisterOps /\ UNCHANGED namespaceMap
        /\ \A k \in Kinds, o \in Objects : place'[k][o] \in {place[k][o], Pending(p), Free}
    <3>1. "sender" \in Kinds /\ "receiver" \in Kinds
      BY DEF Kinds
    <3>2. CASE deRegisterRelease(p)
      BY <1>s, <3>1, <3>2 DEF deRegisterRelease, TakeOut, DeRegisterOps
    <3>3. CASE deRegisterCounts(p)
      BY <1>s, <3>3 DEF deRegisterCounts, DeRegisterOps
    <3> QED
      BY <1>5, <3>2, <3>3, Zenon
  <2>2. PICK op \in DeRegisterOps : call' = [call EXCEPT ![p].op = op]
    BY <1>5 DEF deRegisterRelease, deRegisterCounts, DeRegisterOps
  <2>3. PICK x : /\ call' = [call EXCEPT ![p] = x]
                 /\ x.op \in DeRegisterOps /\ x.ctl = call[p].ctl /\ x.op # "create"
    <3> DEFINE x == [call[p] EXCEPT !.op = op]
    <3>1. call' = [call EXCEPT ![p] = x]
      BY <2>2
    <3>2. call[p] # Idle /\ call[p] \in Calls
      BY <1>5, <1>s DEF deRegisterRelease, deRegisterCounts
    <3>3. x.op = op /\ x.ctl = call[p].ctl
      BY <3>2 DEF Calls
    <3>4. op # "create"
      BY <1>i
    <3> HIDE DEF x
    <3> QED
      BY <3>1, <3>3, <3>4, Zenon
  <2>4. NoneInserted
    BY <1>f, <2>1 DEF NoneInserted
  <2> QED
    BY <1>t, <1>1, <2>1, <2>3, <2>4, CallingStep, Zenon
<1>6. CASE deRegisterWait(p)
  BY <1>t, <1>1, <1>6, WaitIsFindable
<1>7. ASSUME NEW n \in Namespaces, Begin(p, n) PROVE Findable'
  <2>1. CASE \E i \in Ids, code \in ReturnCodes :
                createSender(p, n, i, code) \/ createReceiver(p, n, i, code)
    BY <1>t, <1>1, <2>1, CreationIsFindable DEF createSender, createReceiver, Kinds
  <2>2. CASE \E op \in ReleaseOps, k \in Kinds, i \in Ids \cup {NoId}, code \in ReturnCodes :
                releaseLookup(p, op, k, n, i, code)
    <3>1. /\ call[p] = Idle /\ UNCHANGED <<namespaceMap, place>>
          /\ \/ call' = call
             \/ \E op, k, c, i : op \in ReleaseOps /\ call' = [call EXCEPT ![p] = Call(op, k, c, i, "OK")]
      BY <2>2 DEF releaseLookup
    <3>2. NoneInserted
      BY <3>1 DEF NoneInserted
    <3>3. CASE call' = call
      <4>1. call' = [call EXCEPT ![p] = Idle]
        BY <1>s, <3>1, <3>3
      <4> QED
        BY <1>t, <1>1, <1>i, <3>1, <3>2, <4>1, CallingStep, Zenon
    <3>4. CASE \E op, k, c, i : op \in ReleaseOps /\ call' = [call EXCEPT ![p] = Call(op, k, c, i, "OK")]
      <4>0. PICK op, k, c, i : op \in ReleaseOps /\ call' = [call EXCEPT ![p] = Call(op, k, c, i, "OK")]
        BY <3>4, Zenon
      <4> DEFINE x == Call(op, k, c, i, "OK")
      <4>1. call' = [call EXCEPT ![p] = x] /\ x.op \in ReleaseOps
        BY <1>i, <4>0
      <4> HIDE DEF x
      <4>2. x.op # "create" /\ call[p].op \notin DeRegisterOps
        BY <1>i, <3>1, <4>1
      <4> QED
        BY <1>t, <1>1, <3>1, <3>2, <4>1, <4>2, CallingStep, Zenon
    <3> QED
      BY <3>1, <3>3, <3>4
  <2>3. CASE registerWdtNamespace(p, n)
    <3>1. /\ UNCHANGED <<place, call, crashed>> /\ getOrCreate(n) \in Controllers
          /\ namespaceMap' = [namespaceMap EXCEPT ![n] = getOrCreate(n)]
      BY <2>3 DEF registerWdtNamespace
    <3>2. \A m \in Namespaces : namespaceMap[m] \in Controllers => namespaceMap'[m] = namespaceMap[m]
      BY <1>s, <3>1 DEF getOrCreate, NoController, Controllers
    <3>3. \A c \in Controllers : Live(c) => Live(c)'
      BY <3>1, <3>2, LiveStays
    <3>4. call'[p].op # "create"
      BY <1>i, <2>3, Zenon DEF registerWdtNamespace
    <3> QED
      BY <1>t, <1>1, <3>1, <3>3, <3>4, FindableStep
  <2>4. CASE deRegisterErase(p, n)
    <3>1. PICK c : c = namespaceMap[n]
      OBVIOUS
    <3>2. /\ call[p] = Idle /\ UNCHANGED <<place, crashed>>
          /\ call' = [call EXCEPT ![p] = Call("deRegister_senders", "sender", c, NoId, "OK")]
          /\ namespaceMap' = [namespaceMap EXCEPT ![n] = NoController]
      BY <2>4, <3>1 DEF deRegisterErase
    <3>3. /\ call'[p].op = "deRegister_senders" /\ call'[p].ctl = c
          /\ \A q \in Callers : q # p => call'[q] = call[q]
          /\ \A m \in Namespaces : m # n => namespaceMap'[m] = namespaceMap[m]
      BY <1>i, <1>s, <3>2
    <3>4. "deRegister_senders" \in DeRegisterOps
      BY DEF DeRegisterOps
    <3>5. \A cc \in Controllers : Live(cc) => Live(cc)'
      BY <1>i, <3>1, <3>2, <3>3, <3>4, LiveStays, Zenon
    <3> QED
      BY <1>t, <1>1, <3>2, <3>3, <3>5, FindableStep, Zenon
  <2>5. CASE shutdown(p)
    BY <1>t, <1>1, <2>5, AccountsNext, ShutdownIsFindable
  <2>6. CASE UNCHANGED <<namespaceMap, place, call, crashed>>
    BY <2>6, Zenon DEF Findable, Live
  <2> QED
    <3>1. {"releaseOne", "releaseAll", "releaseStale"} \subseteq ReleaseOps
      BY DEF ReleaseOps
    <3>2. {"sender", "receiver"} \subseteq Kinds
      BY DEF Kinds
    <3>3. CASE \E i \in Ids, code \in ReturnCodes :
                  releaseSender(p, n, i, code) \/ releaseReceiver(p, n, i, code)
      BY <2>2, <3>1, <3>2, <3>3 DEF releaseSender, releaseReceiver
    <3>4. CASE \/ releaseAllSenders(p, n) \/ releaseAllReceivers(p, n)
               \/ releaseStaleSenders(p, n) \/ releaseStaleReceivers(p, n)
      BY <2>2, <3>1, <3>2, <3>4 DEF releaseAllSenders, releaseAllReceivers, releaseStaleSenders,
         releaseStaleReceivers
    <3>5. CASE \/ \E k \in Kinds : \/ \E m \in GlobalLimits : updateMaxLimit(p, k, m)
                                   \/ \E m \in NamespaceLimits : updateMaxNamespaceLimit(p, k, n, m)
               \/ \E b \in BOOLEAN : requireRegistration(p, b)
      BY <2>6, <3>5, Zenon DEF updateMaxLimit, updateMaxNamespaceLimit, requireRegistration
    <3> QED
      BY <1>7, <2>1, <2>3, <2>4, <2>5, <3>3, <3>4, <3>5 DEF Begin
<1> QED
  BY <1>2, <1>3, <1>4, <1>5, <1>6, <1>7 DEF Proceed

\* All that is not free is charged or lost.
LEMMA CountsFollow == ASSUME ControllersAssumption, Accounts, Findable PROVE CountsAreExact
<1> SUFFICES ASSUME NEW k \in Kinds
             PROVE  num[k] = Cardinality(Charged(k)) + Cardinality(LostOnes(k))
  BY DEF CountsAreExact
<1>1. ASSUME NEW o \in Objects
      PROVE  /\ o \in Counted(k) <=> o \in Charged(k) \/ o \in LostOnes(k)
             /\ ~(o \in Charged(k) /\ o \in LostOnes(k))
  <2>1. place[k][o] \in Places
    BY DEF Accounts, TypeOK
  <2>2. place[k][o].tag = "map" => Live(place[k][o].ctl)
    BY DEF Findable
  <2> QED
    BY <2>1, <2>2, PlaceFacts DEF Counted, Charged, LostOnes
<1>2. Counted(k) = Charged(k) \cup LostOnes(k) /\ Charged(k) \cap LostOnes(k) = {}
  BY <1>1 DEF Counted, Charged, LostOnes
<1>3. /\ IsFiniteSet(Charged(k)) /\ Cardinality(Charged(k)) \in Nat
      /\ IsFiniteSet(LostOnes(k)) /\ Cardinality(LostOnes(k)) \in Nat
  BY FiniteObjects DEF Charged, LostOnes
<1>4. Cardinality(Charged(k) \cup LostOnes(k)) =
         Cardinality(Charged(k)) + Cardinality(LostOnes(k)) - Cardinality(Charged(k) \cap LostOnes(k))
  BY <1>3, FS_Union
<1>5. Cardinality(Charged(k) \cap LostOnes(k)) = 0
  BY <1>2, FS_EmptySet
<1>6. num[k] = Cardinality(Charged(k) \cup LostOnes(k))
  BY <1>2 DEF Accounts, CountsAddUp
<1> QED
  BY <1>3, <1>4, <1>5, <1>6

\* The counts of the root controller are always the senders (receivers) in the
\* maps of controllers that are registered or being de-registered, those of
\* calls in flight, and those lost with the map of a controller into which they
\* were put after deRegisterWdtNamespace had released it; and no identifier
\* names two of them, whatever calls interleave (createSender, releaseSender,
\* deRegisterWdtNamespace).
THEOREM AccountsTheorem ==
    ASSUME ControllersAssumption
    PROVE  Spec => [](CountsAreExact /\ OneObjectPerId)
<1>1. Init => Accounts /\ Findable
  <2>1. Init => Findable
    <3> SUFFICES ASSUME Init PROVE Findable
      OBVIOUS
    <3>1. \A k \in Kinds, o \in Objects : place[k][o] = Free
      BY DEF Init
    <3>2. \A p \in Callers : call[p].op = "idle"
      BY DEF Init, Idle
    <3>3. Free.tag # "map"
      BY PlaceFacts
    <3> QED
      BY <3>1, <3>2, <3>3 DEF Findable
  <2> QED
    BY <2>1, AccountsInit
<1>2. Accounts /\ Findable /\ [Next]_vars => Accounts' /\ Findable'
  <2>1. Findable /\ UNCHANGED vars => Findable'
    BY DEF Findable, Live, vars
  <2> QED
    BY <2>1, AccountsNext, AccountsStutter, FindableNext
<1>3. Accounts /\ Findable => CountsAreExact /\ OneObjectPerId
  BY CountsFollow DEF Accounts
<1> QED
  BY <1>1, <1>2, <1>3, PTL DEF Spec

\* No step makes the senders (receivers) that are counted, lost ones included,
\* more than the global limit, nor those of a controller more than its own (hasSenderQuota).
THEOREM QuotaTheorem ==
    ASSUME ControllersAssumption
    PROVE  Spec => QuotaNeverExceeded
<1>1. Init => Accounts
  BY AccountsInit
<1>2. Accounts /\ [Next]_vars => Accounts' /\ [WithinQuota]_vars
  BY AccountsNext, AccountsStutter
<1> QED
  BY <1>1, <1>2, PTL DEF Spec, QuotaNeverExceeded
=============================================================================
