------------------------- MODULE FileCreatorProofs -------------------------
(***************************************************************************)
(* What was received stays and the log's entries are in order, for any     *)
(* number of threads, files, blocks, failing calls, removed directories    *)
(* and sessions.                                                           *)
(*                                                                         *)
(* A file is created or cut only by the thread that the map names for it;  *)
(* a block is written only once the map says ALLOCATED, and from there no  *)
(* thread of the session is named again.                                   *)
(***************************************************************************)
EXTENDS FileCreator, TLAPS

Creating == {"createDir", "up", "down", "create", "createAgain"}
Allocating == Creating \cup {"openAndSet", "setSize", "logFile", "setAllocated", "setFailed"}
Waiting == {"lookup", "waitLock", "check", "sleep", "asleep", "awake"}
Using == {"notify", "openExisting", "write", "verified"}
Places == Allocating \cup Waiting \cup Using \cup {"idle", "notifyFailed", "failed"}

Walks == [dir : Int, force : BOOLEAN, next : {"", "create", "createAgain"}]

CreatorTypeOK ==
    /\ fileStatusMap \in [Files -> Threads \cup {"NONE", "ALLOCATED", "FAILED"}]
    /\ data \in [Files -> SUBSET Nat]
    /\ allocationStatus \in [Files -> Statuses]
    /\ kept = [f \in Files |-> KeptFor(allocationStatus[f])]
    /\ pc \in [Threads -> Places]
    /\ blk \in [Threads -> Nat \X Nat]
    /\ walk \in [Threads -> Walks]
    /\ todo \subseteq BlocksFor(allocationStatus)

\* Threads may write to the file, or it is one to be deleted.
Allocated(f) == allocationStatus[f] = "TO_BE_DELETED" \/ fileStatusMap[f] = "ALLOCATED"

\* The block is in its file, unless it is that of a file to be deleted.
Has(b) == b[2] > 0 => b[2] \in data[b[1]]

ThreadOK(t) ==
    /\ pc[t] # "idle" => blk[t] \in BlocksFor(allocationStatus)
    /\ pc[t] \in Allocating => fileStatusMap[FileOf(t)] = t
    /\ pc[t] \in Creating => allocationStatus[FileOf(t)] = "NOT_EXISTS"
    /\ pc[t] \in {"up", "down"} => walk[t].next \in {"create", "createAgain"}
    /\ pc[t] \in Using => Allocated(FileOf(t))
    /\ pc[t] = "verified" => Has(blk[t])

DoneOK(b) == b \in BlocksFor(allocationStatus) /\ Allocated(b[1]) /\ Has(b)

FilesOK ==
    /\ \A b \in done : DoneOK(b)
    /\ \A f \in Files : kept[f] \subseteq data[f]

Creation == CreatorTypeOK /\ FilesOK /\ \A t \in Threads : ThreadOK(t)

\* What a step of t may do to the map, to the files and to the other threads.
Careful(t) ==
    /\ UNCHANGED <<allocationStatus, kept>>
    /\ \A f \in Files : fileStatusMap'[f] = fileStatusMap[f] \/ fileStatusMap[f] \in {t, "NONE"}
    /\ \A f \in Files :
          \/ data[f] \subseteq data'[f]
          \/ kept[f] = {} /\ (fileStatusMap[f] = t \/ allocationStatus[f] = "TO_BE_DELETED")
    /\ \A u \in Threads \ {t} :
          /\ blk'[u] = blk[u] /\ walk'[u] = walk[u]
          /\ pc'[u] = pc[u] \/ (pc[u] = "asleep" /\ pc'[u] = "awake")
----------------------------------------------------------------------------
\* A block is of one of the files; that of a file to be deleted is number 0.
LEMMA BlockFacts ==
    ASSUME FileCreatorAssumption, NEW b \in BlocksFor(allocationStatus)
    PROVE  /\ b \in Nat \X Nat /\ b[1] \in Files
           /\ allocationStatus[b[1]] = "TO_BE_DELETED" => b[2] = 0
<1>1. CASE \E f \in Files, i \in 1..NumBlocks :
              allocationStatus[f] # "TO_BE_DELETED" /\ b = <<f, i>>
  BY <1>1 DEF FileCreatorAssumption
<1>2. CASE \E f \in Files : allocationStatus[f] = "TO_BE_DELETED" /\ b = <<f, 0>>
  BY <1>2 DEF FileCreatorAssumption
<1> QED
  BY <1>1, <1>2 DEF BlocksFor

LEMMA CreationInit == ASSUME FileCreatorAssumption, Init PROVE Creation
<1>1. /\ pc = [t \in Threads |-> "idle"] /\ blk = [t \in Threads |-> <<0, 0>>]
      /\ walk = [t \in Threads |-> NoWalk] /\ done = {}
      /\ fileStatusMap = [f \in Files |-> "NONE"] /\ allocationStatus \in [Files -> Statuses]
      /\ kept = [f \in Files |-> KeptFor(allocationStatus[f])]
      /\ todo = BlocksFor(allocationStatus)
      /\ data = [f \in Files |-> IF exists[f] THEN {0} ELSE {}]
  BY DEF Init, NoBlock
<1>2. NoWalk \in Walks
  BY DEF NoWalk, Walks
<1>3. CreatorTypeOK
  BY <1>1, <1>2 DEF CreatorTypeOK, Places
<1>4. \A t \in Threads : ThreadOK(t)
  BY <1>1 DEF ThreadOK, Allocating, Creating, Using
<1>5. ASSUME NEW f \in Files PROVE kept[f] \subseteq data[f]
  <2>1. allocationStatus[f] # "NOT_EXISTS" => exists[f]
    BY DEF Init
  <2> QED
    BY <1>1, <2>1 DEF KeptFor
<1> QED
  BY <1>1, <1>3, <1>4, <1>5 DEF Creation, FilesOK

\* A careful step keeps what is true of the files and of the other threads.
LEMMA CarefulStep ==
    ASSUME FileCreatorAssumption, Creation, NEW t \in Threads, Careful(t), CreatorTypeOK',
           ThreadOK(t)', done' = done \/ (pc[t] = "verified" /\ done' = done \cup {blk[t]})
    PROVE  Creation'
<1>1. CreatorTypeOK /\ FilesOK /\ \A u \in Threads : ThreadOK(u)
  BY DEF Creation
<1>2. "NONE" \notin Threads /\ "ALLOCATED" \notin Threads
  BY DEF FileCreatorAssumption
<1>3. UNCHANGED <<allocationStatus, kept>>
  BY DEF Careful
<1>4. ASSUME NEW f \in Files, Allocated(f) PROVE Allocated(f)'
  BY <1>2, <1>3, <1>4 DEF Careful, Allocated
<1>5. ASSUME NEW b \in BlocksFor(allocationStatus), Allocated(b[1]), Has(b) PROVE Has(b)'
  <2>1. b[1] \in Files /\ (allocationStatus[b[1]] = "TO_BE_DELETED" => b[2] = 0)
    BY BlockFacts
  <2>2. b[2] > 0 => fileStatusMap[b[1]] = "ALLOCATED"
    BY <1>5, <2>1 DEF Allocated
  <2>3. b[2] > 0 => data[b[1]] \subseteq data'[b[1]]
    BY <1>2, <2>1, <2>2 DEF Careful
  <2> QED
    BY <1>5, <2>3 DEF Has
<1>6. ASSUME NEW u \in Threads, u # t PROVE ThreadOK(u)'
  <2>1. /\ blk'[u] = blk[u] /\ walk'[u] = walk[u] /\ FileOf(u)' = FileOf(u)
        /\ pc'[u] = pc[u] \/ (pc[u] = "asleep" /\ pc'[u] = "awake")
    BY <1>6 DEF Careful, FileOf
  <2>2. ThreadOK(u)
    BY <1>1
  <2>3. pc[u] # "idle" => blk[u] \in BlocksFor(allocationStatus) /\ FileOf(u) \in Files
    BY <2>2, BlockFacts DEF ThreadOK, FileOf
  <2>4. BlocksFor(allocationStatus)' = BlocksFor(allocationStatus)
    BY <1>3 DEF BlocksFor
  <2>5. pc'[u] # "idle" => blk'[u] \in BlocksFor(allocationStatus)'
    BY <2>1, <2>3, <2>4
  <2>6. pc'[u] \in Allocating => pc[u] \in Allocating /\ fileStatusMap'[FileOf(u)] = u
    <3>1. pc'[u] \in Allocating => pc'[u] = pc[u]
      BY <2>1 DEF Allocating, Creating
    <3>2. pc[u] \in Allocating => pc[u] # "idle" /\ fileStatusMap[FileOf(u)] = u
      BY <2>2 DEF ThreadOK, Allocating, Creating
    <3> QED
      BY <1>2, <1>6, <2>3, <3>1, <3>2 DEF Careful
  <2>7. /\ pc'[u] \in Creating => pc[u] \in Creating
        /\ pc'[u] \in {"up", "down"} => pc[u] \in {"up", "down"}
        /\ pc'[u] \in Using => pc[u] \in Using /\ pc[u] # "idle"
        /\ pc'[u] = "verified" => pc[u] = "verified" /\ pc[u] \in Using
    BY <2>1 DEF Creating, Using
  <2>8. pc'[u] \in Using => Allocated(FileOf(u))'
    BY <1>4, <2>1, <2>2, <2>3, <2>7 DEF ThreadOK
  <2>9. pc'[u] = "verified" => Has(blk[u])'
    <3>1. ASSUME pc[u] = "verified"
          PROVE  blk[u] \in BlocksFor(allocationStatus) /\ Allocated(blk[u][1]) /\ Has(blk[u])
      BY <2>2, <3>1 DEF ThreadOK, Using, FileOf
    <3> QED
      BY <1>5, <2>1, <2>7, <3>1 DEF Has
  <2> QED
    BY <1>3, <2>1, <2>2, <2>5, <2>6, <2>7, <2>8, <2>9 DEF ThreadOK
<1>7. ASSUME NEW b \in done' PROVE DoneOK(b)'
  <2>1. DoneOK(b)
    BY <1>1, <1>7 DEF FilesOK, ThreadOK, DoneOK, Using, FileOf
  <2>2. b[1] \in Files /\ BlocksFor(allocationStatus)' = BlocksFor(allocationStatus)
    BY <1>3, <2>1, BlockFacts DEF DoneOK, BlocksFor
  <2> QED
    BY <1>4, <1>5, <2>1, <2>2 DEF DoneOK
<1>8. ASSUME NEW f \in Files PROVE kept'[f] \subseteq data'[f]
  BY <1>1, <1>3 DEF FilesOK, Careful
<1> QED
  BY <1>6, <1>7, <1>8 DEF Creation, FilesOK

\* A thread goes on to l, and nothing else that matters changes.
LEMMA MoveStep ==
    ASSUME FileCreatorAssumption, Creation, NEW t \in Threads, NEW l \in Places, pc[t] # "idle",
           l \notin {"idle", "verified"}, pc' = [pc EXCEPT ![t] = l],
           UNCHANGED <<fileStatusMap, data, allocationStatus, kept, blk, todo, done>>,
           walk' = walk \/ \E w \in Walks : walk' = [walk EXCEPT ![t] = w],
           l \in Allocating => fileStatusMap[FileOf(t)] = t,
           l \in Creating => allocationStatus[FileOf(t)] = "NOT_EXISTS",
           l \in {"up", "down"} => walk'[t].next \in {"create", "createAgain"},
           l \in Using => Allocated(FileOf(t))
    PROVE  Creation'
<1>1. CreatorTypeOK /\ ThreadOK(t)
  BY DEF Creation
<1>2. /\ pc' \in [Threads -> Places] /\ pc'[t] = l /\ \A u \in Threads \ {t} : pc'[u] = pc[u]
  BY <1>1 DEF CreatorTypeOK
<1>3. walk' \in [Threads -> Walks] /\ \A u \in Threads \ {t} : walk'[u] = walk[u]
  BY <1>1 DEF CreatorTypeOK
<1>4. BlocksFor(allocationStatus)' = BlocksFor(allocationStatus)
  BY DEF BlocksFor
<1>5. CreatorTypeOK'
  BY <1>1, <1>2, <1>3, <1>4 DEF CreatorTypeOK
<1>6. Careful(t)
  BY <1>2, <1>3 DEF Careful
<1>7. FileOf(t)' = FileOf(t) /\ (Allocated(FileOf(t)) => Allocated(FileOf(t))')
  BY DEF FileOf, Allocated
<1>8. ThreadOK(t)'
  BY <1>1, <1>2, <1>4, <1>7 DEF ThreadOK
<1> QED
  BY <1>5, <1>6, <1>8, CarefulStep

\* The walk of t, after a step to another directory.
LEMMA WalkStep ==
    ASSUME CreatorTypeOK, NEW t \in Threads, NEW d \in Int, walk' = [walk EXCEPT ![t].dir = d]
    PROVE  /\ \E w \in Walks : walk' = [walk EXCEPT ![t] = w]
           /\ walk'[t].next = walk[t].next
<1>1. walk[t] \in Walks /\ walk \in [Threads -> Walks]
  BY DEF CreatorTypeOK
<1>2. [walk[t] EXCEPT !.dir = d] \in Walks /\ [walk[t] EXCEPT !.dir = d].next = walk[t].next
  BY <1>1, Zenon DEF Walks
<1>3. walk' = [walk EXCEPT ![t] = [walk[t] EXCEPT !.dir = d]]
  OBVIOUS
<1> QED
  BY <1>1, <1>2, <1>3, Zenon

\* Where the allocating thread and one that creates the file stand.
LEMMA At ==
    ASSUME FileCreatorAssumption, Creation, NEW t \in Threads, pc[t] # "idle"
    PROVE  /\ ThreadOK(t) /\ CreatorTypeOK
           /\ FileOf(t) \in Files /\ FileOf(t) \in Nat /\ blk[t] \in BlocksFor(allocationStatus)
           /\ blk[t] = <<blk[t][1], blk[t][2]>> /\ blk[t][2] \in Nat
<1>1. ThreadOK(t) /\ CreatorTypeOK
  BY DEF Creation
<1>2. blk[t] \in BlocksFor(allocationStatus)
  BY <1>1 DEF ThreadOK
<1>3. blk[t] \in Nat \X Nat /\ blk[t][1] \in Files
  BY <1>2, BlockFacts
<1> QED
  BY <1>1, <1>2, <1>3 DEF FileOf

LEMMA CreateDirStep ==
    ASSUME FileCreatorAssumption, Creation, NEW t \in Threads, createDir(t) PROVE Creation'
<1>1. pc[t] = "createDir"
  BY DEF createDir
<1>2. ThreadOK(t) /\ FileOf(t) \in Nat /\ CreatorTypeOK
  BY <1>1, At
<1>3. fileStatusMap[FileOf(t)] = t /\ allocationStatus[FileOf(t)] = "NOT_EXISTS"
  BY <1>1, <1>2 DEF ThreadOK, Allocating, Creating
<1>4. UNCHANGED <<fileStatusMap, data, allocationStatus, kept, blk, todo, done>>
  BY DEF createDir, disk, session
<1>5. CASE goto(t, "create") /\ UNCHANGED walk
  BY <1>1, <1>3, <1>4, <1>5, MoveStep, Zenon
       DEF goto, Places, Allocating, Creating, Using
<1>6. CASE goto(t, "up") /\ walk' = [walk EXCEPT ![t] = [dir |-> FileOf(t), force |-> FALSE, next |-> "create"]]
  <2>1. [dir |-> FileOf(t), force |-> FALSE, next |-> "create"] \in Walks
    BY <1>2 DEF Walks
  <2>2. walk'[t].next = "create"
    BY <1>2, <1>6 DEF CreatorTypeOK
  <2> QED
    BY <1>1, <1>3, <1>4, <1>6, <2>1, <2>2, MoveStep, Zenon DEF goto, Places, Allocating, Creating, Using
<1> QED
  BY <1>5, <1>6 DEF createDir

LEMMA UpStep ==
    ASSUME FileCreatorAssumption, Creation, NEW t \in Threads, up(t) PROVE Creation'
<1>1. pc[t] = "up"
  BY DEF up
<1>2. ThreadOK(t) /\ CreatorTypeOK
  BY <1>1, At
<1>3. /\ fileStatusMap[FileOf(t)] = t /\ allocationStatus[FileOf(t)] = "NOT_EXISTS"
      /\ walk[t].next \in {"create", "createAgain"}
  BY <1>1, <1>2 DEF ThreadOK, Allocating, Creating
<1>4. UNCHANGED <<fileStatusMap, data, allocationStatus, kept, blk, todo, done>>
  BY DEF up, disk, session
<1>5. CASE goto(t, "down") /\ UNCHANGED walk
  BY <1>1, <1>3, <1>4, <1>5, MoveStep, Zenon DEF goto, Places, Allocating, Creating, Using
<1>6. CASE walk' = [walk EXCEPT ![t].dir = walk[t].dir - 1] /\ UNCHANGED pc
  <2>d. walk[t].dir \in Int
    BY <1>2, Zenon DEF CreatorTypeOK, Walks
  <2>1. walk[t].dir - 1 \in Int
    BY <2>d
  <2>2. (\E w \in Walks : walk' = [walk EXCEPT ![t] = w]) /\ walk'[t].next = walk[t].next
    BY <1>2, <1>6, <2>1, WalkStep, Zenon
  <2>3. pc' = [pc EXCEPT ![t] = "up"]
    BY <1>1, <1>2, <1>6 DEF CreatorTypeOK
  <2> QED
    BY <1>1, <1>3, <1>4, <2>2, <2>3, MoveStep, Zenon DEF Places, Allocating, Creating, Using
<1> QED
  BY <1>5, <1>6 DEF up

\* The directory is tried again by force, or the file has failed.
LEMMA DirFailedStep ==
    ASSUME FileCreatorAssumption, Creation, NEW t \in Threads, pc[t] \in Creating,
           NEW n \in {"create", "createAgain"},
           \/ goto(t, "setFailed") /\ UNCHANGED walk
           \/ /\ goto(t, "up")
              /\ walk' = [walk EXCEPT ![t] = [dir |-> FileOf(t), force |-> TRUE, next |-> n]],
           UNCHANGED <<fileStatusMap, data, allocationStatus, kept, blk, todo, done>>
    PROVE  Creation'
<1>1. pc[t] # "idle" /\ pc[t] \in Allocating
  BY DEF Creating, Allocating
<1>2. ThreadOK(t) /\ FileOf(t) \in Nat /\ CreatorTypeOK
  BY <1>1, At
<1>3. fileStatusMap[FileOf(t)] = t /\ allocationStatus[FileOf(t)] = "NOT_EXISTS"
  BY <1>1, <1>2 DEF ThreadOK
<1>4. CASE goto(t, "setFailed") /\ UNCHANGED walk
  BY <1>1, <1>3, <1>4, MoveStep, Zenon DEF goto, Places, Allocating, Creating, Using
<1>5. CASE /\ goto(t, "up")
           /\ walk' = [walk EXCEPT ![t] = [dir |-> FileOf(t), force |-> TRUE, next |-> n]]
  <2>d. FileOf(t) \in Int
    BY <1>2
  <2>1. [dir |-> FileOf(t), force |-> TRUE, next |-> n] \in Walks
    BY <2>d, Zenon DEF Walks
  <2>2. walk'[t].next = n
    BY <1>2, <1>5 DEF CreatorTypeOK
  <2> QED
    BY <1>1, <1>3, <1>5, <2>1, <2>2, MoveStep, Zenon DEF goto, Places, Allocating, Creating, Using
<1> QED
  BY <1>4, <1>5

LEMMA DownStep ==
    ASSUME FileCreatorAssumption, Creation, NEW t \in Threads, down(t) PROVE Creation'
<1>1. pc[t] = "down" /\ pc[t] \in Creating
  BY DEF down, Creating
<1>2. ThreadOK(t) /\ CreatorTypeOK
  BY <1>1, At
<1>3. /\ fileStatusMap[FileOf(t)] = t /\ allocationStatus[FileOf(t)] = "NOT_EXISTS"
      /\ walk[t].next \in {"create", "createAgain"}
  BY <1>1, <1>2 DEF ThreadOK, Allocating, Creating
<1>4. UNCHANGED <<fileStatusMap, data, allocationStatus, kept, blk, todo, done>>
  BY DEF down, session
<1>5. CASE goto(t, walk[t].next) /\ UNCHANGED walk
  BY <1>1, <1>3, <1>4, <1>5, MoveStep, Zenon DEF goto, Places, Allocating, Creating, Using
<1>6. CASE dirFailed(t)
  BY <1>1, <1>4, <1>6, DirFailedStep DEF dirFailed
<1>7. CASE walk' = [walk EXCEPT ![t].dir = walk[t].dir + 1] /\ UNCHANGED pc
  <2>d. walk[t].dir \in Int
    BY <1>2, Zenon DEF CreatorTypeOK, Walks
  <2>1. walk[t].dir + 1 \in Int
    BY <2>d
  <2>2. (\E w \in Walks : walk' = [walk EXCEPT ![t] = w]) /\ walk'[t].next = walk[t].next
    BY <1>2, <1>7, <2>1, WalkStep, Zenon
  <2>3. pc' = [pc EXCEPT ![t] = "down"]
    BY <1>1, <1>2, <1>7 DEF CreatorTypeOK
  <2> QED
    BY <1>1, <1>3, <1>4, <2>2, <2>3, MoveStep, Zenon DEF Places, Allocating, Creating, Using
<1> QED
  BY <1>5, <1>6, <1>7 DEF down

\* The allocating thread empties a file of which the sender relies on nothing.
LEMMA EmptyStep ==
    ASSUME FileCreatorAssumption, Creation, NEW t \in Threads, NEW l \in {"setSize", "logFile"},
           pc[t] \in Allocating, KeptFor(allocationStatus[FileOf(t)]) = {},
           pc' = [pc EXCEPT ![t] = l], data' = [data EXCEPT ![FileOf(t)] = {}],
           UNCHANGED <<fileStatusMap, allocationStatus, kept, blk, walk, todo, done>>
    PROVE  Creation'
<1>1. pc[t] # "idle"
  BY DEF Allocating, Creating
<1>2. ThreadOK(t) /\ CreatorTypeOK /\ FileOf(t) \in Files /\ blk[t] \in BlocksFor(allocationStatus)
  BY <1>1, At
<1>3. fileStatusMap[FileOf(t)] = t
  BY <1>2 DEF ThreadOK
<1>4. BlocksFor(allocationStatus)' = BlocksFor(allocationStatus) /\ FileOf(t)' = FileOf(t)
  BY DEF BlocksFor, FileOf
<1>5. pc' \in [Threads -> Places] /\ pc'[t] = l /\ \A u \in Threads \ {t} : pc'[u] = pc[u]
  BY <1>2 DEF CreatorTypeOK, Places, Allocating
<1>6. data' \in [Files -> SUBSET Nat] /\ \A f \in Files : f # FileOf(t) => data'[f] = data[f]
  BY <1>2 DEF CreatorTypeOK
<1>7. CreatorTypeOK'
  BY <1>2, <1>4, <1>5, <1>6 DEF CreatorTypeOK
<1>8. Careful(t)
  BY <1>2, <1>3, <1>5, <1>6 DEF Careful, CreatorTypeOK
<1>9. ThreadOK(t)'
  BY <1>2, <1>3, <1>4, <1>5 DEF ThreadOK, Creating, Using
<1> QED
  BY <1>7, <1>8, <1>9, CarefulStep

LEMMA CreateStep ==
    ASSUME FileCreatorAssumption, Creation, NEW t \in Threads, create(t) PROVE Creation'
<1>1. pc[t] \in Creating /\ pc[t] \in Allocating /\ pc[t] # "idle"
  BY DEF create, Creating, Allocating
<1>2. ThreadOK(t)
  BY <1>1, At
<1>3. UNCHANGED <<fileStatusMap, allocationStatus, kept, blk, todo, done>>
  BY DEF create, session
<1>4. CASE /\ UNCHANGED data
           /\ \/ goto(t, "setFailed") /\ UNCHANGED walk
              \/ /\ goto(t, "up")
                 /\ walk' = [walk EXCEPT ![t] =
                                [dir |-> FileOf(t), force |-> TRUE, next |-> "createAgain"]]
  BY <1>1, <1>3, <1>4, DirFailedStep
<1>5. CASE data' = [data EXCEPT ![FileOf(t)] = {}] /\ goto(t, "setSize") /\ UNCHANGED walk
  <2>1. KeptFor(allocationStatus[FileOf(t)]) = {}
    BY <1>1, <1>2 DEF ThreadOK, KeptFor
  <2> QED
    BY <1>1, <1>3, <1>5, <2>1, EmptyStep, Zenon DEF goto
<1> QED
  BY <1>4, <1>5 DEF create

LEMMA OpenAndSetStep ==
    ASSUME FileCreatorAssumption, Creation, NEW t \in Threads, openAndSet(t) PROVE Creation'
<1>1. pc[t] = "openAndSet"
  BY DEF openAndSet
<1>2. fileStatusMap[FileOf(t)] = t
  BY <1>1, At DEF ThreadOK, Allocating
<1>3. UNCHANGED <<fileStatusMap, data, allocationStatus, kept, blk, walk, todo, done>>
  BY DEF openAndSet, disk, session
<1>4. goto(t, "setSize") \/ goto(t, "setFailed")
  BY DEF openAndSet
<1> QED
  BY <1>1, <1>2, <1>3, <1>4, MoveStep DEF goto, Places, Allocating, Creating, Using

LEMMA SetSizeStep ==
    ASSUME FileCreatorAssumption, Creation, NEW t \in Threads, setSize(t) PROVE Creation'
<1>1. pc[t] = "setSize" /\ pc[t] \in Allocating
  BY DEF setSize, Allocating
<1>2. fileStatusMap[FileOf(t)] = t
  BY <1>1, At DEF ThreadOK
<1>3. UNCHANGED <<fileStatusMap, allocationStatus, kept, blk, walk, todo, done>>
  BY DEF setSize, session
<1>4. CASE (goto(t, "logFile") \/ goto(t, "setFailed")) /\ UNCHANGED data
  BY <1>1, <1>2, <1>3, <1>4, MoveStep DEF goto, Places, Allocating, Creating, Using
<1>5. CASE /\ allocationStatus[FileOf(t)] = "EXISTS_TOO_LARGE"
           /\ data' = [data EXCEPT ![FileOf(t)] = {}] /\ goto(t, "logFile")
  <2>1. KeptFor(allocationStatus[FileOf(t)]) = {}
    BY <1>5 DEF KeptFor
  <2> QED
    BY <1>1, <1>3, <1>5, <2>1, EmptyStep, Zenon DEF goto
<1> QED
  BY <1>4, <1>5 DEF setSize

LEMMA LogFileStep ==
    ASSUME FileCreatorAssumption, Creation, NEW t \in Threads, logFile(t) PROVE Creation'
<1>1. pc[t] = "logFile" /\ pc' = [pc EXCEPT ![t] = "setAllocated"]
  BY DEF logFile, goto
<1>2. fileStatusMap[FileOf(t)] = t
  BY <1>1, At DEF ThreadOK, Allocating
<1>3. UNCHANGED <<fileStatusMap, data, allocationStatus, kept, blk, walk, todo, done>>
  BY DEF logFile, disk, session
<1> QED
  BY <1>1, <1>2, <1>3, MoveStep, Zenon DEF Places, Allocating, Creating, Using

\* From here on the map says ALLOCATED or FAILED, and names no thread.
LEMMA PublishStep ==
    ASSUME FileCreatorAssumption, Creation, NEW t \in Threads, publish(t) PROVE Creation'
<1>1. pc[t] \in {"setAllocated", "setFailed"} /\ pc[t] \in Allocating /\ pc[t] # "idle"
  BY DEF publish, Allocating
<1>2. ThreadOK(t) /\ CreatorTypeOK /\ FileOf(t) \in Files /\ blk[t] \in BlocksFor(allocationStatus)
  BY <1>1, At
<1>3. fileStatusMap[FileOf(t)] = t
  BY <1>1, <1>2 DEF ThreadOK
<1>4. UNCHANGED <<data, allocationStatus, kept, blk, walk, todo, done>>
  BY DEF publish, disk, session
<1>5. BlocksFor(allocationStatus)' = BlocksFor(allocationStatus) /\ FileOf(t)' = FileOf(t)
  BY <1>4 DEF BlocksFor, FileOf
<1>6. PICK l \in {"notify", "notifyFailed"} :
         /\ pc' = [pc EXCEPT ![t] = l]
         /\ fileStatusMap' = [fileStatusMap EXCEPT ![FileOf(t)] = IF l = "notify" THEN "ALLOCATED" ELSE "FAILED"]
  BY <1>1, Zenon DEF publish, goto
<1>7. pc' \in [Threads -> Places] /\ pc'[t] = l /\ \A u \in Threads \ {t} : pc'[u] = pc[u]
  BY <1>2, <1>6 DEF CreatorTypeOK, Places, Using
<1>8. /\ fileStatusMap' \in [Files -> Threads \cup {"NONE", "ALLOCATED", "FAILED"}]
      /\ \A f \in Files : f # FileOf(t) => fileStatusMap'[f] = fileStatusMap[f]
      /\ l = "notify" => fileStatusMap'[FileOf(t)] = "ALLOCATED"
  BY <1>2, <1>6 DEF CreatorTypeOK
<1>9. CreatorTypeOK'
  BY <1>2, <1>4, <1>5, <1>7, <1>8 DEF CreatorTypeOK
<1>10. Careful(t)
  BY <1>3, <1>4, <1>7, <1>8 DEF Careful
<1>11. ThreadOK(t)'
  BY <1>2, <1>4, <1>5, <1>7, <1>8 DEF ThreadOK, Allocating, Creating, Using, Allocated
<1> QED
  BY <1>4, <1>9, <1>10, <1>11, CarefulStep

LEMMA NotifyStep ==
    ASSUME FileCreatorAssumption, Creation, NEW t \in Threads, notify(t) PROVE Creation'
<1>1. pc[t] \in {"notify", "notifyFailed"} /\ pc[t] # "idle" /\ pc[t] # "asleep" /\ pc' = Awake(t)
  BY DEF notify
<1>2. ThreadOK(t) /\ CreatorTypeOK /\ blk[t] \in BlocksFor(allocationStatus)
  BY <1>1, At
<1>3. UNCHANGED <<fileStatusMap, data, allocationStatus, kept, blk, walk, todo, done>>
  BY DEF notify, disk, session
<1>4. BlocksFor(allocationStatus)' = BlocksFor(allocationStatus) /\ FileOf(t)' = FileOf(t)
  BY <1>3 DEF BlocksFor, FileOf
<1>5. "awake" \in Places /\ "write" \in Places /\ "failed" \in Places
  BY DEF Places, Waiting, Using
<1>6. /\ pc' \in [Threads -> Places] /\ pc'[t] = IF pc[t] = "notify" THEN "write" ELSE "failed"
      /\ \A u \in Threads \ {t} : pc'[u] = pc[u] \/ (pc[u] = "asleep" /\ pc'[u] = "awake")
  BY <1>1, <1>2, <1>5 DEF CreatorTypeOK, Awake
<1>7. CreatorTypeOK'
  BY <1>2, <1>3, <1>4, <1>6 DEF CreatorTypeOK
<1>8. Careful(t)
  BY <1>3, <1>6 DEF Careful
<1>9. ThreadOK(t)'
  BY <1>2, <1>3, <1>4, <1>6 DEF ThreadOK, Allocating, Creating, Using, Allocated
<1> QED
  BY <1>3, <1>7, <1>8, <1>9, CarefulStep

LEMMA WaitLockStep ==
    ASSUME FileCreatorAssumption, Creation, NEW t \in Threads, waitLock(t) PROVE Creation'
<1>1. pc[t] # "idle" /\ pc' = [pc EXCEPT ![t] = "check"]
  BY DEF waitLock, goto
<1>2. UNCHANGED <<fileStatusMap, data, allocationStatus, kept, blk, walk, todo, done>>
  BY DEF waitLock, disk, session
<1> QED
  BY <1>1, <1>2, MoveStep, Zenon DEF Places, Waiting, Allocating, Creating, Using

LEMMA CheckStep ==
    ASSUME FileCreatorAssumption, Creation, NEW t \in Threads, check(t) PROVE Creation'
<1>1. pc[t] # "idle"
  BY DEF check
<1>2. UNCHANGED <<fileStatusMap, data, allocationStatus, kept, blk, walk, todo, done>>
  BY DEF check, disk, session
<1>3. PICK l \in {"openExisting", "failed", "sleep"} :
         /\ pc' = [pc EXCEPT ![t] = l]
         /\ l = "openExisting" => fileStatusMap[FileOf(t)] = "ALLOCATED"
  BY DEF check, goto
<1> QED
  BY <1>1, <1>2, <1>3, MoveStep, Zenon DEF Places, Waiting, Allocating, Creating, Using, Allocated

LEMMA SleepStep ==
    ASSUME FileCreatorAssumption, Creation, NEW t \in Threads, sleep(t) PROVE Creation'
<1>1. pc[t] # "idle" /\ pc' = [pc EXCEPT ![t] = "asleep"]
  BY DEF sleep, goto
<1>2. UNCHANGED <<fileStatusMap, data, allocationStatus, kept, blk, walk, todo, done>>
  BY DEF sleep, disk, session
<1> QED
  BY <1>1, <1>2, MoveStep, Zenon DEF Places, Waiting, Allocating, Creating, Using

LEMMA OpenExistingStep ==
    ASSUME FileCreatorAssumption, Creation, NEW t \in Threads, openExisting(t) PROVE Creation'
<1>1. pc[t] = "openExisting"
  BY DEF openExisting
<1>2. Allocated(FileOf(t))
  BY <1>1, At DEF ThreadOK, Using
<1>3. UNCHANGED <<fileStatusMap, data, allocationStatus, kept, blk, walk, todo, done>>
  BY DEF openExisting, disk, session
<1>4. goto(t, "write") \/ goto(t, "failed")
  BY DEF openExisting
<1> QED
  BY <1>1, <1>2, <1>3, <1>4, MoveStep DEF goto, Places, Allocating, Creating, Using

LEMMA WriteStep ==
    ASSUME FileCreatorAssumption, Creation, NEW t \in Threads, write(t) PROVE Creation'
<1>1. pc[t] = "write"
  BY DEF write
<1>2. /\ ThreadOK(t) /\ CreatorTypeOK /\ FileOf(t) \in Files /\ blk[t] \in BlocksFor(allocationStatus)
      /\ blk[t][2] \in Nat
  BY <1>1, At
<1>3. Allocated(FileOf(t))
  BY <1>1, <1>2 DEF ThreadOK, Using
<1>4. UNCHANGED <<fileStatusMap, allocationStatus, kept, blk, walk, todo, done>>
  BY DEF write, session
<1>5. CASE goto(t, "failed") /\ UNCHANGED data
  BY <1>1, <1>4, <1>5, MoveStep, Zenon DEF goto, Places, Allocating, Creating, Using
<1>6. CASE /\ data' = IF allocationStatus[FileOf(t)] = "TO_BE_DELETED" THEN data
                      ELSE [data EXCEPT ![FileOf(t)] = data[FileOf(t)] \cup {blk[t][2]}]
           /\ goto(t, "verified")
  <2>1. BlocksFor(allocationStatus)' = BlocksFor(allocationStatus) /\ FileOf(t)' = FileOf(t)
    BY <1>4 DEF BlocksFor, FileOf
  <2>2. pc' \in [Threads -> Places] /\ pc'[t] = "verified" /\ \A u \in Threads \ {t} : pc'[u] = pc[u]
    BY <1>2, <1>6 DEF CreatorTypeOK, Places, Using, goto
  <2>3. data' \in [Files -> SUBSET Nat] /\ \A f \in Files : data[f] \subseteq data'[f]
    BY <1>2, <1>6 DEF CreatorTypeOK
  <2>4. CreatorTypeOK'
    BY <1>2, <1>4, <2>1, <2>2, <2>3 DEF CreatorTypeOK
  <2>5. Careful(t)
    BY <1>4, <2>2, <2>3 DEF Careful
  <2>6. Has(blk[t])'
    <3>1. CASE allocationStatus[FileOf(t)] = "TO_BE_DELETED"
      <4>1. blk[t][2] = 0
        BY <1>2, <3>1, BlockFacts DEF FileOf
      <4> QED
        BY <1>4, <4>1 DEF Has
    <3>2. CASE allocationStatus[FileOf(t)] # "TO_BE_DELETED"
      <4>1. blk[t][2] \in data'[FileOf(t)]
        BY <1>2, <1>6, <3>2 DEF CreatorTypeOK
      <4> QED
        BY <1>4, <4>1 DEF Has, FileOf
    <3> QED
      BY <3>1, <3>2
  <2>7. Allocated(FileOf(t))'
    BY <1>3, <1>4, <2>1 DEF Allocated
  <2>8. ThreadOK(t)'
    BY <1>2, <1>4, <2>1, <2>2, <2>6, <2>7 DEF ThreadOK, Allocating, Creating
  <2> QED
    BY <1>4, <2>4, <2>5, <2>8, CarefulStep
<1> QED
  BY <1>5, <1>6 DEF write

LEMMA MarkBlockVerifiedStep ==
    ASSUME FileCreatorAssumption, Creation, NEW t \in Threads, markBlockVerified(t) PROVE Creation'
<1>1. /\ pc[t] = "verified" /\ pc' = [pc EXCEPT ![t] = "idle"] /\ done' = done \cup {blk[t]}
      /\ blk' = [blk EXCEPT ![t] = <<0, 0>>]
  BY DEF markBlockVerified, goto, NoBlock
<1>2. CreatorTypeOK
  BY DEF Creation
<1>3. UNCHANGED <<fileStatusMap, data, allocationStatus, kept, walk, todo>>
  BY DEF markBlockVerified, disk, session
<1>4. BlocksFor(allocationStatus)' = BlocksFor(allocationStatus)
  BY <1>3 DEF BlocksFor
<1>5. pc' \in [Threads -> Places] /\ pc'[t] = "idle" /\ \A u \in Threads \ {t} : pc'[u] = pc[u]
  BY <1>1, <1>2 DEF CreatorTypeOK, Places
<1>6. blk' \in [Threads -> Nat \X Nat] /\ \A u \in Threads \ {t} : blk'[u] = blk[u]
  BY <1>1, <1>2 DEF CreatorTypeOK
<1>7. CreatorTypeOK'
  BY <1>2, <1>3, <1>4, <1>5, <1>6 DEF CreatorTypeOK
<1>8. Careful(t)
  BY <1>3, <1>5, <1>6 DEF Careful
<1>9. ThreadOK(t)'
  BY <1>5, Zenon DEF ThreadOK, Allocating, Creating, Using
<1> QED
  BY <1>1, <1>7, <1>8, <1>9, CarefulStep

\* A file to be deleted is emptied: the sender relies on nothing of it.
LEMMA OpenStep ==
    ASSUME FileCreatorAssumption, Creation, NEW t \in Threads, open(t) PROVE Creation'
<1>1. PICK b \in todo :
         /\ todo' = todo \ {b} /\ blk' = [blk EXCEPT ![t] = b]
         /\ \/ /\ allocationStatus[b[1]] = "TO_BE_DELETED" /\ goto(t, "write")
               /\ data' = [data EXCEPT ![b[1]] = {}] \/ data' = data
            \/ goto(t, "lookup") /\ data' = data
  BY Zenon DEF open
<1>2. CreatorTypeOK
  BY DEF Creation
<1>3. UNCHANGED <<fileStatusMap, allocationStatus, kept, walk, done>>
  BY DEF open, session
<1>4. BlocksFor(allocationStatus)' = BlocksFor(allocationStatus)
  BY <1>3 DEF BlocksFor
<1>5. b \in BlocksFor(allocationStatus) /\ b \in Nat \X Nat /\ b[1] \in Files
  BY <1>2, BlockFacts DEF CreatorTypeOK
<1>6. PICK l \in {"write", "lookup"} :
         /\ pc' = [pc EXCEPT ![t] = l]
         /\ l = "write" => allocationStatus[b[1]] = "TO_BE_DELETED"
  BY <1>1 DEF goto
<1>7. pc' \in [Threads -> Places] /\ pc'[t] = l /\ \A u \in Threads \ {t} : pc'[u] = pc[u]
  BY <1>2, <1>6 DEF CreatorTypeOK, Places, Using, Waiting
<1>8. blk' \in [Threads -> Nat \X Nat] /\ blk'[t] = b /\ \A u \in Threads \ {t} : blk'[u] = blk[u]
  BY <1>1, <1>2, <1>5 DEF CreatorTypeOK
<1>9. /\ data' \in [Files -> SUBSET Nat]
      /\ \A f \in Files : data'[f] = data[f] \/ allocationStatus[f] = "TO_BE_DELETED"
  BY <1>1, <1>2, <1>5 DEF CreatorTypeOK
<1>10. CreatorTypeOK'
  BY <1>1, <1>2, <1>3, <1>4, <1>7, <1>8, <1>9 DEF CreatorTypeOK
<1>11. \A f \in Files : allocationStatus[f] = "TO_BE_DELETED" => kept[f] = {}
  BY <1>2 DEF CreatorTypeOK, KeptFor
<1>12. Careful(t)
  BY <1>3, <1>7, <1>8, <1>9, <1>11 DEF Careful
<1>13. ThreadOK(t)'
  BY <1>3, <1>4, <1>5, <1>6, <1>7, <1>8 DEF ThreadOK, Allocating, Creating, Using, Allocated, FileOf
<1> QED
  BY <1>3, <1>10, <1>12, <1>13, CarefulStep

\* The first thread that comes for a file is entered; no other entry changes.
LEMMA LookupStep ==
    ASSUME FileCreatorAssumption, Creation, NEW t \in Threads, lookup(t) PROVE Creation'
<1>1. pc[t] = "lookup"
  BY DEF lookup
<1>2. ThreadOK(t) /\ CreatorTypeOK /\ FileOf(t) \in Files /\ blk[t] \in BlocksFor(allocationStatus)
  BY <1>1, At
<1>3. UNCHANGED <<data, allocationStatus, kept, blk, walk, todo, done>>
  BY DEF lookup, disk, session
<1>4. BlocksFor(allocationStatus)' = BlocksFor(allocationStatus) /\ FileOf(t)' = FileOf(t)
  BY <1>3 DEF BlocksFor, FileOf
<1>5. PICK l \in {"createDir", "openAndSet", "failed", "openExisting", "waitLock"},
           e \in Threads \cup {"NONE", "ALLOCATED", "FAILED"} :
         /\ pc' = [pc EXCEPT ![t] = l] /\ fileStatusMap' = [fileStatusMap EXCEPT ![FileOf(t)] = e]
         /\ e = fileStatusMap[FileOf(t)] \/ fileStatusMap[FileOf(t)] = "NONE"
         /\ l \in {"createDir", "openAndSet"} => e = t
         /\ l = "createDir" => allocationStatus[FileOf(t)] = "NOT_EXISTS"
         /\ l = "openExisting" => e = "ALLOCATED"
  <2> DEFINE st == allocationStatus[FileOf(t)]
             entry == IF fileStatusMap[FileOf(t)] = "NONE" /\ st = "EXISTS_CORRECT_SIZE" THEN "ALLOCATED"
                      ELSE fileStatusMap[FileOf(t)]
  <2>1. entry \in Threads \cup {"NONE", "ALLOCATED", "FAILED"}
    BY <1>2 DEF CreatorTypeOK
  <2>2. CASE entry = "NONE"
    BY <2>2 DEF lookup, goto
  <2>3. CASE entry # "NONE"
    BY <2>1, <2>3 DEF lookup, goto
  <2> QED
    BY <2>2, <2>3
<1>6. pc' \in [Threads -> Places] /\ pc'[t] = l /\ \A u \in Threads \ {t} : pc'[u] = pc[u]
  BY <1>2, <1>5 DEF CreatorTypeOK, Places, Allocating, Creating, Using, Waiting
<1>7. /\ fileStatusMap' \in [Files -> Threads \cup {"NONE", "ALLOCATED", "FAILED"}]
      /\ fileStatusMap'[FileOf(t)] = e
      /\ \A f \in Files : f # FileOf(t) => fileStatusMap'[f] = fileStatusMap[f]
  BY <1>2, <1>5 DEF CreatorTypeOK
<1>8. CreatorTypeOK'
  BY <1>2, <1>3, <1>4, <1>6, <1>7 DEF CreatorTypeOK
<1>9. Careful(t)
  BY <1>3, <1>5, <1>6, <1>7 DEF Careful
<1>10. ThreadOK(t)'
  BY <1>2, <1>3, <1>4, <1>5, <1>6, <1>7 DEF ThreadOK, Allocating, Creating, Using, Allocated
<1> QED
  BY <1>3, <1>8, <1>9, <1>10, CarefulStep

\* A new session: the map is empty, and the sender relies on what is there.
LEMMA EndSessionStep ==
    ASSUME FileCreatorAssumption, Creation, endCurGlobalSession PROVE Creation'
<1>1. /\ pc' = [t \in Threads |-> "idle"] /\ blk' = [t \in Threads |-> <<0, 0>>] /\ done' = {}
      /\ fileStatusMap' = [f \in Files |-> "NONE"] /\ allocationStatus' \in [Files -> Statuses]
      /\ kept' = [f \in Files |-> KeptFor(allocationStatus'[f])]
      /\ todo' = BlocksFor(allocationStatus') /\ UNCHANGED <<data, walk>>
  BY DEF endCurGlobalSession, NoBlock, disk
<1>2. CreatorTypeOK
  BY DEF Creation
<1>3. "idle" \in Places
  BY DEF Places
<1>4. kept' = [f \in Files |-> KeptFor(allocationStatus[f])]'
  BY <1>1 DEF KeptFor
<1>5. todo' = BlocksFor(allocationStatus)'
  BY <1>1 DEF BlocksFor
<1>6. CreatorTypeOK'
  BY <1>1, <1>2, <1>3, <1>4, <1>5 DEF CreatorTypeOK
<1>7. \A t \in Threads : ThreadOK(t)'
  BY <1>1 DEF ThreadOK, Allocating, Creating, Using
<1>8. ASSUME NEW f \in Files PROVE kept'[f] \subseteq data'[f]
  <2>1. allocationStatus'[f] # "NOT_EXISTS" => KeptFor(allocationStatus'[f]) \subseteq data[f]
    BY DEF endCurGlobalSession
  <2> QED
    BY <1>1, <2>1, Zenon DEF KeptFor
<1> QED
  BY <1>1, <1>6, <1>7, <1>8 DEF Creation, FilesOK

\* A step that leaves the map, the files' blocks and the threads alone.
LEMMA CreationStutter ==
    ASSUME Creation, UNCHANGED <<fileStatusMap, data, allocationStatus, kept, pc, blk, walk, todo, done>>
    PROVE  Creation'
<1>1. \A t \in Threads : ThreadOK(t) => ThreadOK(t)'
  BY DEF ThreadOK, Allocated, Has, FileOf, BlocksFor
<1>2. FilesOK => FilesOK'
  BY DEF FilesOK, DoneOK, Allocated, Has, BlocksFor
<1>3. CreatorTypeOK => CreatorTypeOK'
  BY DEF CreatorTypeOK, BlocksFor
<1> QED
  BY <1>1, <1>2, <1>3 DEF Creation

LEMMA CreationNext == ASSUME FileCreatorAssumption, Creation, [Next]_vars PROVE Creation'
<1>1. ASSUME NEW t \in Threads, step(t) PROVE Creation'
  BY <1>1, LookupStep, CreateDirStep, UpStep, DownStep, CreateStep, OpenAndSetStep, SetSizeStep, LogFileStep,
     PublishStep, NotifyStep, WaitLockStep, CheckStep, SleepStep, OpenExistingStep, WriteStep,
     MarkBlockVerifiedStep DEF step
<1>2. ASSUME NEW t \in Threads, open(t) \/ waitLock(t) PROVE Creation'
  BY <1>2, OpenStep, WaitLockStep
<1>3. ASSUME NEW d \in 1..Depth, removeDir(d) PROVE Creation'
  BY <1>3, CreationStutter DEF removeDir
<1>4. CASE endCurGlobalSession
  BY <1>4, EndSessionStep
<1>5. CASE UNCHANGED vars
  BY <1>5, CreationStutter DEF vars
<1> QED
  BY <1>1, <1>2, <1>3, <1>4, <1>5 DEF Next

\* The invariant holds in every reachable state.
LEMMA CreationTheorem == ASSUME FileCreatorAssumption PROVE Spec => []Creation
<1>1. Init => Creation
  BY CreationInit
<1>2. Creation /\ [Next]_vars => Creation'
  BY CreationNext
<1> QED
  BY <1>1, <1>2, PTL DEF Spec

\* BlocksStay holds of every run of the receiver threads: no thread creates or
\* cuts a file (createFile, setFileSize) of which another has written a block,
\* and what the sender relies on from an earlier session is never cut.
THEOREM BlocksStayTheorem == ASSUME FileCreatorAssumption PROVE Spec => []BlocksStay
<1>1. Creation => BlocksStay
  BY DEF Creation, FilesOK, DoneOK, Has, BlocksStay
<1> QED
  BY <1>1, CreationTheorem, PTL
----------------------------------------------------------------------------
(* The order of the log's entries: a block is in one thread's hands only,   *)
(* and the thread the map names has logged nothing before logFile.          *)

\* A block is to be written, in the hands of one thread, or written.
Once ==
    /\ todo \cap done = {}
    /\ \A t \in Threads : pc[t] # "idle" =>
          /\ blk[t] \notin todo \cup done
          /\ \A u \in Threads \ {t} : pc[u] # "idle" => blk[u] # blk[t]

\* The entries of the file's opening, then blocks only.
Opened(f) ==
    /\ Len(OpenEntries(allocationStatus[f])) <= Len(logged[f])
    /\ \A i \in 1..Len(logged[f]) :
          logged[f][i] = IF i <= Len(OpenEntries(allocationStatus[f])) THEN OpenEntries(allocationStatus[f])[i]
                         ELSE "block"

\* What the log says of a file.
Entries == {"create", "invalidate", "resize", "block"}

\* The one entry of a deletion comes with the one block that stands for it.
DeletionLogged(f) == logged[f] = <<>> \/ (logged[f] = <<"invalidate">> /\ <<f, 0>> \in done)

\* What the map says of a file tells what the log has of it.
LogOK(f) ==
    /\ logged[f] \in Seq(Entries)
    /\ allocationStatus[f] = "TO_BE_DELETED" => DeletionLogged(f)
    /\ allocationStatus[f] # "TO_BE_DELETED" =>
          /\ fileStatusMap[f] \in {"NONE", "FAILED"} => logged[f] = <<>>
          /\ fileStatusMap[f] \in Threads => logged[f] = <<>> \/ logged[f] = OpenEntries(allocationStatus[f])
          /\ fileStatusMap[f] = "ALLOCATED" => Opened(f)

\* ... and so does where the allocating thread is.
LogOf(t) ==
    /\ pc[t] \in Allocating \cup Waiting => allocationStatus[FileOf(t)] # "TO_BE_DELETED"
    /\ pc[t] \in Allocating \ {"setAllocated"} => logged[FileOf(t)] = <<>>
    /\ pc[t] = "setAllocated" => logged[FileOf(t)] = OpenEntries(allocationStatus[FileOf(t)])

Logging ==
    /\ Once
    /\ DOMAIN logged = Files
    /\ \A f \in Files : LogOK(f)
    /\ \A t \in Threads : LogOf(t)

LEMMA OpenEntriesType ==
    ASSUME NEW st
    PROVE  /\ OpenEntries(st) \in Seq(Entries)
           /\ st = "EXISTS_CORRECT_SIZE" => OpenEntries(st) = <<>>
<1>1. CASE st = "NOT_EXISTS"
  BY <1>1 DEF OpenEntries, Entries
<1>2. CASE st = "EXISTS_TOO_LARGE"
  BY <1>2 DEF OpenEntries, Entries
<1>3. CASE st = "EXISTS_TOO_SMALL"
  BY <1>3 DEF OpenEntries, Entries
<1>4. CASE st \notin {"NOT_EXISTS", "EXISTS_TOO_LARGE", "EXISTS_TOO_SMALL"}
  BY <1>4 DEF OpenEntries, Entries
<1> QED
  BY <1>1, <1>2, <1>3, <1>4

\* A file whose log holds just the entries of its opening.
LEMMA OpenedFirst ==
    ASSUME NEW f, logged[f] = OpenEntries(allocationStatus[f]) PROVE Opened(f)
<1>1. PICK s \in Seq(Entries) : s = OpenEntries(allocationStatus[f])
  BY OpenEntriesType
<1> QED
  BY <1>1 DEF Opened

LEMMA LoggingInit == ASSUME FileCreatorAssumption, Init PROVE Logging
<1>1. /\ pc = [t \in Threads |-> "idle"] /\ done = {} /\ logged = [f \in Files |-> <<>>]
      /\ fileStatusMap = [f \in Files |-> "NONE"]
  BY DEF Init
<1>2. "NONE" \notin Threads
  BY DEF FileCreatorAssumption
<1>3. Once
  BY <1>1 DEF Once
<1>4. \A f \in Files : LogOK(f)
  BY <1>1, <1>2 DEF LogOK, DeletionLogged
<1>5. \A t \in Threads : LogOf(t)
  BY <1>1 DEF LogOf, Allocating, Creating, Waiting
<1> QED
  BY <1>1, <1>3, <1>4, <1>5 DEF Logging

\* A step that takes no block, finishes none and begins no session.
LEMMA OnceStep ==
    ASSUME Once, UNCHANGED <<todo, done, blk>>, \A t \in Threads : pc[t] = "idle" => pc'[t] = "idle"
    PROVE  Once'
  BY DEF Once

\* A step that leaves the entries of a file and its place in the map alone.
LEMMA FileStep ==
    ASSUME Logging, NEW f \in Files, UNCHANGED allocationStatus, done \subseteq done',
           fileStatusMap'[f] = fileStatusMap[f], logged'[f] = logged[f]
    PROVE  LogOK(f)'
<1>1. LogOK(f)
  BY DEF Logging
<1>2. DeletionLogged(f) => DeletionLogged(f)'
  BY DEF DeletionLogged
<1>3. Opened(f) => Opened(f)'
  BY DEF Opened
<1> QED
  BY <1>1, <1>2, <1>3 DEF LogOK

\* What a step may do to a thread that allocates or waits, if it leaves the map
\* and the log alone: it goes on.
Quiet(u) ==
    /\ pc'[u] \in Allocating \cup Waiting => pc[u] \in Allocating \cup Waiting /\ blk'[u] = blk[u]
    /\ pc'[u] \in Allocating \ {"setAllocated"} => pc[u] \in Allocating \ {"setAllocated"}
    /\ pc'[u] = "setAllocated" => pc[u] = "setAllocated"

LEMMA QuietStep ==
    ASSUME Logging, Once', UNCHANGED <<fileStatusMap, allocationStatus, logged>>, done \subseteq done',
           \A u \in Threads : Quiet(u) \/ LogOf(u)'
    PROVE  Logging'
<1>1. \A f \in Files : LogOK(f)'
  BY FileStep
<1>2. ASSUME NEW u \in Threads, Quiet(u) PROVE LogOf(u)'
  <2>1. LogOf(u)
    BY DEF Logging
  <2>2. "setAllocated" \in Allocating
    BY DEF Allocating
  <2> QED
    BY <1>2, <2>1, <2>2 DEF LogOf, FileOf, Quiet
<1> QED
  BY <1>1, <1>2 DEF Logging

\* The thread goes on to l, and the log and the map stay as they are.
GoesOn(t, l) ==
    /\ pc' = [pc EXCEPT ![t] = l] /\ pc[t] # "idle" /\ l \notin {"idle", "setAllocated"}
    /\ l \in Allocating => pc[t] \in Allocating \ {"setAllocated"}
    /\ l \in Waiting => pc[t] \in Waiting
    /\ UNCHANGED <<fileStatusMap, allocationStatus, logged, blk, todo, done>>

LEMMA GoesOnStep ==
    ASSUME Creation, Logging, NEW t \in Threads, NEW l, GoesOn(t, l) PROVE Logging'
<1>1. pc \in [Threads -> Places] /\ Once
  BY DEF Creation, CreatorTypeOK, Logging
<1>2. pc'[t] = l /\ \A u \in Threads \ {t} : pc'[u] = pc[u]
  BY <1>1 DEF GoesOn
<1>3. Once'
  BY <1>1, <1>2, OnceStep DEF GoesOn
<1>4. UNCHANGED blk /\ \A u \in Threads \ {t} : Quiet(u)
  BY <1>2 DEF Quiet, GoesOn
<1>5. Quiet(t)
  BY <1>2, <1>4 DEF Quiet, GoesOn
<1> QED
  BY <1>3, <1>4, <1>5, QuietStep DEF GoesOn

\* The steps of createFile, openAndSetSize, waitForAllocationFinish and of the
\* writer that go on from one place to the next.
Goes(t) ==
    \/ createDir(t) \/ up(t) \/ down(t) \/ create(t) \/ openAndSet(t) \/ setSize(t)
    \/ waitLock(t) \/ check(t) \/ sleep(t) \/ openExisting(t) \/ write(t)

LEMMA GoesStep ==
    ASSUME Creation, Logging, NEW t \in Threads, Goes(t) PROVE Logging'
<1>1. pc \in [Threads -> Places] /\ pc = [pc EXCEPT ![t] = pc[t]]
  BY DEF Creation, CreatorTypeOK
<1>2. UNCHANGED <<fileStatusMap, allocationStatus, logged, blk, todo, done>>
  BY DEF Goes, createDir, up, down, create, openAndSet, setSize, waitLock, check, sleep, openExisting, write,
         session
<1>3. CASE createDir(t)
  BY <1>2, <1>3, GoesOnStep DEF createDir, goto, GoesOn, Allocating, Creating, Waiting
<1>4. CASE up(t)
  <2>1. pc[t] = "up" /\ (pc' = pc \/ goto(t, "down"))
    BY <1>4 DEF up
  <2> QED
    BY <1>1, <1>2, <2>1, GoesOnStep DEF goto, GoesOn, Allocating, Creating, Waiting
<1>5. CASE down(t)
  <2>1. walk[t].next \in {"create", "createAgain"} /\ pc[t] = "down"
    BY <1>5 DEF Creation, ThreadOK, down
  <2>2. pc' = pc \/ goto(t, walk[t].next) \/ goto(t, "up") \/ goto(t, "setFailed")
    BY <1>5 DEF down, dirFailed
  <2> QED
    BY <1>1, <1>2, <2>1, <2>2, GoesOnStep DEF goto, GoesOn, Allocating, Creating, Waiting
<1>6. CASE create(t)
  <2>1. /\ pc[t] \in {"create", "createAgain"}
        /\ goto(t, "setFailed") \/ goto(t, "up") \/ goto(t, "setSize")
    BY <1>6 DEF create
  <2> QED
    BY <1>2, <2>1, GoesOnStep DEF goto, GoesOn, Allocating, Creating, Waiting
<1>7. CASE openAndSet(t)
  BY <1>2, <1>7, GoesOnStep DEF openAndSet, goto, GoesOn, Allocating, Creating, Waiting
<1>8. CASE setSize(t)
  <2>1. pc[t] = "setSize" /\ (goto(t, "logFile") \/ goto(t, "setFailed"))
    BY <1>8 DEF setSize
  <2> QED
    BY <1>2, <2>1, GoesOnStep DEF goto, GoesOn, Allocating, Creating, Waiting
<1>9. CASE waitLock(t)
  <2>1. pc[t] \in {"waitLock", "awake", "asleep"} /\ goto(t, "check")
    BY <1>9 DEF waitLock
  <2>2. GoesOn(t, "check")
    BY <1>2, <2>1 DEF goto, GoesOn, Allocating, Creating, Waiting
  <2> QED
    BY <2>2, GoesOnStep
<1>10. CASE check(t)
  <2>1. pc[t] = "check" /\ (goto(t, "openExisting") \/ goto(t, "failed") \/ goto(t, "sleep"))
    BY <1>10 DEF check
  <2> QED
    BY <1>2, <2>1, GoesOnStep DEF goto, GoesOn, Allocating, Creating, Waiting
<1>11. CASE sleep(t)
  <2>1. pc[t] = "sleep" /\ goto(t, "asleep")
    BY <1>11 DEF sleep
  <2>2. GoesOn(t, "asleep")
    BY <1>2, <2>1 DEF goto, GoesOn, Allocating, Creating, Waiting
  <2> QED
    BY <2>2, GoesOnStep
<1>12. CASE openExisting(t)
  BY <1>2, <1>12, GoesOnStep DEF openExisting, goto, GoesOn, Allocating, Creating, Waiting
<1>13. CASE write(t)
  <2>1. pc[t] = "write" /\ (goto(t, "verified") \/ goto(t, "failed"))
    BY <1>13 DEF write
  <2> QED
    BY <1>2, <2>1, GoesOnStep DEF goto, GoesOn, Allocating, Creating, Waiting
<1> QED
  BY <1>3, <1>4, <1>5, <1>6, <1>7, <1>8, <1>9, <1>10, <1>11, <1>12, <1>13 DEF Goes

LEMMA NotifyLogs ==
    ASSUME Creation, Logging, NEW t \in Threads, notify(t) PROVE Logging'
<1>1. UNCHANGED <<fileStatusMap, allocationStatus, logged, blk, todo, done>>
  BY DEF notify, session
<1>2. \A u \in Threads : \/ pc'[u] = pc[u] \/ (pc[u] = "asleep" /\ pc'[u] = "awake")
                         \/ (pc[u] # "idle" /\ pc'[u] \in {"write", "failed"})
  BY DEF notify, Awake
<1>3. Once'
  BY <1>1, <1>2, OnceStep DEF Logging
<1>4. \A u \in Threads : Quiet(u)
  BY <1>1, <1>2 DEF Quiet, Allocating, Creating, Waiting
<1> QED
  BY <1>1, <1>3, <1>4, QuietStep

\* A thread takes a block that no other has.
LEMMA OpenLogs ==
    ASSUME FileCreatorAssumption, Creation, Logging, NEW t \in Threads, open(t) PROVE Logging'
<1>1. PICK b \in todo :
         /\ todo' = todo \ {b} /\ blk' = [blk EXCEPT ![t] = b] /\ pc[t] = "idle"
         /\ \/ allocationStatus[b[1]] = "TO_BE_DELETED" /\ goto(t, "write")
            \/ allocationStatus[b[1]] # "TO_BE_DELETED" /\ goto(t, "lookup")
  BY Zenon DEF open
<1>2. UNCHANGED <<fileStatusMap, allocationStatus, logged, done>>
  BY DEF open, session
<1>3. pc \in [Threads -> Places] /\ blk \in [Threads -> Nat \X Nat] /\ Once
  BY DEF Creation, CreatorTypeOK, Logging
<1>4. PICK l \in {"write", "lookup"} :
         pc' = [pc EXCEPT ![t] = l] /\ (l = "lookup" => allocationStatus[b[1]] # "TO_BE_DELETED")
  BY <1>1 DEF goto
<1>5. blk'[t] = b /\ \A u \in Threads \ {t} : blk'[u] = blk[u]
  BY <1>1, <1>3
<1>6. pc'[t] = l /\ \A u \in Threads \ {t} : pc'[u] = pc[u]
  BY <1>3, <1>4
<1>7. Once'
  <2>1. b \notin done /\ \A u \in Threads \ {t} : pc[u] # "idle" => blk[u] # b
    BY <1>3 DEF Once
  <2> QED
    BY <1>1, <1>2, <1>3, <1>5, <1>6, <2>1 DEF Once
<1>8. \A u \in Threads \ {t} : Quiet(u)
  BY <1>5, <1>6 DEF Quiet
<1>9. LogOf(t)'
  BY <1>2, <1>4, <1>5, <1>6 DEF LogOf, FileOf, Allocating, Creating, Waiting
<1> QED
  BY <1>2, <1>7, <1>8, <1>9, QuietStep

\* Before it is entered in the map, nothing of a file is in the log.
LEMMA LookupLogs ==
    ASSUME FileCreatorAssumption, Creation, Logging, NEW t \in Threads, lookup(t) PROVE Logging'
<1>1. pc[t] = "lookup"
  BY DEF lookup
<1>2. ThreadOK(t) /\ CreatorTypeOK /\ FileOf(t) \in Files /\ LogOf(t) /\ LogOK(FileOf(t)) /\ Once
  BY <1>1, At DEF Logging
<1>g. PICK g \in Files : g = FileOf(t)
  BY <1>2
<1>3. UNCHANGED <<allocationStatus, logged, blk, todo, done>> /\ FileOf(t)' = FileOf(t)
  BY DEF lookup, session, FileOf
<1>4. allocationStatus[FileOf(t)] # "TO_BE_DELETED"
  BY <1>1, <1>2 DEF LogOf, Waiting
<1>5. PICK l \in {"createDir", "openAndSet", "failed", "openExisting", "waitLock"},
           e \in Threads \cup {"NONE", "ALLOCATED", "FAILED"} :
         /\ pc' = [pc EXCEPT ![t] = l] /\ fileStatusMap' = [fileStatusMap EXCEPT ![FileOf(t)] = e]
         /\ \/ e = fileStatusMap[FileOf(t)] /\ l \notin {"createDir", "openAndSet"}
            \/ fileStatusMap[FileOf(t)] = "NONE" /\ e = t
            \/ /\ fileStatusMap[FileOf(t)] = "NONE" /\ e = "ALLOCATED" /\ l = "openExisting"
               /\ allocationStatus[FileOf(t)] = "EXISTS_CORRECT_SIZE"
  <2> DEFINE st == allocationStatus[FileOf(t)]
             entry == IF fileStatusMap[FileOf(t)] = "NONE" /\ st = "EXISTS_CORRECT_SIZE" THEN "ALLOCATED"
                      ELSE fileStatusMap[FileOf(t)]
  <2>1. entry \in Threads \cup {"NONE", "ALLOCATED", "FAILED"}
    BY <1>2 DEF CreatorTypeOK
  <2>2. CASE entry = "NONE"
    BY <2>2 DEF lookup, goto
  <2>3. CASE entry # "NONE"
    BY <2>1, <2>3 DEF lookup, goto
  <2> QED
    BY <2>2, <2>3
<1>6. pc'[t] = l /\ \A u \in Threads \ {t} : pc'[u] = pc[u]
  BY <1>2, <1>5 DEF CreatorTypeOK
<1>7. fileStatusMap'[FileOf(t)] = e /\ \A f \in Files : f # FileOf(t) => fileStatusMap'[f] = fileStatusMap[f]
  BY <1>2, <1>5 DEF CreatorTypeOK
<1>8. Once'
  BY <1>1, <1>2, <1>3, <1>6, OnceStep, Zenon
<1>9. ASSUME NEW f \in Files, f # FileOf(t) PROVE LogOK(f)'
  BY <1>3, <1>7, <1>9, FileStep
<1>10. fileStatusMap[FileOf(t)] = "NONE" => logged[FileOf(t)] = <<>>
  BY <1>2, <1>4 DEF LogOK
<1>11. LogOK(g)'
  <2>1. CASE e = fileStatusMap[FileOf(t)]
    BY <1>2, <1>g, <1>3, <1>4, <1>7, <2>1 DEF LogOK, Opened
  <2>2. CASE fileStatusMap[FileOf(t)] = "NONE" /\ e = t
    BY <1>2, <1>g, <1>3, <1>4, <1>7, <1>10, <2>2, Zenon DEF LogOK, FileCreatorAssumption
  <2>3. CASE /\ fileStatusMap[FileOf(t)] = "NONE" /\ e = "ALLOCATED"
             /\ allocationStatus[FileOf(t)] = "EXISTS_CORRECT_SIZE"
    <3>1. OpenEntries(allocationStatus[FileOf(t)]) = <<>>
      BY <2>3, OpenEntriesType
    <3>2. Opened(FileOf(t))
      BY <1>10, <2>3, <3>1, OpenedFirst
    <3> QED
      BY <1>2, <1>g, <1>3, <1>4, <1>7, <2>3, <3>2 DEF LogOK, Opened, FileCreatorAssumption
  <2> QED
    BY <1>5, <2>1, <2>2, <2>3
<1>12. LogOf(t)'
  BY <1>3, <1>4, <1>5, <1>6, <1>10 DEF LogOf, Allocating, Creating, Waiting
<1>13. ASSUME NEW u \in Threads, u # t PROVE LogOf(u)'
  BY <1>3, <1>6, <1>13 DEF Logging, LogOf, FileOf
<1> QED
  BY <1>g, <1>3, <1>8, <1>9, <1>11, <1>12, <1>13 DEF Logging

\* The entries of the opening come to an empty log.
LEMMA LogFileLogs ==
    ASSUME FileCreatorAssumption, Creation, Logging, NEW t \in Threads, logFile(t) PROVE Logging'
<1>1. /\ pc[t] = "logFile" /\ pc' = [pc EXCEPT ![t] = "setAllocated"]
      /\ logged' = [logged EXCEPT ![FileOf(t)] =
                       logged[FileOf(t)] \o OpenEntries(allocationStatus[FileOf(t)])]
  BY DEF logFile, goto
<1>2. ThreadOK(t) /\ CreatorTypeOK /\ FileOf(t) \in Files /\ LogOf(t) /\ Once /\ DOMAIN logged = Files
  BY <1>1, At DEF Logging
<1>g. PICK g \in Files : g = FileOf(t)
  BY <1>2
<1>3. UNCHANGED <<fileStatusMap, allocationStatus, blk, todo, done>> /\ \A u \in Threads : FileOf(u)' = FileOf(u)
  BY DEF logFile, session, FileOf
<1>4. /\ allocationStatus[FileOf(t)] # "TO_BE_DELETED" /\ logged[FileOf(t)] = <<>>
      /\ fileStatusMap[FileOf(t)] = t
  BY <1>1, <1>2 DEF LogOf, ThreadOK, Allocating
<1>5. pc'[t] = "setAllocated" /\ \A u \in Threads \ {t} : pc'[u] = pc[u]
  BY <1>1, <1>2 DEF CreatorTypeOK
<1>6. PICK s \in Seq(Entries) : s = OpenEntries(allocationStatus[FileOf(t)])
  BY OpenEntriesType
<1>7. <<>> \o s = s
  BY <1>6
<1>8. /\ DOMAIN logged' = Files /\ logged'[FileOf(t)] = s
      /\ \A f \in Files : f # FileOf(t) => logged'[f] = logged[f]
  BY <1>1, <1>2, <1>4, <1>6, <1>7
<1>9. Once'
  BY <1>1, <1>2, <1>3, <1>5, OnceStep
<1>10. ASSUME NEW f \in Files, f # FileOf(t) PROVE LogOK(f)'
  BY <1>3, <1>8, <1>10, FileStep
<1>11. LogOK(g)'
  BY <1>g, <1>3, <1>4, <1>6, <1>8, Zenon DEF LogOK, FileCreatorAssumption
<1>12. LogOf(t)'
  BY <1>3, <1>4, <1>5, <1>6, <1>8, Zenon DEF LogOf
<1>13. ASSUME NEW u \in Threads, u # t PROVE LogOf(u)'
  <2>1. LogOf(u) /\ pc'[u] = pc[u]
    BY <1>5, <1>13 DEF Logging
  <2>2. pc[u] \in Allocating => FileOf(u) \in Files /\ FileOf(u) # FileOf(t)
    <3>1. pc[u] \in Allocating => pc[u] # "idle"
      BY DEF Allocating, Creating
    <3>2. pc[u] \in Allocating => FileOf(u) \in Files /\ ThreadOK(u)
      BY <3>1, At
    <3> QED
      BY <1>4, <1>13, <3>2 DEF ThreadOK
  <2>3. "setAllocated" \in Allocating
    BY DEF Allocating
  <2> QED
    BY <1>3, <1>8, <2>1, <2>2, <2>3 DEF LogOf
<1> QED
  BY <1>g, <1>3, <1>8, <1>9, <1>10, <1>11, <1>12, <1>13 DEF Logging

LEMMA PublishLogs ==
    ASSUME FileCreatorAssumption, Creation, Logging, NEW t \in Threads, publish(t) PROVE Logging'
<1>1. pc[t] \in {"setAllocated", "setFailed"} /\ pc[t] \in Allocating /\ pc[t] # "idle"
  BY DEF publish, Allocating
<1>2. ThreadOK(t) /\ CreatorTypeOK /\ FileOf(t) \in Files /\ LogOf(t) /\ LogOK(FileOf(t)) /\ Once
  BY <1>1, At DEF Logging
<1>g. PICK g \in Files : g = FileOf(t)
  BY <1>2
<1>3. UNCHANGED <<allocationStatus, logged, blk, todo, done>> /\ FileOf(t)' = FileOf(t)
  BY DEF publish, session, FileOf
<1>4. allocationStatus[FileOf(t)] # "TO_BE_DELETED"
  BY <1>1, <1>2 DEF LogOf
<1>5. PICK l \in {"notify", "notifyFailed"} :
         /\ pc' = [pc EXCEPT ![t] = l]
         /\ fileStatusMap' = [fileStatusMap EXCEPT ![FileOf(t)] = IF l = "notify" THEN "ALLOCATED" ELSE "FAILED"]
         /\ l = "notify" => pc[t] = "setAllocated"
         /\ l = "notifyFailed" => pc[t] = "setFailed"
  BY <1>1, Zenon DEF publish, goto
<1>6. pc'[t] = l /\ \A u \in Threads \ {t} : pc'[u] = pc[u]
  BY <1>2, <1>5 DEF CreatorTypeOK
<1>7. /\ fileStatusMap'[FileOf(t)] = IF l = "notify" THEN "ALLOCATED" ELSE "FAILED"
      /\ \A f \in Files : f # FileOf(t) => fileStatusMap'[f] = fileStatusMap[f]
  BY <1>2, <1>5 DEF CreatorTypeOK
<1>8. Once'
  BY <1>1, <1>2, <1>3, <1>6, OnceStep, Zenon
<1>9. ASSUME NEW f \in Files, f # FileOf(t) PROVE LogOK(f)'
  BY <1>3, <1>7, <1>9, FileStep
<1>10. ASSUME l = "notify" PROVE LogOK(g)'
  <2>1. Opened(FileOf(t))
    BY <1>2, <1>5, <1>10, OpenedFirst DEF LogOf
  <2> QED
    BY <1>2, <1>g, <1>3, <1>4, <1>7, <1>10, <2>1 DEF LogOK, Opened, FileCreatorAssumption
<1>11. ASSUME l = "notifyFailed" PROVE LogOK(g)'
  <2>1. logged[FileOf(t)] = <<>>
    BY <1>1, <1>2, <1>5, <1>11 DEF LogOf
  <2> QED
    BY <1>2, <1>g, <1>3, <1>4, <1>7, <1>11, <2>1, Zenon DEF LogOK, FileCreatorAssumption
<1>12. LogOK(g)'
  BY <1>5, <1>10, <1>11
<1>13. LogOf(t)'
  BY <1>5, <1>6 DEF LogOf, Allocating, Creating, Waiting
<1>14. ASSUME NEW u \in Threads, u # t PROVE LogOf(u)'
  BY <1>3, <1>6, <1>14 DEF Logging, LogOf, FileOf
<1> QED
  BY <1>g, <1>3, <1>8, <1>9, <1>12, <1>13, <1>14 DEF Logging

\* A block comes after the entries of the opening, a deletion is logged once.
LEMMA MarkBlockVerifiedLogs ==
    ASSUME FileCreatorAssumption, Creation, Logging, NEW t \in Threads, markBlockVerified(t) PROVE Logging'
<1>1. /\ pc[t] = "verified" /\ pc' = [pc EXCEPT ![t] = "idle"] /\ done' = done \cup {blk[t]}
      /\ blk' = [blk EXCEPT ![t] = <<0, 0>>]
      /\ UNCHANGED <<fileStatusMap, allocationStatus, todo>>
      /\ logged' = [logged EXCEPT ![FileOf(t)] =
                       Append(logged[FileOf(t)], IF allocationStatus[FileOf(t)] = "TO_BE_DELETED"
                                                 THEN "invalidate" ELSE "block")]
  BY DEF markBlockVerified, goto, NoBlock, session
<1>2. /\ ThreadOK(t) /\ CreatorTypeOK /\ FileOf(t) \in Files /\ blk[t] \in BlocksFor(allocationStatus)
      /\ blk[t] = <<blk[t][1], blk[t][2]>> /\ Once /\ DOMAIN logged = Files
  BY <1>1, At DEF Logging
<1>3. PICK g \in Files : g = FileOf(t)
  BY <1>2
<1>4. LogOK(g) /\ Allocated(g)
  BY <1>1, <1>2, <1>3 DEF Logging, ThreadOK, Using
<1>5. pc'[t] = "idle" /\ \A u \in Threads \ {t} : pc'[u] = pc[u] /\ blk'[u] = blk[u] /\ FileOf(u)' = FileOf(u)
  BY <1>1, <1>2 DEF CreatorTypeOK, FileOf
<1>6. Once'
  BY <1>1, <1>2, <1>5 DEF Once
<1>7. /\ DOMAIN logged' = Files /\ \A f \in Files : f # g => logged'[f] = logged[f]
      /\ logged'[g] = Append(logged[g], IF allocationStatus[g] = "TO_BE_DELETED" THEN "invalidate" ELSE "block")
  BY <1>1, <1>2, <1>3
<1>8. ASSUME NEW f \in Files, f # g PROVE LogOK(f)'
  BY <1>1, <1>7, <1>8, FileStep
<1>9. ASSUME allocationStatus[g] = "TO_BE_DELETED" PROVE LogOK(g)'
  <2>1. blk[t] = <<g, 0>>
    BY <1>2, <1>3, <1>9, BlockFacts DEF FileOf
  <2>2. <<g, 0>> \notin done
    BY <1>1, <1>2, <2>1, Zenon DEF Once
  <2>3. logged[g] = <<>>
    BY <1>4, <1>9, <2>2 DEF LogOK, DeletionLogged
  <2>4. logged'[g] = <<"invalidate">> /\ <<g, 0>> \in done'
    BY <1>1, <1>7, <1>9, <2>1, <2>3
  <2>5. logged'[g] \in Seq(Entries)
    BY <2>4 DEF Entries
  <2> QED
    BY <1>1, <1>9, <2>4, <2>5 DEF LogOK, DeletionLogged
<1>10. ASSUME allocationStatus[g] # "TO_BE_DELETED" PROVE LogOK(g)'
  <2>1. fileStatusMap[g] = "ALLOCATED" /\ Opened(g) /\ logged[g] \in Seq(Entries)
    BY <1>4, <1>10 DEF Allocated, LogOK
  <2>2. logged'[g] = Append(logged[g], "block")
    BY <1>7, <1>10
  <2>3. PICK s \in Seq(Entries), first \in Seq(Entries) :
           s = logged[g] /\ first = OpenEntries(allocationStatus[g])
    BY <2>1, OpenEntriesType
  <2>4. /\ Len(Append(s, "block")) = Len(s) + 1 /\ Append(s, "block")[Len(s) + 1] = "block"
        /\ \A i \in 1..Len(s) : Append(s, "block")[i] = s[i]
        /\ Append(s, "block") \in Seq(Entries) /\ Len(s) \in Nat /\ Len(first) \in Nat
    BY <2>3 DEF Entries
  <2>5. Len(first) <= Len(s) /\ \A i \in 1..Len(s) : s[i] = IF i <= Len(first) THEN first[i] ELSE "block"
    BY <2>1, <2>3 DEF Opened
  <2>6. /\ Len(first) <= Len(Append(s, "block"))
        /\ \A i \in 1..Len(Append(s, "block")) :
              Append(s, "block")[i] = IF i <= Len(first) THEN first[i] ELSE "block"
    BY <2>4, <2>5
  <2>7. Opened(g)'
    BY <1>1, <2>2, <2>3, <2>6 DEF Opened
  <2> QED
    BY <1>1, <1>10, <2>1, <2>2, <2>3, <2>4, <2>7 DEF LogOK, FileCreatorAssumption
<1>11. LogOf(t)'
  BY <1>5 DEF LogOf, Allocating, Creating, Waiting
<1>12. ASSUME NEW u \in Threads, u # t PROVE LogOf(u)'
  <2>1. LogOf(u) /\ pc'[u] = pc[u] /\ FileOf(u)' = FileOf(u)
    BY <1>5, <1>12 DEF Logging
  <2>2. ASSUME pc[u] \in Allocating PROVE FileOf(u) \in Files /\ FileOf(u) # g
    <3>1. pc[u] # "idle"
      BY <2>2 DEF Allocating, Creating
    <3>2. FileOf(u) \in Files /\ ThreadOK(u)
      BY <3>1, At
    <3>3. fileStatusMap[FileOf(u)] = u /\ allocationStatus[FileOf(u)] # "TO_BE_DELETED"
      BY <2>1, <2>2, <3>2 DEF ThreadOK, LogOf
    <3> QED
      BY <1>4, <3>2, <3>3 DEF Allocated, FileCreatorAssumption
  <2>3. "setAllocated" \in Allocating
    BY DEF Allocating
  <2> QED
    BY <1>1, <1>7, <2>1, <2>2, <2>3 DEF LogOf
<1> QED
  BY <1>6, <1>7, <1>8, <1>9, <1>10, <1>11, <1>12 DEF Logging

LEMMA EndSessionLogs ==
    ASSUME FileCreatorAssumption, endCurGlobalSession PROVE Logging'
<1>1. /\ pc' = [t \in Threads |-> "idle"] /\ done' = {} /\ logged' = [f \in Files |-> <<>>]
      /\ fileStatusMap' = [f \in Files |-> "NONE"]
  BY DEF endCurGlobalSession
<1>2. "NONE" \notin Threads
  BY DEF FileCreatorAssumption
<1>3. Once'
  BY <1>1 DEF Once
<1>4. \A f \in Files : LogOK(f)'
  BY <1>1, <1>2 DEF LogOK, DeletionLogged
<1>5. \A t \in Threads : LogOf(t)'
  BY <1>1 DEF LogOf, Allocating, Creating, Waiting
<1> QED
  BY <1>1, <1>3, <1>4, <1>5 DEF Logging

LEMMA LoggingStutter ==
    ASSUME Logging, UNCHANGED <<fileStatusMap, allocationStatus, logged, pc, blk, todo, done>>
    PROVE  Logging'
<1>1. Once'
  BY OnceStep DEF Logging
<1>2. \A u \in Threads : Quiet(u)
  BY DEF Quiet
<1> QED
  BY <1>1, <1>2, QuietStep

LEMMA LoggingNext == ASSUME FileCreatorAssumption, Creation, Logging, [Next]_vars PROVE Logging'
<1>1. ASSUME NEW t \in Threads, step(t) PROVE Logging'
  <2>1. Goes(t) \/ lookup(t) \/ logFile(t) \/ publish(t) \/ notify(t) \/ markBlockVerified(t)
    BY <1>1 DEF step, Goes
  <2> QED
    BY <2>1, GoesStep, LookupLogs, LogFileLogs, PublishLogs, NotifyLogs, MarkBlockVerifiedLogs
<1>2. ASSUME NEW t \in Threads, open(t) \/ waitLock(t) PROVE Logging'
  BY <1>2, OpenLogs, GoesStep DEF Goes
<1>3. ASSUME NEW d \in 1..Depth, removeDir(d) PROVE Logging'
  BY <1>3, LoggingStutter DEF removeDir
<1>4. CASE endCurGlobalSession
  BY <1>4, EndSessionLogs
<1>5. CASE UNCHANGED vars
  BY <1>5, LoggingStutter DEF vars
<1> QED
  BY <1>1, <1>2, <1>3, <1>4, <1>5 DEF Next

\* EntriesInOrder holds of every run of the receiver threads: what openAndSetSize
\* adds to the log comes once and before all the blocks of the file, and the
\* deletion of a file is logged once and alone.
THEOREM EntriesInOrderTheorem == ASSUME FileCreatorAssumption PROVE Spec => []EntriesInOrder
<1>1. Init => Logging
  BY LoggingInit
<1>2. Creation /\ Logging /\ [Next]_vars => Logging'
  BY LoggingNext
<1>3. Creation /\ Logging => EntriesInOrder
  <2> SUFFICES ASSUME Creation, Logging, NEW f \in Files
               PROVE  \/ logged[f] = <<>>
                      \/ allocationStatus[f] = "TO_BE_DELETED" /\ logged[f] = <<"invalidate">>
                      \/ Opened(f)
    BY DEF EntriesInOrder, Opened
  <2>1. LogOK(f) /\ fileStatusMap[f] \in Threads \cup {"NONE", "ALLOCATED", "FAILED"}
    BY DEF Logging, Creation, CreatorTypeOK
  <2> QED
    BY <2>1, OpenedFirst DEF LogOK, DeletionLogged
<1> QED
  BY <1>1, <1>2, <1>3, CreationTheorem, PTL DEF Spec
=============================================================================
