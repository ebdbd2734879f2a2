---------------------------- MODULE FileCreator ----------------------------
(***************************************************************************)
(* FileCreator, and FileWriter on top of it: the receiver threads open the *)
(* files their blocks belong to.  The first thread that comes for a file   *)
(* creates or resizes it, the others wait.  File f lies in directory f,    *)
(* which lies in directory f - 1, and so on; 0 is the root directory.      *)
(***************************************************************************)
EXTENDS Integers, Sequences, FiniteSets

CONSTANTS
    Threads,
    Files,        \* a set of numbers, the depths of their directories
    NumBlocks,    \* blocks of a file, 1..NumBlocks; block 0 was there before
    Statuses,     \* values of allocationStatus to choose from
    Prealloc,     \* shouldPreallocateFiles()
    Overwrite,    \* overwrite || enable_download_resumption
    MaxFailures,  \* bound: system calls that fail
    MaxRemovals,  \* bound: directories that somebody else removes
    MaxSessions   \* bound

Depth == CHOOSE d \in Files \cup {0} : \A f \in Files : f <= d

FileCreatorAssumption ==
    /\ Files \subseteq Nat /\ IsFiniteSet(Files) /\ NumBlocks \in Nat
    /\ Statuses \subseteq {"NOT_EXISTS", "EXISTS_CORRECT_SIZE", "EXISTS_TOO_SMALL", "EXISTS_TOO_LARGE",
                           "TO_BE_DELETED"}
    /\ Prealloc \in BOOLEAN /\ Overwrite \in BOOLEAN
    /\ {MaxFailures, MaxRemovals, MaxSessions} \subseteq Nat
    /\ Threads \cap {"NONE", "ALLOCATED", "FAILED"} = {}

VARIABLES
    fileStatusMap,     \* [f]: NONE, ALLOCATED, FAILED or the allocating thread
    allocationMutex,   \* who holds allocationMutex_, or "NONE"
    waiting,           \* [t]: whose condition variable t waits on, or "NONE"
    createdDirs,       \* createdDirs_
    dirs,              \* the directories that are there
    exists,            \* [f]: the file is there
    data,              \* [f]: the blocks it holds
    allocationStatus,  \* [f]: what the sender says of it
    kept,              \* [f]: the blocks the sender will not send
    pc, blk,           \* where a thread is, and with which block
    walk,              \* [t]: arguments of createDirRecursively
    logged,            \* [f]: its entries in the transfer log
    todo, done,        \* blocks to be written, blocks written
    failures, removals, sessions

vars == <<fileStatusMap, allocationMutex, waiting, createdDirs, dirs, exists, data, allocationStatus, kept,
          pc, blk, walk, logged, todo, done, failures, removals, sessions>>
disk == <<dirs, exists, data>>
session == <<allocationStatus, kept, removals, sessions>>

NoBlock == <<0, 0>>
NoWalk == [dir |-> 0, force |-> FALSE, next |-> ""]

\* A file and a block of it: one that is to be deleted comes as an empty block.
BlocksFor(status) ==
    {<<f, i>> : f \in {g \in Files : status[g] # "TO_BE_DELETED"}, i \in 1..NumBlocks}
      \cup {<<f, 0>> : f \in {g \in Files : status[g] = "TO_BE_DELETED"}}

\* The blocks of an earlier session that the sender relies on.
KeptFor(st) == IF st \in {"EXISTS_CORRECT_SIZE", "EXISTS_TOO_SMALL"} THEN {0} ELSE {}

\* Files that the sender's list has are on the disk; others may be.
Init ==
    /\ fileStatusMap = [f \in Files |-> "NONE"]
    /\ allocationMutex = "NONE"
    /\ waiting = [t \in Threads |-> "NONE"]
    /\ createdDirs = {}
    /\ allocationStatus \in [Files -> Statuses]
    /\ exists \in [Files -> BOOLEAN]
    /\ \A f \in Files : allocationStatus[f] # "NOT_EXISTS" => exists[f]
    /\ data = [f \in Files |-> IF exists[f] THEN {0} ELSE {}]
    /\ dirs = UNION {0..f : f \in {g \in Files \cup {0} : g = 0 \/ exists[g]}}
    /\ kept = [f \in Files |-> KeptFor(allocationStatus[f])]
    /\ pc = [t \in Threads |-> "idle"] /\ blk = [t \in Threads |-> NoBlock]
    /\ walk = [t \in Threads |-> NoWalk]
    /\ logged = [f \in Files |-> <<>>]
    /\ todo = BlocksFor(allocationStatus) /\ done = {}
    /\ failures = 0 /\ removals = 0 /\ sessions = 1

goto(t, l) == pc' = [pc EXCEPT ![t] = l]
FileOf(t) == blk[t][1]

\* A system call of t fails for a reason outside of the program.
fails == failures < MaxFailures /\ failures' = failures + 1
works == UNCHANGED failures
-----------------------------------------------------------------------------
(* openForBlocks, FileCreator.cpp *)

\* A block comes to a thread; a file to be deleted is unlinked.
open(t) ==
    /\ pc[t] = "idle"
    /\ \E b \in todo :
          /\ todo' = todo \ {b}
          /\ blk' = [blk EXCEPT ![t] = b]
          /\ IF allocationStatus[b[1]] = "TO_BE_DELETED"
               THEN /\ goto(t, "write")
                    /\ \/ /\ works
                          /\ exists' = [exists EXCEPT ![b[1]] = FALSE]
                          /\ data' = [data EXCEPT ![b[1]] = {}]
                       \/ fails /\ UNCHANGED <<exists, data>>
             ELSE goto(t, "lookup") /\ works /\ UNCHANGED <<exists, data>>
    /\ UNCHANGED <<fileStatusMap, allocationMutex, waiting, createdDirs, dirs, walk, logged, done, session>>

\* Mutation of lookup: the thread is entered only when it has allocated.
lookupOnly(t) ==
    /\ pc[t] = "lookup"
    /\ LET f == FileOf(t) IN
       IF fileStatusMap[f] = "NONE" /\ allocationStatus[f] # "EXISTS_CORRECT_SIZE"
         THEN goto(t, IF allocationStatus[f] = "NOT_EXISTS" THEN "createDir" ELSE "openAndSet")
       ELSE goto(t, IF fileStatusMap[f] = "FAILED" THEN "failed" ELSE "openExisting")
    /\ UNCHANGED <<fileStatusMap, allocationMutex, waiting, createdDirs, disk, blk, walk, logged, todo, done,
                   failures, session>>

\* The map is looked up and, for the first thread, changed under lock_.
lookup(t) ==
    /\ pc[t] = "lookup"
    /\ LET f == FileOf(t)
           st == allocationStatus[f]
           entry == IF fileStatusMap[f] = "NONE" /\ st = "EXISTS_CORRECT_SIZE" THEN "ALLOCATED"
                    ELSE fileStatusMap[f] IN
       IF entry = "NONE"
         THEN /\ fileStatusMap' = [fileStatusMap EXCEPT ![f] = t]
              /\ goto(t, IF st = "NOT_EXISTS" THEN "createDir" ELSE "openAndSet")
              /\ UNCHANGED waiting
       ELSE /\ fileStatusMap' = [fileStatusMap EXCEPT ![f] = entry]
            /\ goto(t, IF entry = "FAILED" THEN "failed"
                       ELSE IF entry = "ALLOCATED" THEN "openExisting" ELSE "waitLock")
            /\ waiting' = [waiting EXCEPT ![t] = IF entry \in Threads THEN entry ELSE "NONE"]
    /\ UNCHANGED <<allocationMutex, createdDirs, disk, blk, walk, logged, todo, done, failures, session>>
-----------------------------------------------------------------------------
(* createFile and createDirRecursively *)

\* createFile: the directory first, if the file is in one.
createDir(t) ==
    /\ pc[t] = "createDir"
    /\ IF FileOf(t) = 0 THEN goto(t, "create") /\ UNCHANGED walk
       ELSE /\ goto(t, "up")
            /\ walk' = [walk EXCEPT ![t] = [dir |-> FileOf(t), force |-> FALSE, next |-> "create"]]
    /\ UNCHANGED <<fileStatusMap, allocationMutex, waiting, createdDirs, disk, blk, logged, todo, done,
                   failures, session>>

\* createDirRecursively on its way up: a directory in the cache ends it,
\* unless it is forced.
up(t) ==
    /\ pc[t] = "up"
    /\ LET w == walk[t] IN
       IF w.dir = 0 \/ (~w.force /\ w.dir \in createdDirs) THEN goto(t, "down") /\ UNCHANGED walk
       ELSE walk' = [walk EXCEPT ![t].dir = @ - 1] /\ UNCHANGED pc
    /\ UNCHANGED <<fileStatusMap, allocationMutex, waiting, createdDirs, disk, blk, logged, todo, done,
                   failures, session>>

\* The directory could not be made: try again with force, or give up.
dirFailed(t) ==
    IF walk[t].force THEN goto(t, "setFailed") /\ UNCHANGED walk
    ELSE /\ goto(t, "up")
         /\ walk' = [walk EXCEPT ![t] = [dir |-> FileOf(t), force |-> TRUE, next |-> "create"]]

\* ... and on its way down: mkdir, then the cache.
down(t) ==
    /\ pc[t] = "down"
    /\ LET d == walk[t].dir + 1 IN
       IF walk[t].dir = FileOf(t) THEN goto(t, walk[t].next) /\ works /\ UNCHANGED <<walk, dirs, createdDirs>>
       ELSE IF d - 1 \notin dirs THEN works /\ dirFailed(t) /\ UNCHANGED <<dirs, createdDirs>>
       ELSE \/ /\ works
               /\ dirs' = dirs \cup {d}
               /\ createdDirs' = createdDirs \cup {d}
               /\ walk' = [walk EXCEPT ![t].dir = d]
               /\ UNCHANGED pc
            \/ fails /\ dirFailed(t) /\ UNCHANGED <<dirs, createdDirs>>
    /\ UNCHANGED <<fileStatusMap, allocationMutex, waiting, exists, data, blk, logged, todo, done, session>>

\* open(O_CREAT) with O_TRUNC or O_EXCL; if it fails, once more after the
\* directory was made by force.
create(t) ==
    /\ pc[t] \in {"create", "createAgain"}
    /\ LET f == FileOf(t)
           failed == IF f = 0 \/ pc[t] = "createAgain" THEN goto(t, "setFailed") /\ UNCHANGED walk
                     ELSE /\ goto(t, "up")
                          /\ walk' = [walk EXCEPT ![t] = [dir |-> f, force |-> TRUE, next |-> "createAgain"]] IN
       IF f \notin dirs \/ (exists[f] /\ ~Overwrite) THEN works /\ failed /\ UNCHANGED <<exists, data>>
       ELSE \/ /\ works
               /\ exists' = [exists EXCEPT ![f] = TRUE]
               /\ data' = [data EXCEPT ![f] = {}]
               /\ goto(t, "setSize")
               /\ UNCHANGED walk
            \/ fails /\ failed /\ UNCHANGED <<exists, data>>
    /\ UNCHANGED <<fileStatusMap, allocationMutex, waiting, createdDirs, dirs, blk, logged, todo, done, session>>
-----------------------------------------------------------------------------
(* openAndSetSize, openForFirstBlock, waitForAllocationFinish *)

\* openExistingFile of the allocating thread.
openAndSet(t) ==
    /\ pc[t] = "openAndSet"
    /\ \/ works /\ exists[FileOf(t)] /\ goto(t, "setSize")
       \/ works /\ ~exists[FileOf(t)] /\ goto(t, "setFailed")
       \/ fails /\ goto(t, "setFailed")
    /\ UNCHANGED <<fileStatusMap, allocationMutex, waiting, createdDirs, disk, blk, walk, logged, todo, done,
                   session>>

\* setFileSize: only what is too large is cut, to nothing without preallocation.
setSize(t) ==
    /\ pc[t] = "setSize"
    /\ LET f == FileOf(t) IN
       \/ /\ works
          /\ data' = IF allocationStatus[f] = "EXISTS_TOO_LARGE" /\ ~Prealloc THEN [data EXCEPT ![f] = {}]
                     ELSE data
          /\ goto(t, "logFile")
       \/ fails /\ goto(t, "setFailed") /\ UNCHANGED data
    /\ UNCHANGED <<fileStatusMap, allocationMutex, waiting, createdDirs, dirs, exists, blk, walk, logged, todo,
                   done, session>>

\* The entries openAndSetSize adds to the log.
OpenEntries(st) ==
    CASE st = "NOT_EXISTS" -> <<"create">>
      [] st = "EXISTS_TOO_LARGE" -> <<"invalidate", "create">>
      [] st = "EXISTS_TOO_SMALL" -> <<"resize">>
      [] OTHER -> <<>>
logFile(t) ==
    /\ pc[t] = "logFile"
    /\ logged' = [logged EXCEPT ![FileOf(t)] = @ \o OpenEntries(allocationStatus[FileOf(t)])]
    /\ goto(t, "setAllocated")
    /\ UNCHANGED <<fileStatusMap, allocationMutex, waiting, createdDirs, disk, blk, walk, todo, done, failures,
                   session>>

\* openForFirstBlock: the result goes to the map under lock_ ...
publish(t) ==
    /\ pc[t] \in {"setAllocated", "setFailed"}
    /\ fileStatusMap' = [fileStatusMap EXCEPT ![FileOf(t)] = IF pc[t] = "setAllocated" THEN "ALLOCATED"
                                                             ELSE "FAILED"]
    /\ goto(t, IF pc[t] = "setAllocated" THEN "notify" ELSE "notifyFailed")
    /\ UNCHANGED <<allocationMutex, waiting, createdDirs, disk, blk, walk, logged, todo, done, failures, session>>

\* All threads that sleep on the condition variable of t are awake again.
Awake(t) == [u \in Threads |-> IF pc[u] = "asleep" /\ waiting[u] = t THEN "awake"
                               ELSE IF u = t THEN IF pc[t] = "notify" THEN "write" ELSE "failed" ELSE pc[u]]

\* Mutation of notify: allocationMutex_ is not taken.
notifyUnlocked(t) ==
    /\ pc[t] \in {"notify", "notifyFailed"}
    /\ pc' = Awake(t)
    /\ UNCHANGED <<fileStatusMap, allocationMutex, waiting, createdDirs, disk, blk, walk, logged, todo, done,
                   failures, session>>

\* ... then the threads that wait are notified under allocationMutex_.
notify(t) ==
    /\ pc[t] \in {"notify", "notifyFailed"}
    /\ allocationMutex = "NONE"
    /\ pc' = Awake(t)
    /\ UNCHANGED <<fileStatusMap, allocationMutex, waiting, createdDirs, disk, blk, walk, logged, todo, done,
                   failures, session>>

\* waitForAllocationFinish: allocationMutex_ is taken, also after each wait
\* (which may end without a notification).
waitLock(t) ==
    /\ pc[t] \in {"waitLock", "awake", "asleep"}
    /\ allocationMutex = "NONE"
    /\ allocationMutex' = t
    /\ goto(t, "check")
    /\ UNCHANGED <<fileStatusMap, waiting, createdDirs, disk, blk, walk, logged, todo, done, failures, session>>

check(t) ==
    /\ pc[t] = "check"
    /\ LET st == fileStatusMap[FileOf(t)] IN
       IF st \in {"ALLOCATED", "FAILED"}
         THEN /\ goto(t, IF st = "ALLOCATED" THEN "openExisting" ELSE "failed")
              /\ allocationMutex' = "NONE"
              /\ waiting' = [waiting EXCEPT ![t] = "NONE"]
       ELSE goto(t, "sleep") /\ UNCHANGED <<allocationMutex, waiting>>
    /\ UNCHANGED <<fileStatusMap, createdDirs, disk, blk, walk, logged, todo, done, failures, session>>

\* wait() gives the mutex back and sleeps, in one step.
sleep(t) ==
    /\ pc[t] = "sleep"
    /\ goto(t, "asleep")
    /\ allocationMutex' = "NONE"
    /\ UNCHANGED <<fileStatusMap, waiting, createdDirs, disk, blk, walk, logged, todo, done, failures, session>>

\* openExistingFile of the other threads.
openExisting(t) ==
    /\ pc[t] = "openExisting"
    /\ \/ works /\ exists[FileOf(t)] /\ goto(t, "write")
       \/ works /\ ~exists[FileOf(t)] /\ goto(t, "failed")
       \/ fails /\ goto(t, "failed")
    /\ UNCHANGED <<fileStatusMap, allocationMutex, waiting, createdDirs, disk, blk, walk, logged, todo, done,
                   session>>
-----------------------------------------------------------------------------
\* FileWriter::write, sync and close, all of the block or an error.
write(t) ==
    /\ pc[t] = "write"
    /\ \/ /\ works
          /\ data' = IF allocationStatus[FileOf(t)] = "TO_BE_DELETED" THEN data
                     ELSE [data EXCEPT ![FileOf(t)] = @ \cup {blk[t][2]}]
          /\ goto(t, "verified")
       \/ fails /\ goto(t, "failed") /\ UNCHANGED data
    /\ UNCHANGED <<fileStatusMap, allocationMutex, waiting, createdDirs, dirs, exists, blk, walk, logged, todo,
                   done, session>>

\* ReceiverThread::markBlockVerified
markBlockVerified(t) ==
    /\ pc[t] = "verified"
    /\ LET f == FileOf(t) IN
       logged' = [logged EXCEPT ![f] = Append(@, IF allocationStatus[f] = "TO_BE_DELETED" THEN "invalidate"
                                                 ELSE "block")]
    /\ done' = done \cup {blk[t]}
    /\ blk' = [blk EXCEPT ![t] = NoBlock]
    /\ goto(t, "idle")
    /\ UNCHANGED <<fileStatusMap, allocationMutex, waiting, createdDirs, disk, walk, todo, failures, session>>

\* Receiver::endCurGlobalSession once all threads are done, and the session
\* that follows it; sequence ids start anew, so the map must be empty.
endCurGlobalSession ==
    /\ sessions < MaxSessions
    /\ \A t \in Threads : pc[t] \in {"idle", "failed"}
    /\ sessions' = sessions + 1
    /\ fileStatusMap' = [f \in Files |-> "NONE"]
    /\ UNCHANGED <<createdDirs, disk, removals, failures, allocationMutex, waiting, walk>>
    /\ allocationStatus' \in [Files -> Statuses]
    /\ \A f \in Files : allocationStatus'[f] # "NOT_EXISTS" => exists[f] /\ KeptFor(allocationStatus'[f]) \subseteq data[f]
    /\ kept' = [f \in Files |-> KeptFor(allocationStatus'[f])]
    /\ todo' = BlocksFor(allocationStatus') /\ done' = {}
    /\ logged' = [f \in Files |-> <<>>]
    /\ pc' = [t \in Threads |-> "idle"] /\ blk' = [t \in Threads |-> NoBlock]

\* Somebody else removes a directory in which there is no file.
removeDir(d) ==
    /\ removals < MaxRemovals
    /\ removals' = removals + 1
    /\ d \in dirs \ {0} /\ \A f \in Files : f >= d => ~exists[f]
    /\ dirs' = {e \in dirs : e < d}
    /\ UNCHANGED <<fileStatusMap, allocationMutex, waiting, createdDirs, exists, data, allocationStatus, kept,
                   pc, blk, walk, logged, todo, done, failures, sessions>>
-----------------------------------------------------------------------------
step(t) ==
    \/ lookup(t) \/ createDir(t) \/ up(t) \/ down(t) \/ create(t)
    \/ openAndSet(t) \/ setSize(t) \/ logFile(t) \/ publish(t) \/ notify(t)
    \/ waitLock(t) /\ pc[t] # "asleep"
    \/ check(t) \/ sleep(t) \/ openExisting(t) \/ write(t) \/ markBlockVerified(t)

Next ==
    \/ \E t \in Threads : open(t) \/ step(t) \/ waitLock(t)
    \/ \E d \in 1..Depth : removeDir(d)
    \/ endCurGlobalSession

\* Threads run; no one relies on a wait that ends without a notification.
\* The mutex is fair: a thread that wants it gets it.
Spec == Init /\ [][Next]_vars /\ \A t \in Threads : SF_vars(step(t))
-----------------------------------------------------------------------------
\* What was received stays: no thread creates or cuts a file once another has
\* written a block of it, and the blocks of an earlier session that the sender
\* relies on are never cut ("other threads wait for the first thread to finish
\* and opens the file without setting size").
BlocksStay ==
    \A f \in Files : kept[f] \cup {b[2] : b \in {c \in done : c[1] = f /\ c[2] > 0}} \subseteq data[f]

\* The entries of a file are in the order that the parser of the log takes:
\* creation or resize once, and before all the blocks.
EntriesInOrder ==
    \A f \in Files : LET first == OpenEntries(allocationStatus[f]) IN
        \/ logged[f] = <<>>
        \/ allocationStatus[f] = "TO_BE_DELETED" /\ logged[f] = <<"invalidate">>
        \/ /\ Len(first) <= Len(logged[f])
           /\ \A i \in 1..Len(logged[f]) : logged[f][i] = IF i <= Len(first) THEN first[i] ELSE "block"

\* A directory that vanishes once does not make a file fail, whatever is in the
\* cache ("if an open fails where we assumed the directory already exists based
\* on cache, we try creating the dir and open again before failing").
RemovalIsSurvived == Overwrite /\ MaxFailures = 0 => \A t \in Threads : pc[t] # "failed"

\* Every open ends: a thread that waits for the allocation of another is woken,
\* also if the allocation failed.
EveryOpenReturns == \A t \in Threads : pc[t] = "lookup" ~> pc[t] \in {"write", "failed"}
=============================================================================
