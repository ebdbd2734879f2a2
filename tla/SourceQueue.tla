---------------------------- MODULE SourceQueue ----------------------------
(***************************************************************************)
(* DirectorySourceQueue: one thread discovers files and puts their blocks  *)
(* into the queue, the sender threads take them out, give them back when a *)
(* connection breaks, and sleep while there is nothing to take.  The list  *)
(* of what the receiver has may come at any time of the discovery, before  *)
(* the first block is taken.                                               *)
(***************************************************************************)
EXTENDS FileChunks, FiniteSets

CONSTANTS
    Threads,       \* the sender threads
    NumFiles,      \* files 1..NumFiles, in the order of discovery
    Sizes,         \* sizes of files to choose from
    BlockSize,     \* in bytes, 0 if blocks are disabled
    FirstBatch,    \* files that do not come from the generator; NumFiles for none
    Explore,       \* files come from a directory, not from a list
    Resume,        \* the receiver sends its list
    DeleteFiles,   \* enableFileDeletion()
    TwoPhases,     \* two_phases
    MaxFailures,   \* bound: directories, stats and opens that fail
    MaxBreaks      \* bound: broken connections

Files == 1..NumFiles
Extra == NumFiles + 1        \* a file that only the receiver has
NumClientThreads == Cardinality(Threads)

SourceQueueAssumption ==
    /\ NumFiles \in Nat /\ Sizes \subseteq Nat /\ BlockSize \in Nat /\ FirstBatch \in 0..NumFiles
    /\ {Explore, Resume, DeleteFiles, TwoPhases} \subseteq BOOLEAN
    /\ Explore => FirstBatch = NumFiles
    /\ {MaxFailures, MaxBreaks} \subseteq Nat

VARIABLES
    size,               \* [f]: its size
    list,               \* what the receiver has; taken over by setPreviouslyReceivedChunks
    listReceived,
    bpc, next,          \* the discovery thread, and the file it is at
    sharedFileData,     \* sequence of meta data
    sourceQueue,
    nextSeqId, numEntries, numBlocks, totalFileSize, numBlocksDequeued,
    initFinished,
    failedDirectories,  \* some directory could not be opened, or stat failed
    failedSources,      \* sources in failedSourceStats_
    pc, source,         \* a sender thread, and the source it opens
    held,               \* sources it has sent and that are not acknowledged
    acked,
    pending,            \* [t]: notifications it still has to give
    failures, breaks, checkFailed

vars == <<size, list, listReceived, bpc, next, sharedFileData, sourceQueue, nextSeqId, numEntries, numBlocks,
          totalFileSize, numBlocksDequeued, initFinished, failedDirectories, failedSources, pc, source, held,
          acked, pending, failures, breaks, checkFailed>>
counters == <<nextSeqId, numEntries, numBlocks, totalFileSize>>
ends == <<size, list, failures, breaks, checkFailed>>

NoSource == [f |-> 0, off |-> 0, len |-> 0, del |-> FALSE, retries |-> 0]

\* What the receiver may have of a file: nothing, all, the first byte, the
\* first byte of a file that was smaller, or of one that was larger.
ClaimsOf(f, n) ==
    {[f |-> f, seq |-> NumFiles + 1 - f, size |-> s, chunks |-> c] :
        <<s, c>> \in {<<n, <<Interval(0, n)>>>>}
                     \cup {<<m, <<Interval(0, 1)>>>> : m \in {k \in (n - 1)..(n + 1) : k >= 1}}}

Init ==
    /\ size \in [Files -> Sizes]
    /\ IF Resume
         THEN list \in UNION {{{c[f] : f \in S} : c \in {d \in [S -> UNION {ClaimsOf(f, IF f = Extra THEN 1 ELSE size[f]) : f \in S}] :
                                                          \A f \in S : d[f] \in ClaimsOf(f, IF f = Extra THEN 1 ELSE size[f])}}
                               : S \in SUBSET (Files \cup {Extra})}
       ELSE list = {}
    /\ listReceived = FALSE
    /\ bpc = (IF FirstBatch = 0 /\ NumFiles > 0 THEN "wait" ELSE "files") /\ next = 1
    /\ sharedFileData = <<>> /\ sourceQueue = {}
    /\ nextSeqId = 1 /\ numEntries = 0 /\ numBlocks = 0 /\ totalFileSize = 0 /\ numBlocksDequeued = 0
    /\ initFinished = FALSE
    /\ failedDirectories = FALSE /\ failedSources = {}
    /\ pc = [t \in Threads |-> "idle"] /\ source = [t \in Threads |-> NoSource]
    /\ held = [t \in Threads |-> {}] /\ acked = {}
    /\ pending = [t \in Threads |-> 0]
    /\ failures = 0 /\ breaks = 0 /\ checkFailed = FALSE

\* previouslyTransferredChunks_
Previous == IF listReceived THEN list ELSE {}
-----------------------------------------------------------------------------
\* SourceComparator: s comes after r.
After(s, r) ==
    IF s.del # r.del THEN r.del
    ELSE IF s.retries # r.retries THEN s.retries > r.retries
    ELSE IF s.len # r.len THEN s.len < r.len
    ELSE IF s.off # r.off THEN s.off > r.off
    ELSE s.f > r.f
Top(q) == CHOOSE s \in q : \A r \in q \ {s} : After(r, s)

Asleep(p) == {t \in Threads : p[t] = "asleep"}
Woken(p, W) == [t \in Threads |-> IF t \in W THEN "woken" ELSE p[t]]

\* Mutation of smartNotify: one sleeper for any number of sources.
smartNotifyOne(n, p) ==
    \E W \in SUBSET Asleep(p) :
        /\ Cardinality(W) = IF n = 0 \/ Asleep(p) = {} THEN 0 ELSE 1
        /\ pc' = Woken(p, W)

\* smartNotify for n sources: all sleepers, or as many of them as there are.
smartNotify(n, p) ==
    LET a == Cardinality(Asleep(p))
        m == IF n >= NumClientThreads \/ n >= a THEN a ELSE n IN
    \E W \in SUBSET Asleep(p) : Cardinality(W) = m /\ pc' = Woken(p, W)

\* Mutation of BlocksOf: only whole blocks.
BlocksOfWhole(f, c) ==
    LET len == c.end - c.start
        blockSize == IF BlockSize > 0 THEN BlockSize ELSE size[f] IN
    IF len < blockSize
      THEN {[f |-> f, off |-> c.start, len |-> len, del |-> FALSE, retries |-> 0]}
    ELSE {[f |-> f, off |-> c.start + i * blockSize, len |-> blockSize, del |-> FALSE, retries |-> 0]
            : i \in 0..(len \div blockSize - 1)}

\* A chunk is cut into blocks; an empty one is one block.
BlocksOf(f, c) ==
    LET len == c.end - c.start
        blockSize == IF BlockSize > 0 THEN BlockSize ELSE size[f]
        last == IF len = 0 THEN 0 ELSE (len - 1) \div blockSize IN
    {[f |-> f, off |-> c.start + i * blockSize,
      len |-> IF len - i * blockSize < blockSize THEN len - i * blockSize ELSE blockSize,
      del |-> FALSE, retries |-> 0] : i \in 0..last}

\* createIntoQueueInternal: sequence id, allocation status and remaining chunks.
Meta(prev, f, seq) ==
    LET c == {x \in prev : x.f = f} IN
    IF c = {} THEN [f |-> f, seq |-> seq, status |-> "NOT_EXISTS"]
    ELSE LET x == CHOOSE y \in c : TRUE IN
         IF x.size > size[f] THEN [f |-> f, seq |-> seq, status |-> "EXISTS_TOO_LARGE"]
         ELSE [f |-> f, seq |-> x.seq,
               status |-> IF x.size < size[f] THEN "EXISTS_TOO_SMALL" ELSE "EXISTS_CORRECT_SIZE"]
IsNew(m) == m.status \in {"NOT_EXISTS", "EXISTS_TOO_LARGE"}
remainingChunks(prev, m) ==
    IF IsNew(m) THEN <<Interval(0, size[m.f])>>
    ELSE getRemainingChunks((CHOOSE x \in prev : x.f = m.f).chunks, size[m.f])

\* The queue q after one more file; files that are complete are left out.
createIntoQueueInternal(q, prev, f) ==
    LET m == Meta(prev, f, q.seq)
        chunks == remainingChunks(prev, m)
        blocks == UNION {BlocksOf(f, c) : c \in ToSet(chunks)} IN
    IF chunks = <<>> THEN [q EXCEPT !.data = Append(@, [m EXCEPT !.seq = 0, !.status = "COMPLETE"]), !.added = 0]
    ELSE [data |-> Append(q.data, m), queue |-> q.queue \cup blocks,
          seq |-> IF IsNew(m) THEN q.seq + 1 ELSE q.seq,
          entries |-> q.entries + 1, blocks |-> q.blocks + Cardinality(blocks),
          total |-> q.total + getTotalChunkSize(chunks), added |-> Cardinality(blocks)]

Current == [data |-> sharedFileData, queue |-> sourceQueue, seq |-> nextSeqId, entries |-> numEntries,
            blocks |-> numBlocks, total |-> totalFileSize, added |-> 0]
\* Nothing in it, and sequence ids from seq.
Emptied(seq) == [data |-> <<>>, queue |-> {}, seq |-> seq, entries |-> 0, blocks |-> 0, total |-> 0, added |-> 0]

\* enqueueFilesToBeDeleted
enqueueFilesToBeDeleted(q, prev, finished) ==
    LET gone == IF DeleteFiles /\ finished THEN {c \in prev : \A i \in DOMAIN q.data : q.data[i].f # c.f} ELSE {}
        order == SetToSortSeq(gone, LAMBDA x, y : x.f < y.f) IN
    [q EXCEPT !.data = @ \o [i \in 1..Len(order) |-> [f |-> order[i].f, seq |-> order[i].seq,
                                                      status |-> "TO_BE_DELETED"]],
              !.queue = @ \cup {[NoSource EXCEPT !.f = c.f, !.del = TRUE] : c \in gone},
              !.entries = @ + Cardinality(gone), !.blocks = @ + Cardinality(gone),
              !.added = Cardinality(gone)]

become(q) ==
    /\ sharedFileData' = q.data /\ sourceQueue' = q.queue /\ nextSeqId' = q.seq
    /\ numEntries' = q.entries /\ numBlocks' = q.blocks /\ totalFileSize' = q.total
-----------------------------------------------------------------------------
(* The discovery thread, buildQueueSynchronously. *)

\* All sender threads have ended: getTransferStatus() is FINISHED.
Finished == \A t \in Threads : pc[t] = "ended"
BatchEnd == IF next <= FirstBatch THEN FirstBatch ELSE next

\* A file is found (explore, enqueueFiles) and put into the queue.
createIntoQueue ==
    /\ bpc = "files" /\ next <= NumFiles
    /\ ~Finished
    /\ LET q == createIntoQueueInternal(Current, Previous, next) IN
       become(q) /\ smartNotify(q.added, pc)
    /\ next' = next + 1
    /\ bpc' = IF next < BatchEnd THEN "files" ELSE IF FirstBatch = NumFiles THEN "finish" ELSE "wait"
    /\ UNCHANGED <<listReceived, numBlocksDequeued, initFinished, failedDirectories, failedSources, source, held,
                   acked, pending, ends>>

\* The directory of a file cannot be read: the file is passed over.  If stat
\* fails for a file of a list, the rest of the list is.
discoveryFails ==
    /\ bpc = "files" /\ next <= NumFiles
    /\ failures < MaxFailures
    /\ failures' = failures + 1
    /\ failedDirectories' = TRUE
    /\ next' = next + 1
    /\ bpc' = IF Explore /\ next < NumFiles THEN "files" ELSE "finish"
    /\ UNCHANGED <<listReceived, sharedFileData, sourceQueue, counters, numBlocksDequeued, initFinished,
                   failedSources, pc, source, held, acked, pending, size, list, breaks, checkFailed>>

\* There is nothing to start with, or the transfer is over.
stopFiles ==
    /\ bpc = "files"
    /\ next > NumFiles \/ Finished
    /\ bpc' = "finish"
    /\ UNCHANGED <<listReceived, next, sharedFileData, sourceQueue, counters, numBlocksDequeued, initFinished,
                   failedDirectories, failedSources, pc, source, held, acked, pending, ends>>

\* A thread is RUNNING from its constructor's registerThread to deRegisterThread.
numRunningThreads == Cardinality({t \in Threads : pc[t] # "ended"})
numWaiters == Cardinality({t \in Threads : pc[t] \in {"asleep", "woken"}})

\* waitForPreviousTransfer, then the generator: one more file, or no more.
waitForPreviousTransfer ==
    /\ bpc = "wait"
    /\ (sourceQueue = {} /\ numWaiters >= numRunningThreads) \/ Finished
    /\ bpc' = IF Finished \/ next > NumFiles THEN "finish" ELSE "generate"
    /\ UNCHANGED <<listReceived, next, sharedFileData, sourceQueue, counters, numBlocksDequeued, initFinished,
                   failedDirectories, failedSources, pc, source, held, acked, pending, ends>>
fileInfoGenerator ==
    /\ bpc = "generate"
    /\ bpc' = "files"
    /\ UNCHANGED <<listReceived, next, sharedFileData, sourceQueue, counters, numBlocksDequeued, initFinished,
                   failedDirectories, failedSources, pc, source, held, acked, pending, ends>>

\* Mutation of finishBuild: no one is told that there is nothing more.
finishBuildSilently ==
    /\ bpc = "finish"
    /\ bpc' = "done"
    /\ initFinished' = TRUE
    /\ LET q == enqueueFilesToBeDeleted(Current, Previous, TRUE) IN become(q) /\ smartNotify(q.added, pc)
    /\ UNCHANGED <<listReceived, next, numBlocksDequeued, failedDirectories, failedSources, source, held, acked,
                   pending, ends>>

\* The end: all who sleep are woken if there is nothing for them.
finishBuild ==
    /\ bpc = "finish"
    /\ bpc' = "done"
    /\ initFinished' = TRUE
    /\ LET q == enqueueFilesToBeDeleted(Current, Previous, TRUE) IN
       /\ become(q)
       /\ IF q.queue = {} THEN pc' = Woken(pc, Asleep(pc)) ELSE smartNotify(q.added, pc)
    /\ UNCHANGED <<listReceived, next, numBlocksDequeued, failedDirectories, failedSources, source, held, acked,
                   pending, ends>>

\* setPreviouslyReceivedChunks: the queue is made anew.  No thread waits for it
\* yet, so that the notifications reach no one.
setPreviouslyReceivedChunks ==
    /\ Resume /\ ~listReceived
    /\ listReceived' = TRUE
    /\ checkFailed' = (checkFailed \/ numBlocksDequeued # 0)
    /\ LET first == IF list = {} THEN 0 ELSE CHOOSE n \in {c.seq + 1 : c \in list} : \A c \in list : c.seq < n
           q == FoldLeft(LAMBDA x, m : createIntoQueueInternal(x, list, m.f), Emptied(first), sharedFileData) IN
       become(enqueueFilesToBeDeleted(q, list, initFinished))
    /\ UNCHANGED <<bpc, next, numBlocksDequeued, initFinished, failedDirectories, failedSources, pc, source, held,
                   acked, pending, size, list, failures, breaks>>
-----------------------------------------------------------------------------
(* The sender threads. *)

\* They start when the discovery is over if there are two phases, and wait for
\* the list if there is to be one.
Started == (TwoPhases => bpc = "done") /\ (Resume => listReceived)

\* getNextSource up to the unlock: sleep, take a source, or return nullptr.
getNextSource(t) ==
    /\ pc[t] = "woken" \/ (pc[t] = "idle" /\ Started)
    /\ IF sourceQueue = {}
         THEN pc' = [pc EXCEPT ![t] = IF initFinished THEN "null" ELSE "asleep"] /\ UNCHANGED <<sourceQueue, source>>
       ELSE LET s == Top(sourceQueue)
                last == sourceQueue = {s} /\ initFinished IN
            /\ sourceQueue' = sourceQueue \ {s}
            /\ source' = [source EXCEPT ![t] = s]
            /\ pc' = [Woken(pc, IF last THEN Asleep(pc) ELSE {}) EXCEPT ![t] = "opening"]
    /\ UNCHANGED <<listReceived, bpc, next, sharedFileData, counters, numBlocksDequeued, initFinished,
                   failedDirectories, failedSources, held, acked, pending, ends>>

\* The file is opened, and the source sent.
opened(t) ==
    /\ pc[t] = "opening"
    /\ pc' = [pc EXCEPT ![t] = "idle"]
    /\ source' = [source EXCEPT ![t] = NoSource]
    /\ held' = [held EXCEPT ![t] = @ \cup {source[t]}]
    /\ numBlocksDequeued' = numBlocksDequeued + 1
    /\ UNCHANGED <<listReceived, bpc, next, sharedFileData, sourceQueue, counters, initFinished,
                   failedDirectories, failedSources, acked, pending, ends>>

\* It cannot be opened: the source has failed, on to the next one.
openFails(t) ==
    /\ pc[t] = "opening" /\ ~source[t].del
    /\ failures < MaxFailures
    /\ failures' = failures + 1
    /\ failedSources' = failedSources \cup {source[t]}
    /\ pc' = [pc EXCEPT ![t] = "idle"]
    /\ source' = [source EXCEPT ![t] = NoSource]
    /\ UNCHANGED <<listReceived, bpc, next, sharedFileData, sourceQueue, counters, numBlocksDequeued, initFinished,
                   failedDirectories, held, acked, pending, size, list, breaks, checkFailed>>

\* The receiver acknowledges what a thread has sent.
markAllAcknowledged(t) ==
    /\ held[t] # {} /\ pc[t] \in {"idle", "null"}
    /\ acked' = acked \cup held[t]
    /\ held' = [held EXCEPT ![t] = {}]
    /\ UNCHANGED <<listReceived, bpc, next, sharedFileData, sourceQueue, counters, numBlocksDequeued, initFinished,
                   failedDirectories, failedSources, pc, source, pending, ends>>

\* Mutation of returnToQueue: what was returned also stays in the history.
returnToQueueKeeps(t, u, ok) ==
    LET back == held[u] \ ok IN
    /\ sourceQueue' = sourceQueue \cup {[s EXCEPT !.retries = @ + 1] : s \in back}
    /\ numBlocksDequeued' = numBlocksDequeued - Cardinality(back)
    /\ checkFailed' = (checkFailed \/ numBlocksDequeued < Cardinality(back))
    /\ acked' = acked \cup ok
    /\ held' = [held EXCEPT ![u] = back]
    /\ pending' = [pending EXCEPT ![t] = Cardinality(back)]
    /\ pc' = [pc EXCEPT ![t] = "notify"]

\* t hears how much of what u had sent was received, the sources ok: the others
\* go back to the queue (returnToQueue), each with one more failure.  The
\* notifications follow when the lock is released.
returnToQueue(t, u, ok) ==
    LET back == held[u] \ ok IN
    /\ sourceQueue' = sourceQueue \cup {[s EXCEPT !.retries = @ + 1] : s \in back}
    /\ numBlocksDequeued' = numBlocksDequeued - Cardinality(back)
    /\ checkFailed' = (checkFailed \/ numBlocksDequeued < Cardinality(back))
    /\ acked' = acked \cup ok
    /\ held' = [held EXCEPT ![u] = {}]
    /\ pending' = [pending EXCEPT ![t] = Cardinality(back)]
    /\ pc' = [pc EXCEPT ![t] = "notify"]

connectionBreaks(t) ==
    /\ held[t] # {} /\ pc[t] \in {"idle", "null"}
    /\ breaks < MaxBreaks
    /\ breaks' = breaks + 1
    /\ \E ok \in SUBSET held[t] : returnToQueue(t, t, ok)
    /\ UNCHANGED <<listReceived, bpc, next, sharedFileData, counters, initFinished, failedDirectories,
                   failedSources, source, size, list, failures>>

notify(t) ==
    /\ pc[t] = "notify"
    /\ smartNotify(pending[t], [pc EXCEPT ![t] = "idle"])
    /\ pending' = [pending EXCEPT ![t] = 0]
    /\ UNCHANGED <<listReceived, bpc, next, sharedFileData, sourceQueue, counters, numBlocksDequeued, initFinished,
                   failedDirectories, failedSources, source, held, acked, ends>>

\* A thread gives up; what it has sent stays in its history.
die(t) ==
    /\ pc[t] \in {"idle", "null"}
    /\ breaks < MaxBreaks
    /\ breaks' = breaks + 1
    /\ pc' = [pc EXCEPT ![t] = "ended"]
    /\ UNCHANGED <<listReceived, bpc, next, sharedFileData, sourceQueue, counters, numBlocksDequeued, initFinished,
                   failedDirectories, failedSources, source, held, acked, pending, size, list, failures,
                   checkFailed>>

\* Another thread learns of it from the receiver and returns them.
globalCheckpoint(t, u) ==
    /\ pc[t] = "null" /\ pc[u] = "ended" /\ held[u] # {}
    /\ \E ok \in SUBSET held[u] : returnToQueue(t, u, ok)
    /\ UNCHANGED <<listReceived, bpc, next, sharedFileData, counters, initFinished, failedDirectories,
                   failedSources, source, size, list, failures, breaks>>

\* The receiver tells a thread that all is done only when it has every block.
end(t) ==
    /\ pc[t] = "null"
    /\ sourceQueue = {} /\ \A u \in Threads : held[u] = {} /\ pc[u] \notin {"opening", "notify"}
    /\ pc' = [pc EXCEPT ![t] = "ended"]
    /\ UNCHANGED <<listReceived, bpc, next, sharedFileData, sourceQueue, counters, numBlocksDequeued, initFinished,
                   failedDirectories, failedSources, source, held, acked, pending, ends>>

\* Sender::finish and getFailedSourceStats: what was not acknowledged has failed.
getFailedSourceStats ==
    /\ bpc = "done" /\ Finished
    /\ failedSources' = failedSources \cup sourceQueue \cup UNION {held[t] : t \in Threads}
    /\ sourceQueue' = {}
    /\ held' = [t \in Threads |-> {}]
    /\ failedSources' # failedSources
    /\ UNCHANGED <<listReceived, bpc, next, sharedFileData, counters, numBlocksDequeued, initFinished,
                   failedDirectories, pc, source, acked, pending, ends>>
-----------------------------------------------------------------------------
discover ==
    \/ createIntoQueue \/ stopFiles \/ waitForPreviousTransfer \/ fileInfoGenerator \/ finishBuild

step(t) == getNextSource(t) \/ opened(t) \/ notify(t) \/ end(t) \/ \E u \in Threads : globalCheckpoint(t, u)

Next ==
    \/ discover \/ discoveryFails \/ setPreviouslyReceivedChunks
    \/ \E t \in Threads : step(t) \/ openFails(t) \/ markAllAcknowledged(t) \/ connectionBreaks(t) \/ die(t)
    \/ getFailedSourceStats

\* The discovery thread and the sender threads run, the list comes, and the
\* receiver acknowledges what it got.
Spec ==
    /\ Init /\ [][Next]_vars
    /\ WF_vars(discover) /\ WF_vars(setPreviouslyReceivedChunks)
    /\ \A t \in Threads : WF_vars(step(t)) /\ WF_vars(markAllAcknowledged(t))
-----------------------------------------------------------------------------
Key(s) == <<s.f, s.off, s.del>>
Holders == {sourceQueue, acked, failedSources} \cup {held[t] : t \in Threads}
             \cup {{source[t]} : t \in {u \in Threads : pc[u] = "opening"}}
Sources == UNION Holders

\* No block is lost and none is there twice, however the discovery, the list of
\* the receiver, broken connections and failing threads interleave: the number
\* of blocks that DONE announces is the number of those in the queue, on their
\* way, acknowledged or failed.
BlocksAccountedFor ==
    /\ Cardinality({Key(s) : s \in Sources}) = numBlocks
    /\ Cardinality(sourceQueue) + Cardinality(acked) + Cardinality(failedSources)
         + Cardinality({t \in Threads : pc[t] = "opening"})
         + Cardinality(UNION {{<<t, s>> : s \in held[t]} : t \in Threads}) = numBlocks

\* The blocks of a file are what the receiver lacks of it, each byte once; and
\* their sizes add up to the size that the sender announces.
BlocksCoverMissing ==
    /\ \A i \in DOMAIN sharedFileData : LET m == sharedFileData[i] IN m.status # "TO_BE_DELETED" =>
          LET blocks == {s \in Sources : s.f = m.f}
              c == {x \in Previous : x.f = m.f /\ x.size <= size[m.f]}
              have == UNION {Bytes(x.chunks) : x \in c} IN
          /\ UNION {s.off..(s.off + s.len - 1) : s \in blocks} = 0..(size[m.f] - 1) \ have
          /\ \A r, s \in blocks : r # s => r.off + r.len <= s.off \/ s.off + s.len <= r.off
    /\ totalFileSize = FoldLeft(LAMBDA n, s : n + s.len, 0, SetToSeq(Sources))

\* Two files never share a sequence id: neither two files of this transfer, nor
\* a new one and one that the receiver still has under that id.
SeqIdsUnique ==
    LET live == {i \in DOMAIN sharedFileData : sharedFileData[i].status # "COMPLETE"} IN
    /\ \A i, j \in live : sharedFileData[i].seq = sharedFileData[j].seq => i = j
    /\ \A i \in live : \A c \in Previous :
          c.seq = sharedFileData[i].seq => c.f = sharedFileData[i].f /\ ~IsNew(sharedFileData[i])

\* No wake-up is lost: while a thread sleeps, there is for every source in the
\* queue a notification that was received or is still to be given.
NoWorkForSleepers ==
    Asleep(pc) # {} =>
        Cardinality(sourceQueue) <= Cardinality({t \in Threads : pc[t] = "woken"})
            + FoldFunctionOnSet(LAMBDA n, m : n + m, 0, pending, Threads)

\* The WDT_CHECKs on numBlocksDequeued_ hold.
ChecksHold == ~checkFailed

\* Who calls getNextSource gets a source or nullptr, also who sleeps.
EveryCallReturns == \A t \in Threads : pc[t] = "asleep" ~> pc[t] \in {"opening", "null"}

\* "If true, extra files on the receiver side is deleted": only files that the
\* sender does not have.
OnlyExtraFilesDeleted == \A s \in Sources : s.del => s.f = Extra

\* "Queue is empty and all client threads are waiting": when the generator is
\* called, nothing of the previous batches is in the queue or is being read by a
\* thread, whatever was returned to the queue or broke off in the meantime.
BatchIsHandedOver ==
    bpc = "generate" =>
       sourceQueue = {} /\ \A t \in Threads : pc[t] \in {"asleep", "woken", "ended"}

\* "First valid seq is 1": no file that is sent has sequence id 0.
SeqIdsValid == \A i \in DOMAIN sharedFileData : sharedFileData[i].status # "COMPLETE" => sharedFileData[i].seq >= 1

\* The discovery ends, and so the sending begins or goes on ("First phase is
\* discovery phase and the second one is sending the files over wire").
DiscoveryEnds == <>(bpc = "done")
=============================================================================
