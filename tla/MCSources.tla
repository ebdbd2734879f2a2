----------------------------- MODULE MCSources -----------------------------
(***************************************************************************)
(* Where the sender's bytes come from: the walk of the directory, the      *)
(* queue of blocks and the reading of a block.  Every behaviour is one of  *)
(* a part, in one instance of it; the other parts stay as they start.      *)
(***************************************************************************)
EXTENDS FileByteSource

VARIABLES part,
          tree, todo, reading, unread, visited, queued, unreadable, walkFailed, aborted, walkPc,
          walkFaults,
          fileSize, list, listReceived, bpc, next, sharedFileData, sourceQueue, nextSeqId,
          numEntries, numBlocks, totalFileSize, numBlocksDequeued, initFinished,
          failedDirectories, failedSources, threadPc, source, held, acked, pending, failures,
          breaks, checkFailed

walkVars == <<tree, todo, reading, unread, visited, queued, unreadable, walkFailed, aborted,
              walkPc, walkFaults>>
queueVars == <<fileSize, list, listReceived, bpc, next, sharedFileData, sourceQueue, nextSeqId,
               numEntries, numBlocks, totalFileSize, numBlocksDequeued, initFinished,
               failedDirectories, failedSources, threadPc, source, held, acked, pending,
               failures, breaks, checkFailed>>
sourcesVars == <<part, vars, walkVars, queueVars>>

\* The reading: besides the instance of the configuration, with direct reads, one
\* in which the file is truncated and one with a descriptor of the caller.
Shrinking == INSTANCE FileByteSource WITH FileSize <- 8, MayShrink <- TRUE
Shared == INSTANCE FileByteSource WITH
    FileSize <- 8, MayShrink <- TRUE, DirectReads <- FALSE, SharedFd <- TRUE

\* The walk: every tree of two levels with links, files, devices and links that
\* lead nowhere; and trees of which calls fail, entries are left out and the
\* transfer is aborted.
Links == INSTANCE Explore WITH
    Names <- {"x", "y"}, Depth <- 2, Trees <- "all", FollowSymlinks <- TRUE,
    KnowsTypes <- FALSE, Included <- {}, Excluded <- {}, Pruned <- {}, MayAbort <- FALSE,
    MaxFaults <- 0, failedDirectories <- unreadable, hasError <- walkFailed, pc <- walkPc,
    faults <- walkFaults
Patterns == INSTANCE Explore WITH
    Names <- {"x", "y"}, Depth <- 2, Trees <- "links", FollowSymlinks <- FALSE,
    KnowsTypes <- TRUE, Included <- {"x"}, Excluded <- {}, Pruned <- {"y"}, MayAbort <- TRUE,
    MaxFaults <- 1, failedDirectories <- unreadable, hasError <- walkFailed, pc <- walkPc,
    faults <- walkFaults

\* The queue: of two threads, whose connections break; of three; with the list of
\* the receiver; and with files that a generator gives in batches.
Queue == INSTANCE SourceQueue WITH
    Threads <- {"t", "u"}, NumFiles <- 2, Sizes <- {3}, BlockSize <- 2, FirstBatch <- 2,
    Explore <- TRUE, Resume <- FALSE, DeleteFiles <- FALSE, TwoPhases <- FALSE,
    MaxFailures <- 1, MaxBreaks <- 1, size <- fileSize, pc <- threadPc
Crowd == INSTANCE SourceQueue WITH
    Threads <- {"t", "u", "v"}, NumFiles <- 2, Sizes <- {3}, BlockSize <- 2, FirstBatch <- 2,
    Explore <- TRUE, Resume <- FALSE, DeleteFiles <- FALSE, TwoPhases <- FALSE,
    MaxFailures <- 1, MaxBreaks <- 0, size <- fileSize, pc <- threadPc
Resumed == INSTANCE SourceQueue WITH
    Threads <- {"t", "u"}, NumFiles <- 2, Sizes <- {3}, BlockSize <- 2, FirstBatch <- 2,
    Explore <- TRUE, Resume <- TRUE, DeleteFiles <- TRUE, TwoPhases <- FALSE,
    MaxFailures <- 0, MaxBreaks <- 0, size <- fileSize, pc <- threadPc
Batches == INSTANCE SourceQueue WITH
    Threads <- {"t", "u"}, NumFiles <- 2, Sizes <- {2}, BlockSize <- 2, FirstBatch <- 1,
    Explore <- FALSE, Resume <- FALSE, DeleteFiles <- FALSE, TwoPhases <- FALSE,
    MaxFailures <- 1, MaxBreaks <- 2, size <- fileSize, pc <- threadPc

ASSUME /\ Queue!SourceQueueAssumption /\ Crowd!SourceQueueAssumption
       /\ Resumed!SourceQueueAssumption /\ Batches!SourceQueueAssumption

SourcesInit ==
    /\ part \in {"direct", "shrinking", "shared", "links", "patterns", "queue", "crowd",
                 "resumed", "batches"}
    /\ CASE part = "links" -> Links!Init
         [] part = "patterns" -> Patterns!Init
         [] OTHER -> tree = [p \in Links!RealPaths |-> Links!Nothing] /\ Links!Init
    /\ CASE part = "shrinking" -> Shrinking!Init
         [] part = "shared" -> Shared!Init
         [] OTHER -> Init /\ (part # "direct" => end = 0)
    /\ CASE part = "crowd" -> Crowd!Init
         [] part = "resumed" -> Resumed!Init
         [] part = "batches" -> Batches!Init
         [] OTHER -> Queue!Init

SourcesNext ==
    /\ \/ /\ \/ part = "direct" /\ Next
             \/ part = "shrinking" /\ Shrinking!Next
             \/ part = "shared" /\ Shared!Next
          /\ UNCHANGED <<walkVars, queueVars>>
       \/ /\ \/ part = "links" /\ Links!Next
             \/ part = "patterns" /\ Patterns!Next
          /\ UNCHANGED <<vars, queueVars>>
       \/ /\ \/ part = "queue" /\ Queue!Next
             \/ part = "crowd" /\ Crowd!Next
             \/ part = "resumed" /\ Resumed!Next
             \/ part = "batches" /\ Batches!Next
          /\ UNCHANGED <<vars, walkVars>>
    /\ UNCHANGED part

\* The fairness of SourceQueue, in the instance small enough for liveness.
SourcesSpec ==
    /\ SourcesInit /\ [][SourcesNext]_sourcesVars
    /\ WF_queueVars(part = "batches" /\ Batches!discover)
    /\ \A t \in {"t", "u"} : /\ WF_queueVars(part = "batches" /\ Batches!step(t))
                             /\ WF_queueVars(part = "batches" /\ Batches!markAllAcknowledged(t))
-----------------------------------------------------------------------------
\* When explore returns true and was not aborted it has queued every file that a
\* path leads to, through links that are followed, cycles and failing calls
\* included, and no other; and links cannot make it go on for ever, since no
\* directory is queued under a path that passes through a link twice
\* (DirectorySourceQueue::explore).
CompleteOrError ==
    CASE part = "links" -> Links!CompleteOrError /\ Links!PathsBounded
      [] part = "patterns" -> Patterns!CompleteOrError
      [] OTHER -> TRUE

\* The number of blocks that DONE announces is the number of those in the queue,
\* on their way, acknowledged or failed, whatever the discovery, the list of the
\* receiver, failing opens and broken connections do, and the WDT_CHECKs on
\* numBlocksDequeued_ hold (getNextSource, returnToQueue,
\* setPreviouslyReceivedChunks).
BlocksAccountedFor ==
    CASE part = "queue" -> Queue!BlocksAccountedFor /\ ~checkFailed
      [] part = "crowd" -> Crowd!BlocksAccountedFor /\ ~checkFailed
      [] part = "resumed" -> Resumed!BlocksAccountedFor /\ ~checkFailed
      [] part = "batches" -> Batches!BlocksAccountedFor /\ ~checkFailed
      [] OTHER -> TRUE

\* No wake-up is lost: while a thread sleeps in getNextSource every source in
\* the queue has a notification that was received or is still to come
\* (smartNotify); and the generator is asked for more files only when no thread
\* is still opening one that came before (fileInfoGenerator_).
NoWorkForSleepers ==
    CASE part = "queue" -> Queue!NoWorkForSleepers
      [] part = "crowd" -> Crowd!NoWorkForSleepers
      [] part = "batches" -> Batches!BatchIsHandedOver
      [] OTHER -> TRUE

\* With the list of the receiver, whenever it comes, the blocks of a file are
\* what the receiver lacks, each byte once; a new file never gets the sequence
\* id of another one, nor of one that the receiver still has; and only files
\* that the sender does not have are told to be deleted
\* (createIntoQueueInternal, setPreviouslyReceivedChunks,
\* enqueueFilesToBeDeleted).
BlocksCoverMissing ==
    part = "resumed" =>
      Resumed!BlocksCoverMissing /\ Resumed!SeqIdsUnique /\ Resumed!OnlyExtraFilesDeleted

\* A thread asleep in getNextSource gets a source or nullptr, and the discovery
\* ends: the generator is asked for all its files (buildQueueSynchronously).
EveryTakerServed ==
    part = "batches" => Batches!EveryCallReturns /\ Batches!DiscoveryEnds
=============================================================================
