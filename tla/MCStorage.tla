----------------------------- MODULE MCStorage ------------------------------
(***************************************************************************)
(* What a receiver does with a stream and its disk: commands are framed,   *)
(* files are created, blocks are written, and what was received is logged  *)
(* and found again after a crash.  Every behaviour is one of a part, in    *)
(* one instance of it; the variables of the other parts are not used.      *)
(***************************************************************************)
EXTENDS Naturals

VARIABLES part,
          script, sent, conn, taken, buf, off, oldOffset, numRead, call, next, written, remaining,
          pc,
          fileStatusMap, allocationMutex, waiting, createdDirs, dirs, exists, data,
          allocationStatus, kept, threadPc, blk, walk, logged, toWrite, done, failures, removals,
          rounds,
          offset, dataSize, isOpen, seek, file, size, count, totalWritten, writtenSinceLastSync,
          nextSyncOffset, ranges, onDisk, claimed, writerPc, faults,
          log, synced, entries, unwritten, writer, fd, resumptionStatus, headerWritten, senderIp,
          checkFailed, phase, config, resumes, blockMode, src, peer, disk, safe, fresh, claims,
          plan, todo, unlogged, opened, bad, sessions

framingVars == <<script, sent, conn, taken, buf, off, oldOffset, numRead, call, next, written,
                 remaining, pc>>
creatorVars == <<fileStatusMap, allocationMutex, waiting, createdDirs, dirs, exists, data,
                 allocationStatus, kept, threadPc, blk, walk, logged, toWrite, done, failures,
                 removals, rounds>>
writerVars == <<offset, dataSize, isOpen, seek, file, size, count, totalWritten,
                writtenSinceLastSync, nextSyncOffset, ranges, onDisk, claimed, writerPc, faults>>
resumptionVars == <<log, synced, entries, unwritten, writer, fd, resumptionStatus, headerWritten,
                    senderIp, checkFailed, phase, config, resumes, blockMode, src, peer, disk,
                    safe, fresh, claims, plan, todo, unlogged, opened, bad, sessions>>
storageVars == <<part, framingVars, creatorVars, writerVars, resumptionVars>>

\* Framing: blocks of every size around that of the buffer; headers that are
\* longer than what a command is read with; broken connections; and, for
\* liveness, one small block or two.
Frames == INSTANCE Framing WITH
    BufSize <- 12, MinBufLength <- 3, MaxHeader <- 5, SettingsLens <- {3}, SizeLen <- 2,
    HeaderLens <- {2, 3}, DataSizes <- {0, 1, 9}, FooterLen <- 2, Footers <- FALSE,
    SendChunks <- FALSE, Blocks <- 2, MaxBreaks <- 0
LongHeaders == INSTANCE Framing WITH
    BufSize <- 20, MinBufLength <- 3, MaxHeader <- 5, SettingsLens <- {2}, SizeLen <- 2,
    HeaderLens <- {2, 5}, DataSizes <- {0, 5}, FooterLen <- 2, Footers <- TRUE,
    SendChunks <- FALSE, Blocks <- 2, MaxBreaks <- 0
BrokenFrames == INSTANCE Framing WITH
    BufSize <- 10, MinBufLength <- 3, MaxHeader <- 5, SettingsLens <- {2}, SizeLen <- 2,
    HeaderLens <- {3}, DataSizes <- {0, 5}, FooterLen <- 2, Footers <- TRUE,
    SendChunks <- TRUE, Blocks <- 2, MaxBreaks <- 1
ShortFrames == INSTANCE Framing WITH
    BufSize <- 8, MinBufLength <- 3, MaxHeader <- 5, SettingsLens <- {2}, SizeLen <- 2,
    HeaderLens <- {3}, DataSizes <- {0, 3}, FooterLen <- 2, Footers <- TRUE,
    SendChunks <- FALSE, Blocks <- 2, MaxBreaks <- 1

\* FileCreator: one file of three blocks in two sessions, whatever was there;
\* three threads; directories, one of which is removed by somebody else; and, for liveness, a
\* call that fails.
Creator == INSTANCE FileCreator WITH
    pc <- threadPc, todo <- toWrite, sessions <- rounds,
    Threads <- {"s", "t"}, Files <- {1}, NumBlocks <- 3,
    Statuses <- {"NOT_EXISTS", "EXISTS_CORRECT_SIZE", "EXISTS_TOO_SMALL", "EXISTS_TOO_LARGE",
                 "TO_BE_DELETED"},
    Prealloc <- FALSE, Overwrite <- TRUE, MaxFailures <- 1, MaxRemovals <- 0, MaxSessions <- 2
Crowd == INSTANCE FileCreator WITH
    pc <- threadPc, todo <- toWrite, sessions <- rounds,
    Threads <- {"s", "t", "u"}, Files <- {1}, NumBlocks <- 3,
    Statuses <- {"NOT_EXISTS", "EXISTS_CORRECT_SIZE", "EXISTS_TOO_SMALL", "EXISTS_TOO_LARGE",
                 "TO_BE_DELETED"},
    Prealloc <- FALSE, Overwrite <- TRUE, MaxFailures <- 0, MaxRemovals <- 0, MaxSessions <- 1
Directories == INSTANCE FileCreator WITH
    pc <- threadPc, todo <- toWrite, sessions <- rounds,
    Threads <- {"s", "t"}, Files <- {1, 2}, NumBlocks <- 2, Statuses <- {"NOT_EXISTS"},
    Prealloc <- TRUE, Overwrite <- TRUE, MaxFailures <- 0, MaxRemovals <- 1, MaxSessions <- 1
Opens == INSTANCE FileCreator WITH
    pc <- threadPc, todo <- toWrite, sessions <- rounds,
    Threads <- {"s", "t"}, Files <- {0, 1}, NumBlocks <- 2, Statuses <- {"EXISTS_TOO_SMALL"},
    Prealloc <- TRUE, Overwrite <- TRUE, MaxFailures <- 1, MaxRemovals <- 0, MaxSessions <- 1

\* FileWriter: blocks of none, one and several buffers, calls that are short,
\* interrupted or fail.
Writer == INSTANCE FileWriter WITH
    pc <- writerPc,
    Offsets <- {0, 3}, DataSizes <- {0, 1, 6, 9}, BufSize <- 4, Sync <- TRUE, SyncInterval <- 2,
    SyncsRanges <- TRUE, Fadvise <- TRUE, PlainBlocks <- TRUE, MaxFileSize <- 13,
    MaxFaults <- 3

\* Resumption: every set of options; sources that grow and a machine that
\* crashes; preallocated files of any change; two files; three sessions, in which
\* one continues what the last one repaired, also with files that only shrink;
\* writes to the log that fail, with files that shrink or grow; and, for liveness,
\* a small log.
AllOptions == INSTANCE Resumption WITH
    taken <- unwritten, written <- unlogged,
    NumFiles <- 1, MaxSize <- 2, BlockSize <- 1, Configs <- {"plain", "prealloc", "tree"},
    BlockModes <- {TRUE, FALSE}, Ips <- {"a", "b"}, Resumes <- {TRUE, FALSE}, Changes <- "none",
    Deletes <- FALSE, MachineCrash <- FALSE, Compaction <- TRUE, KeepLog <- TRUE, LogFaults <- FALSE,
    MaxSessions <- 2
Growing == INSTANCE Resumption WITH
    taken <- unwritten, written <- unlogged,
    NumFiles <- 1, MaxSize <- 2, BlockSize <- 1, Configs <- {"plain"}, BlockModes <- {TRUE},
    Ips <- {"a"}, Resumes <- {TRUE}, Changes <- "grow", Deletes <- FALSE, MachineCrash <- TRUE,
    Compaction <- FALSE, KeepLog <- TRUE, LogFaults <- FALSE,
    MaxSessions <- 3
Preallocated == INSTANCE Resumption WITH
    taken <- unwritten, written <- unlogged,
    NumFiles <- 1, MaxSize <- 2, BlockSize <- 1, Configs <- {"prealloc"}, BlockModes <- {TRUE},
    Ips <- {"a"}, Resumes <- {TRUE}, Changes <- "any", Deletes <- TRUE, MachineCrash <- TRUE,
    Compaction <- FALSE, KeepLog <- TRUE, LogFaults <- FALSE,
    MaxSessions <- 2
TwoFiles == INSTANCE Resumption WITH
    taken <- unwritten, written <- unlogged,
    NumFiles <- 2, MaxSize <- 1, BlockSize <- 1, Configs <- {"prealloc"}, BlockModes <- {TRUE},
    Ips <- {"a"}, Resumes <- {TRUE}, Changes <- "shrink", Deletes <- TRUE, MachineCrash <- FALSE,
    Compaction <- TRUE, KeepLog <- TRUE, LogFaults <- FALSE,
    MaxSessions <- 2
ThreeSessions == INSTANCE Resumption WITH
    taken <- unwritten, written <- unlogged,
    NumFiles <- 1, MaxSize <- 1, BlockSize <- 1, Configs <- {"prealloc"},
    BlockModes <- {TRUE}, Ips <- {"a"}, Resumes <- {TRUE}, Changes <- "any", Deletes <- TRUE,
    MachineCrash <- FALSE, Compaction <- TRUE, KeepLog <- TRUE, LogFaults <- FALSE,
    MaxSessions <- 3
Shrinking == INSTANCE Resumption WITH
    taken <- unwritten, written <- unlogged,
    NumFiles <- 1, MaxSize <- 2, BlockSize <- 1, Configs <- {"prealloc"},
    BlockModes <- {TRUE}, Ips <- {"a"}, Resumes <- {TRUE}, Changes <- "shrink", Deletes <- TRUE,
    MachineCrash <- FALSE, Compaction <- TRUE, KeepLog <- TRUE, LogFaults <- FALSE,
    MaxSessions <- 3
FailingLog == INSTANCE Resumption WITH
    taken <- unwritten, written <- unlogged,
    NumFiles <- 1, MaxSize <- 1, BlockSize <- 1, Configs <- {"prealloc"}, BlockModes <- {TRUE},
    Ips <- {"a", "b"}, Resumes <- {TRUE, FALSE}, Changes <- "shrink", Deletes <- TRUE,
    MachineCrash <- FALSE, Compaction <- FALSE, KeepLog <- TRUE, LogFaults <- TRUE,
    MaxSessions <- 3
FailingGrowth == INSTANCE Resumption WITH
    taken <- unwritten, written <- unlogged,
    NumFiles <- 1, MaxSize <- 2, BlockSize <- 1, Configs <- {"prealloc"}, BlockModes <- {TRUE},
    Ips <- {"a"}, Resumes <- {TRUE}, Changes <- "grow", Deletes <- FALSE,
    MachineCrash <- FALSE, Compaction <- FALSE, KeepLog <- TRUE, LogFaults <- TRUE,
    MaxSessions <- 3
SmallLog == INSTANCE Resumption WITH
    taken <- unwritten, written <- unlogged,
    NumFiles <- 1, MaxSize <- 2, BlockSize <- 1, Configs <- {"plain"}, BlockModes <- {TRUE},
    Ips <- {"a"}, Resumes <- {TRUE}, Changes <- "none", Deletes <- FALSE, MachineCrash <- FALSE,
    Compaction <- FALSE, KeepLog <- TRUE, LogFaults <- FALSE,
    MaxSessions <- 2

ASSUME /\ Frames!FramingAssumption /\ LongHeaders!FramingAssumption
       /\ BrokenFrames!FramingAssumption /\ ShortFrames!FramingAssumption
       /\ Creator!FileCreatorAssumption /\ Directories!FileCreatorAssumption
       /\ Opens!FileCreatorAssumption /\ Crowd!FileCreatorAssumption
       /\ Writer!WriterAssumption
       /\ AllOptions!ResumptionAssumption /\ TwoFiles!ResumptionAssumption

\* The value of a variable that the part does not have.
Unused == "unused"

NoFrames == /\ script = Unused /\ sent = Unused /\ conn = Unused /\ taken = Unused
            /\ buf = Unused /\ off = Unused /\ oldOffset = Unused /\ numRead = Unused
            /\ call = Unused /\ next = Unused /\ written = Unused /\ remaining = Unused
            /\ pc = Unused
NoCreator == /\ fileStatusMap = Unused /\ allocationMutex = Unused /\ waiting = Unused
             /\ createdDirs = Unused /\ dirs = Unused /\ exists = Unused /\ data = Unused
             /\ allocationStatus = Unused /\ kept = Unused /\ blk = Unused /\ walk = Unused
             /\ threadPc = [t \in {"s", "t"} |-> Unused]
             /\ logged = Unused /\ toWrite = Unused /\ done = Unused /\ failures = Unused
             /\ removals = Unused /\ rounds = Unused
NoWriter == /\ offset = Unused /\ dataSize = Unused /\ isOpen = Unused /\ seek = Unused
            /\ file = Unused /\ size = Unused /\ count = Unused /\ totalWritten = Unused
            /\ writtenSinceLastSync = Unused /\ nextSyncOffset = Unused /\ ranges = Unused
            /\ onDisk = Unused /\ claimed = Unused /\ writerPc = Unused /\ faults = Unused
NoLog == /\ log = Unused /\ synced = Unused /\ entries = <<>> /\ unwritten = Unused
         /\ writer = Unused /\ fd = Unused /\ resumptionStatus = Unused
         /\ headerWritten = Unused /\ senderIp = Unused /\ checkFailed = Unused
         /\ phase = Unused /\ config = Unused /\ resumes = Unused /\ blockMode = Unused
         /\ src = Unused /\ peer = Unused /\ disk = Unused /\ safe = Unused /\ fresh = Unused
         /\ claims = Unused /\ plan = Unused /\ todo = Unused /\ unlogged = Unused
         /\ opened = Unused /\ bad = Unused /\ sessions = Unused

StorageInit ==
    \/ /\ \/ part = "frames" /\ Frames!Init
          \/ part = "long headers" /\ LongHeaders!Init
          \/ part = "broken frames" /\ BrokenFrames!Init
          \/ part = "short frames" /\ ShortFrames!Init
       /\ NoCreator /\ NoWriter /\ NoLog
    \/ /\ \/ part = "creator" /\ Creator!Init
          \/ part = "directories" /\ Directories!Init
          \/ part = "opens" /\ Opens!Init
          \/ part = "crowd" /\ Crowd!Init
       /\ NoFrames /\ NoWriter /\ NoLog
    \/ /\ part = "writer" /\ Writer!Init
       /\ NoFrames /\ NoCreator /\ NoLog
    \/ /\ \/ part = "options" /\ AllOptions!Init
          \/ part = "growing" /\ Growing!Init
          \/ part = "preallocated" /\ Preallocated!Init
          \/ part = "two files" /\ TwoFiles!Init
          \/ part = "three sessions" /\ ThreeSessions!Init
          \/ part = "shrinking" /\ Shrinking!Init
          \/ part = "failing log" /\ FailingLog!Init
          \/ part = "failing growth" /\ FailingGrowth!Init
          \/ part = "small log" /\ SmallLog!Init
       /\ NoFrames /\ NoCreator /\ NoWriter

StorageNext ==
    /\ \/ /\ \/ part = "frames" /\ Frames!Next
             \/ part = "long headers" /\ LongHeaders!Next
             \/ part = "broken frames" /\ BrokenFrames!Next
             \/ part = "short frames" /\ ShortFrames!Next
          /\ UNCHANGED <<creatorVars, writerVars, resumptionVars>>
       \/ /\ \/ part = "creator" /\ Creator!Next
             \/ part = "directories" /\ Directories!Next
             \/ part = "opens" /\ Opens!Next
             \/ part = "crowd" /\ Crowd!Next
          /\ UNCHANGED <<framingVars, writerVars, resumptionVars>>
       \/ /\ part = "writer" /\ Writer!Next
          /\ UNCHANGED <<framingVars, creatorVars, resumptionVars>>
       \/ /\ \/ part = "options" /\ AllOptions!Next
             \/ part = "growing" /\ Growing!Next
             \/ part = "preallocated" /\ Preallocated!Next
             \/ part = "two files" /\ TwoFiles!Next
             \/ part = "three sessions" /\ ThreeSessions!Next
             \/ part = "shrinking" /\ Shrinking!Next
             \/ part = "failing log" /\ FailingLog!Next
             \/ part = "failing growth" /\ FailingGrowth!Next
             \/ part = "small log" /\ SmallLog!Next
          /\ UNCHANGED <<framingVars, creatorVars, writerVars>>
    /\ UNCHANGED part

\* The fairness of Framing, FileCreator and Resumption, in the instances small
\* enough for liveness.
StorageSpec ==
    /\ StorageInit /\ [][StorageNext]_storageVars
    /\ WF_framingVars(part = "short frames" /\ ShortFrames!send)
    /\ WF_framingVars(part = "short frames" /\ ShortFrames!receive)
    /\ \A t \in {"s", "t"} : SF_creatorVars(part = "opens" /\ Opens!step(t))
    /\ WF_resumptionVars(part = "small log" /\ SmallLog!writeLog)
-----------------------------------------------------------------------------
\* The receiver stays in step with the stream: whatever the pieces in which the
\* bytes arrive, the bytes it decodes as a command are those of the next
\* command, the data it writes are those of the block, and DONE is found alone;
\* no byte is placed behind the end of the buffer, and the WDT_CHECK that there
\* is room for what must be read holds (ReceiverThread::readAtLeast,
\* processFileCmd).
InSync ==
    CASE part = "frames" -> Frames!InSync /\ Frames!ReadsFit /\ Frames!ChecksHold
      [] part = "long headers" -> LongHeaders!ReadsFit
      [] part = "broken frames" -> /\ BrokenFrames!InSync /\ BrokenFrames!ReadsFit
                                   /\ BrokenFrames!ChecksHold
      [] OTHER -> TRUE

\* What was received stays: no thread creates or cuts a file once another has
\* written a block of it, and the blocks of an earlier session that the sender
\* relies on are never cut (FileCreator::openForBlocks); a directory that
\* vanishes once does not make a file fail, whatever is in the cache of
\* directories (FileCreator::createFile).
BlocksStay ==
    CASE part = "creator" -> Creator!BlocksStay
      [] part = "crowd" -> Crowd!BlocksStay
      [] part = "directories" -> Directories!BlocksStay /\ Directories!RemovalIsSurvived
      [] OTHER -> TRUE

\* What is accepted or, after a failure, claimed in the checkpoint is in the
\* file at its place, whatever calls were short, interrupted or failed, and
\* nothing outside of the block is written; an accepted block was fsynced as a
\* whole, every byte of it handed to sync_file_range (FileWriter::write,
\* syncFileRange, sync, ReceiverThread::checkpoint_).
ClaimIsStored == part = "writer" => Writer!ClaimIsStored

\* Every byte that the parsed log says was received is in the file: the sender
\* will not send it again (TransferLogManager::parseAndMatch).
ClaimsAreOnDisk ==
    CASE part = "growing" -> Growing!ClaimsAreOnDisk
      [] part = "preallocated" -> Preallocated!ClaimsAreOnDisk
      [] part = "two files" -> TwoFiles!ClaimsAreOnDisk
      [] part = "three sessions" -> ThreeSessions!ClaimsAreOnDisk
      [] part = "shrinking" -> Shrinking!ClaimsAreOnDisk
      [] part = "failing log" -> FailingLog!ClaimsAreOnDisk
      [] part = "failing growth" -> FailingGrowth!ClaimsAreOnDisk
      [] OTHER -> TRUE

\* A transfer that succeeds leaves every file of the sender whole, whatever the
\* earlier sessions left and however they ended.
SuccessIsComplete ==
    CASE part = "options" -> AllOptions!SuccessIsComplete
      [] part = "growing" -> Growing!SuccessIsComplete
      [] part = "preallocated" -> Preallocated!SuccessIsComplete
      [] part = "two files" -> TwoFiles!SuccessIsComplete
      [] part = "three sessions" -> ThreeSessions!SuccessIsComplete
      [] part = "shrinking" -> Shrinking!SuccessIsComplete
      [] part = "failing log" -> FailingLog!SuccessIsComplete
      [] part = "failing growth" -> FailingGrowth!SuccessIsComplete
      [] OTHER -> TRUE


\* The receiver goes on: every open ends, since a thread that waits for the
\* allocation of another is woken, also if the allocation failed
\* (waitForAllocationFinish); it is never left waiting for kMinBufLength bytes
\* that are not sent, so that a connection that stays up is received up to DONE;
\* and the buffer of entries for the log is emptied again and again, as long as
\* the writes succeed; the first that fails ends the writer thread
\* (threadProcWriteEntriesToDisk).
ReceiverGoesOn ==
    /\ part = "opens" => Opens!EveryOpenReturns
    /\ part = "short frames" => ShortFrames!DoneIsReceived
    /\ part = "small log" => SmallLog!EntriesReachTheLog
=============================================================================
