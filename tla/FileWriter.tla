----------------------------- MODULE FileWriter -----------------------------
(***************************************************************************)
(* The receiver writes a block: FileWriter seeks to the block's offset and *)
(* writes what arrives, in as many system calls as it takes, and asks the  *)
(* kernel for write-back of the ranges written; the receiver thread syncs  *)
(* and closes the file before it accepts the block.  The bytes of the      *)
(* block are numbered from 0; the file holds such numbers.                 *)
(***************************************************************************)
EXTENDS Integers

CONSTANTS
    Offsets,       \* offsets of the block in the file
    DataSizes,     \* sizes of the block
    BufSize,       \* most bytes that arrive at once
    Sync,          \* fsync, or resumption with a log
    SyncInterval,  \* bytes of disk_sync_interval_mb
    SyncsRanges,   \* disk_sync_interval_mb is not negative
    Fadvise,       \* not skip_fadvise
    PlainBlocks,   \* no checksum and no tag: a partial block counts
    MaxFileSize,   \* bound on the bytes of the file, beyond the blocks or at their end
    MaxFaults      \* bound on failing and interrupted calls

WriterAssumption ==
    /\ Offsets \subseteq Nat /\ DataSizes \subseteq Nat
    /\ BufSize \in Nat /\ SyncInterval \in Nat /\ MaxFileSize \in Nat
    /\ \A o \in Offsets, n \in DataSizes : o + n <= MaxFileSize

VARIABLES
    offset, dataSize,        \* blockDetails_
    isOpen, seek,            \* fd_ is open; the file offset
    file,                    \* what the file holds at each position, -1 for nothing
    size, count,             \* the buffer that is written, and how much of it
    totalWritten, writtenSinceLastSync, nextSyncOffset,
    ranges,                  \* positions passed to sync_file_range
    onDisk,                  \* positions an fsync has covered
    claimed,                 \* bytes of the block in the checkpoint, -1 for all
    pc, faults

blockVars == <<offset, dataSize>>
syncVars == <<writtenSinceLastSync, nextSyncOffset, ranges>>
vars == <<blockVars, isOpen, seek, file, size, count, totalWritten, syncVars, onDisk, claimed, pc, faults>>

Positions == 0..(MaxFileSize - 1)
Nothing == -1
Whole == -1

Init ==
    /\ offset \in Offsets /\ dataSize \in DataSizes
    /\ isOpen = FALSE /\ seek = 0
    /\ file = [p \in Positions |-> Nothing]
    /\ size = 0 /\ count = 0
    /\ totalWritten = 0 /\ writtenSinceLastSync = 0 /\ nextSyncOffset = offset
    /\ ranges = {} /\ onDisk = {}
    /\ claimed = 0 /\ pc = "open" /\ faults = 0
-----------------------------------------------------------------------------
fails == faults < MaxFaults /\ faults' = faults + 1

\* Whatever ends the block early lets the checkpoint say how much of it was written.
giveUp ==
    /\ claimed' = IF PlainBlocks THEN totalWritten ELSE 0
    /\ isOpen' = FALSE
    /\ pc' = "failed"

\* open: the file creator's descriptor, and a seek unless the block starts the file.
open ==
    /\ pc = "open"
    /\ \/ /\ isOpen' = TRUE /\ seek' = offset
          /\ pc' = "receive" /\ UNCHANGED <<claimed, faults>>
       \/ fails /\ giveUp /\ UNCHANGED seek
    /\ UNCHANGED <<blockVars, file, size, count, totalWritten, syncVars, onDisk>>

\* Bytes arrive and are handed to write; or the connection breaks.
receive ==
    /\ pc = "receive" /\ totalWritten < dataSize
    /\ \/ /\ \E n \in 1..BufSize : n <= dataSize - totalWritten /\ size' = n
          /\ count' = 0
          /\ pc' = "write" /\ UNCHANGED faults
       \/ fails /\ pc' = "sync" /\ UNCHANGED <<size, count>>
    /\ UNCHANGED <<blockVars, isOpen, seek, file, totalWritten, syncVars, onDisk, claimed>>

\* Mutation of writeBytes: an interrupted write starts over with the buffer.
writeBytesAgain(n) ==
    /\ file' = [p \in Positions |-> IF p \in seek..(seek + n - 1)
                                    THEN totalWritten + p - seek ELSE file[p]]
    /\ seek' = seek + n
    /\ count' = count + n

\* ::write writes n bytes of the buffer, from its count-th on.
writeBytes(n) ==
    /\ file' = [p \in Positions |-> IF p \in seek..(seek + n - 1)
                                    THEN totalWritten + count + p - seek ELSE file[p]]
    /\ seek' = seek + n
    /\ count' = count + n

\* A turn of write's loop: some bytes are written, the call is interrupted, or fails.
write ==
    /\ pc = "write" /\ count < size
    /\ \/ /\ \E n \in 1..(size - count) : writeBytes(n)
          /\ UNCHANGED <<isOpen, claimed, pc, faults>>
       \/ fails /\ UNCHANGED <<isOpen, seek, file, count, claimed, pc>>
       \/ fails /\ giveUp /\ UNCHANGED <<seek, file, count>>
    /\ UNCHANGED <<blockVars, size, totalWritten, syncVars, onDisk>>

\* syncFileRange, when its system calls succeed.
syncFileRange(forced) ==
    LET since == writtenSinceLastSync + count IN
    IF ~SyncsRanges THEN UNCHANGED syncVars
    ELSE IF since = 0 \/ ~(forced \/ since > SyncInterval)
    THEN writtenSinceLastSync' = since /\ UNCHANGED <<nextSyncOffset, ranges>>
    ELSE /\ ranges' = ranges \cup nextSyncOffset..(nextSyncOffset + since - 1)
         /\ nextSyncOffset' = nextSyncOffset + since
         /\ writtenSinceLastSync' = 0

\* The buffer was written: its range is synced, now and then, and its bytes count.
written ==
    /\ pc = "write" /\ count = size
    /\ \/ /\ syncFileRange(totalWritten + size = dataSize)
          /\ totalWritten' = totalWritten + size
          /\ pc' = "receive" /\ UNCHANGED <<isOpen, claimed, faults>>
       \/ /\ SyncsRanges /\ fails /\ giveUp
          /\ UNCHANGED <<totalWritten, syncVars>>
    /\ UNCHANGED <<blockVars, seek, file, size, count, onDisk>>

received ==
    /\ pc = "receive" /\ totalWritten = dataSize
    /\ pc' = "sync"
    /\ UNCHANGED <<blockVars, isOpen, seek, file, size, count, totalWritten, syncVars, onDisk, claimed,
                   faults>>

\* sync: nothing for a file that is not open.
sync ==
    /\ pc = "sync"
    /\ \/ /\ onDisk' = IF isOpen /\ Sync THEN {p \in Positions : file[p] # Nothing} ELSE onDisk
          /\ pc' = "close" /\ UNCHANGED <<isOpen, claimed, faults>>
       \/ isOpen /\ (Sync \/ Fadvise) /\ fails /\ giveUp /\ UNCHANGED onDisk
    /\ UNCHANGED <<blockVars, seek, file, size, count, totalWritten, syncVars>>

\* close, and the block is accepted if all of it was written.
close ==
    /\ pc = "close"
    /\ \/ /\ totalWritten = dataSize
          /\ isOpen' = FALSE /\ claimed' = Whole /\ pc' = "accepted" /\ UNCHANGED faults
       \/ totalWritten < dataSize /\ giveUp /\ UNCHANGED faults
       \/ isOpen /\ fails /\ giveUp
    /\ UNCHANGED <<blockVars, seek, file, size, count, totalWritten, syncVars, onDisk>>

Next == open \/ receive \/ write \/ written \/ received \/ sync \/ close

Spec == Init /\ [][Next]_vars
-----------------------------------------------------------------------------
Claim == IF claimed = Whole THEN dataSize ELSE claimed
ClaimedRange == {p \in Positions : offset <= p /\ p < offset + Claim}

\* What is accepted or, after a failure, claimed in the checkpoint is in the file at its
\* place, whatever calls were short, interrupted or failed.
ClaimIsWritten ==
    pc \in {"accepted", "failed"} => \A p \in ClaimedRange : file[p] = p - offset

\* Nothing outside of the block is written.
OnlyTheBlock ==
    \A p \in Positions : file[p] # Nothing => offset <= p /\ p < offset + dataSize

\* An accepted block was fsynced as a whole, and every byte of it handed to sync_file_range.
AcceptedIsSynced ==
    pc = "accepted" => /\ Sync => ClaimedRange \subseteq onDisk
                       /\ SyncsRanges => ranges = ClaimedRange

\* What the receiver thread answers for is in the file, and on the disk once it is accepted.
ClaimIsStored == ClaimIsWritten /\ OnlyTheBlock /\ AcceptedIsSynced
=============================================================================
