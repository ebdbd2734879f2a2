-------------------------- MODULE FileWriterProofs --------------------------
(***************************************************************************)
(* What the receiver answers for is stored: for blocks of any size at any  *)
(* offset, any size of the buffer and of the interval of syncs, and any    *)
(* number of short, interrupted and failing calls.                         *)
(***************************************************************************)
EXTENDS FileWriter, TLAPS

\* Bytes of the block in the file, those of the buffer that is written included.
Done == totalWritten + (IF pc = "write" THEN count ELSE 0)

WriterTypeOK ==
    /\ offset \in Nat /\ dataSize \in Nat /\ offset + dataSize <= MaxFileSize
    /\ seek \in Nat /\ file \in [Positions -> Int]
    /\ size \in Nat /\ count \in Nat /\ totalWritten \in Nat
    /\ writtenSinceLastSync \in Nat /\ nextSyncOffset \in Nat
    /\ ranges \subseteq Positions /\ onDisk \subseteq Positions
    /\ claimed \in Int
    /\ pc \in {"open", "receive", "write", "sync", "close", "accepted", "failed"}

\* How far the writer is.
Progress ==
    /\ totalWritten <= dataSize
    /\ pc = "open" => totalWritten = 0
    /\ pc = "write" => count <= size /\ 0 < size /\ totalWritten + size <= dataSize
    /\ pc \in {"receive", "write", "sync"} => isOpen
    /\ pc \in {"receive", "write"} => seek = offset + Done
    /\ pc = "failed" => claimed \in {0, totalWritten}
    /\ pc = "accepted" => claimed = Whole /\ totalWritten = dataSize

\* The file holds the bytes of the block up to there, and none outside of it.
Content ==
    /\ \A p \in Positions : offset <= p /\ p < offset + Done => file[p] = p - offset
    /\ OnlyTheBlock
    /\ pc \in {"close", "accepted"} /\ Sync =>
          \A p \in Positions : offset <= p /\ p < offset + totalWritten => p \in onDisk

\* The ranges synced are the block up to nextSyncOffset_, and the last one is forced.
RangesOK ==
    SyncsRanges =>
       /\ offset <= nextSyncOffset
       /\ nextSyncOffset + writtenSinceLastSync = offset + totalWritten
       /\ \A p \in Positions : p \in ranges <=> offset <= p /\ p < nextSyncOffset
       /\ totalWritten = dataSize => writtenSinceLastSync = 0

Stored == WriterTypeOK /\ Progress /\ Content /\ RangesOK

LEMMA StoredInit == ASSUME WriterAssumption, Init PROVE Stored
<1>1. /\ offset \in Nat /\ dataSize \in Nat /\ offset + dataSize <= MaxFileSize
      /\ MaxFileSize \in Nat
  BY DEF Init, WriterAssumption
<1>2. file \in [Positions -> Int] /\ \A p \in Positions : file[p] = Nothing
  BY DEF Init, Nothing
<1>3. WriterTypeOK
  <2>1. /\ seek \in Nat /\ size \in Nat /\ count \in Nat /\ totalWritten \in Nat
        /\ writtenSinceLastSync \in Nat /\ nextSyncOffset \in Nat /\ claimed \in Int
    BY <1>1 DEF Init
  <2> QED
    BY <1>1, <1>2, <2>1 DEF Init, WriterTypeOK
<1>4. Progress
  BY <1>1 DEF Init, Progress
<1>5. Done = 0
  BY DEF Init, Done
<1>6. Content
  BY <1>1, <1>2, <1>5 DEF Content, OnlyTheBlock, Init, Positions
<1>7. RangesOK
  BY <1>1 DEF Init, RangesOK, Positions
<1> QED
  BY <1>3, <1>4, <1>6, <1>7 DEF Stored

\* A step that writes nothing: what it has to keep.
LEMMA NothingWritten ==
    ASSUME Stored, UNCHANGED <<blockVars, file, totalWritten, syncVars>>, Done' <= Done,
           Done' \in Int,
           pc' \in {"close", "accepted"} /\ Sync =>
              \A p \in Positions : offset <= p /\ p < offset + totalWritten => p \in onDisk'
    PROVE  Content' /\ RangesOK'
<1>0. /\ UNCHANGED <<offset, dataSize, file, totalWritten, writtenSinceLastSync, nextSyncOffset,
                     ranges>>
  BY DEF blockVars, syncVars
<1>1. offset \in Nat /\ Done \in Int
  BY DEF Stored, WriterTypeOK, Done
<1>2. \A p \in Positions : offset <= p /\ p < offset + Done => file[p] = p - offset
  BY DEF Stored, Content
<1>3. \A p \in Positions : p \in Int
  BY DEF Positions
<1>4. \A p \in Positions : offset <= p /\ p < offset + Done' => file[p] = p - offset
  BY <1>1, <1>2, <1>3
<1>5. OnlyTheBlock'
  BY <1>0 DEF Stored, Content, OnlyTheBlock
<1>6. Content'
  BY <1>0, <1>4, <1>5 DEF Content
<1>7. RangesOK'
  BY <1>0 DEF Stored, RangesOK
<1> QED
  BY <1>6, <1>7

\* giveUp claims what was written before, or nothing.
LEMMA GivenUp ==
    ASSUME Stored, giveUp, UNCHANGED <<blockVars, file, size, totalWritten, syncVars>>,
           count' \in Nat, seek' \in Nat, onDisk' \subseteq Positions
    PROVE  Stored'
<1>1. /\ claimed' \in {0, totalWritten} /\ isOpen' = FALSE /\ pc' = "failed"
  BY DEF giveUp
<1>2. WriterTypeOK /\ Progress /\ Done' = totalWritten /\ totalWritten <= Done
  BY <1>1 DEF Stored, WriterTypeOK, Done, syncVars
<1>3. WriterTypeOK'
  <2>1. claimed' \in Int
    BY <1>1, <1>2 DEF WriterTypeOK
  <2> QED
    BY <1>1, <1>2, <2>1 DEF WriterTypeOK, blockVars, syncVars
<1>4. Progress'
  BY <1>1, <1>2 DEF Progress, blockVars
<1>5. Content' /\ RangesOK'
  BY <1>1, <1>2, NothingWritten DEF WriterTypeOK
<1> QED
  BY <1>3, <1>4, <1>5 DEF Stored

LEMMA OpenStep == ASSUME Stored, open PROVE Stored'
<1>1. WriterTypeOK /\ Progress
  BY DEF Stored
<1>2. CASE giveUp
  BY <1>1, <1>2, GivenUp DEF open, WriterTypeOK
<1>3. CASE isOpen' = TRUE /\ seek' = offset /\ pc' = "receive" /\ UNCHANGED claimed
  <2>1. /\ pc = "open"
        /\ UNCHANGED <<offset, dataSize, file, size, count, totalWritten, writtenSinceLastSync,
                       nextSyncOffset, ranges, onDisk>>
    BY DEF open, blockVars, syncVars
  <2>2. Done' = totalWritten /\ Done = totalWritten
    BY <1>1, <1>3, <2>1 DEF Done, WriterTypeOK
  <2>3. WriterTypeOK'
    BY <1>1, <1>3, <2>1 DEF WriterTypeOK
  <2>4. Progress'
    <3>1. isOpen' /\ pc' = "receive" /\ seek' = offset
      BY <1>3
    <3>2. totalWritten = 0
      BY <1>1, <2>1 DEF Progress
    <3> QED
      BY <1>1, <2>1, <2>2, <3>1, <3>2 DEF Progress, WriterTypeOK
  <2>5. Content' /\ RangesOK'
    <3>1. pc' = "receive" /\ UNCHANGED <<blockVars, file, totalWritten, syncVars>>
      BY <1>3, <2>1 DEF blockVars, syncVars
    <3>2. Done' \in Int /\ Done' <= Done
      BY <1>1, <2>2 DEF WriterTypeOK
    <3> QED
      BY <3>1, <3>2, NothingWritten
  <2> QED
    BY <2>3, <2>4, <2>5 DEF Stored
<1> QED
  BY <1>2, <1>3, Zenon DEF open

LEMMA ReceiveStep == ASSUME WriterAssumption, Stored, receive PROVE Stored'
<1>1. WriterTypeOK /\ Progress
  BY DEF Stored
<1>2. /\ pc = "receive" /\ totalWritten < dataSize
      /\ UNCHANGED <<offset, dataSize, isOpen, seek, file, totalWritten, writtenSinceLastSync,
                     nextSyncOffset, ranges, onDisk, claimed>>
  BY DEF receive, blockVars, syncVars
<1>3. \/ /\ size' \in Nat /\ 0 < size' /\ totalWritten + size' <= dataSize
         /\ count' = 0 /\ pc' = "write"
      \/ pc' = "sync" /\ UNCHANGED <<size, count>>
  BY <1>1 DEF receive, WriterTypeOK, WriterAssumption
<1>4. Done' = totalWritten /\ Done = totalWritten
  BY <1>1, <1>2, <1>3 DEF Done, WriterTypeOK
<1>5. WriterTypeOK'
  BY <1>1, <1>2, <1>3 DEF WriterTypeOK
<1>6. Progress'
  BY <1>1, <1>2, <1>3, <1>4 DEF Progress, WriterTypeOK
<1>7. Content' /\ RangesOK'
  BY <1>1, <1>2, <1>3, <1>4, NothingWritten DEF WriterTypeOK, blockVars, syncVars
<1> QED
  BY <1>5, <1>6, <1>7 DEF Stored

\* The bytes ::write writes are those that belong where the file offset is.
LEMMA BytesWritten ==
    ASSUME Stored, pc = "write", NEW n \in 1..(size - count), writeBytes(n),
           UNCHANGED <<blockVars, isOpen, claimed, pc, size, totalWritten, syncVars, onDisk>>
    PROVE  Stored'
<1>1. WriterTypeOK /\ Progress /\ Content /\ RangesOK
  BY DEF Stored
<1>2. /\ UNCHANGED <<offset, dataSize, isOpen, claimed, pc, size, totalWritten,
                     writtenSinceLastSync, nextSyncOffset, ranges, onDisk>>
      /\ seek' = seek + n /\ count' = count + n
      /\ file' = [p \in Positions |-> IF p \in seek..(seek + n - 1)
                                       THEN totalWritten + count + p - seek ELSE file[p]]
  BY DEF blockVars, syncVars, writeBytes
<1>3. /\ offset \in Nat /\ seek \in Nat /\ count \in Nat /\ size \in Nat /\ totalWritten \in Nat
      /\ dataSize \in Nat /\ n \in Nat /\ 0 < n /\ count + n <= size
  BY <1>1 DEF WriterTypeOK
<1>4. Done = totalWritten + count /\ Done' = totalWritten + count + n /\ seek = offset + Done
  BY <1>1, <1>2, <1>3 DEF Done, Progress
<1>5. \A p \in Positions : p \in Int
  BY DEF Positions
<1>6. \A p \in Positions : file[p] \in Int
  BY <1>1 DEF WriterTypeOK
<1>7. /\ file' \in [Positions -> Int]
      /\ \A p \in Positions : file'[p] = IF offset + Done <= p /\ p < offset + Done'
                                         THEN p - offset ELSE file[p]
  <2>1. \A p \in Positions : p \in seek..(seek + n - 1) <=> offset + Done <= p /\ p < offset + Done'
    BY <1>3, <1>4, <1>5
  <2>2. \A p \in Positions : totalWritten + count + p - seek = p - offset
    BY <1>3, <1>4, <1>5
  <2>3. \A p \in Positions : file'[p] = IF offset + Done <= p /\ p < offset + Done'
                                        THEN p - offset ELSE file[p]
    BY <1>2, <2>1, <2>2
  <2>4. \A p \in Positions : file'[p] \in Int
    BY <1>3, <1>5, <1>6, <2>3
  <2> QED
    BY <1>2, <2>3, <2>4
<1>8. WriterTypeOK'
  BY <1>1, <1>2, <1>3, <1>7 DEF WriterTypeOK
<1>9. Progress'
  BY <1>1, <1>2, <1>3, <1>4 DEF Progress
<1>10. Content'
  <2>1. totalWritten + size <= dataSize
    BY <1>1 DEF Progress
  <2>2. \A p \in Positions : offset <= p /\ p < offset + Done' => file'[p] = p - offset
    BY <1>1, <1>3, <1>4, <1>5, <1>7 DEF Content
  <2>3. OnlyTheBlock'
    BY <1>1, <1>2, <1>3, <1>4, <1>5, <1>7, <2>1 DEF Content, OnlyTheBlock, Nothing
  <2> QED
    BY <1>2, <2>2, <2>3 DEF Content
<1>11. RangesOK'
  BY <1>1, <1>2 DEF RangesOK
<1> QED
  BY <1>8, <1>9, <1>10, <1>11 DEF Stored

LEMMA WriteStep == ASSUME Stored, write PROVE Stored'
<1>1. WriterTypeOK /\ Progress /\ pc = "write"
  BY DEF Stored, write
<1>2. CASE \E n \in 1..(size - count) : writeBytes(n) /\ UNCHANGED <<isOpen, claimed, pc>>
  BY <1>1, <1>2, BytesWritten DEF write
<1>3. CASE UNCHANGED <<isOpen, seek, file, count, claimed, pc>>
  <2>1. UNCHANGED <<offset, dataSize, isOpen, seek, file, size, count, totalWritten,
                    writtenSinceLastSync, nextSyncOffset, ranges, onDisk, claimed, pc>>
    BY <1>3 DEF write, blockVars, syncVars
  <2> QED
    BY <2>1 DEF Stored, WriterTypeOK, Progress, Content, OnlyTheBlock, RangesOK, Done
<1>4. CASE giveUp /\ UNCHANGED <<seek, file, count>>
  BY <1>1, <1>4, GivenUp DEF write, WriterTypeOK
<1> QED
  BY <1>2, <1>3, <1>4 DEF write


\* syncFileRange keeps the account of the ranges for the bytes of a written buffer.
LEMMA RangeStep ==
    ASSUME WriterAssumption, Stored, pc = "write", count = size, syncFileRange(totalWritten + size = dataSize),
           totalWritten' = totalWritten + size, UNCHANGED blockVars
    PROVE  /\ RangesOK'
           /\ writtenSinceLastSync' \in Nat /\ nextSyncOffset' \in Nat /\ ranges' \subseteq Positions
<1>1. WriterTypeOK /\ Progress /\ RangesOK
  BY DEF Stored
<1>2. /\ offset \in Nat /\ dataSize \in Nat /\ size \in Nat /\ totalWritten \in Nat
      /\ writtenSinceLastSync \in Nat /\ nextSyncOffset \in Nat /\ ranges \subseteq Positions
      /\ offset + dataSize <= MaxFileSize /\ MaxFileSize \in Nat
  BY <1>1 DEF WriterTypeOK, WriterAssumption
<1>3. 0 < size /\ totalWritten + size <= dataSize
  BY <1>1 DEF Progress
<1>4. UNCHANGED <<offset, dataSize>>
  BY DEF blockVars
<1>5. CASE ~SyncsRanges
  <2>1. UNCHANGED <<writtenSinceLastSync, nextSyncOffset, ranges>>
    BY <1>5 DEF syncFileRange, syncVars
  <2> QED
    BY <1>2, <1>5, <2>1 DEF RangesOK
<1>6. CASE SyncsRanges
  <2> DEFINE since == writtenSinceLastSync + size
  <2>1. /\ nextSyncOffset + writtenSinceLastSync = offset + totalWritten
        /\ \A p \in Positions : p \in ranges <=> offset <= p /\ p < nextSyncOffset
        /\ offset <= nextSyncOffset
    BY <1>1, <1>6 DEF RangesOK
  <2>2. since \in Nat /\ 0 < since /\ nextSyncOffset + since = offset + totalWritten'
    BY <1>2, <1>3, <2>1
  <2>3. CASE ~(totalWritten + size = dataSize \/ since > SyncInterval)
    <3>1. writtenSinceLastSync' = since /\ UNCHANGED <<nextSyncOffset, ranges>>
      BY <1>6, <2>3 DEF syncFileRange
    <3>2. totalWritten' # dataSize
      BY <2>3
    <3> QED
      BY <1>2, <1>4, <2>1, <2>2, <3>1, <3>2 DEF RangesOK
  <2>4. CASE totalWritten + size = dataSize \/ since > SyncInterval
    <3> HIDE DEF since
    <3>1. /\ ranges' = ranges \cup nextSyncOffset..(nextSyncOffset + since - 1)
          /\ nextSyncOffset' = nextSyncOffset + since
          /\ writtenSinceLastSync' = 0
      BY <1>2, <1>6, <2>2, <2>4 DEF syncFileRange, since
    <3>2. \A p \in Positions : p \in Int
      BY DEF Positions
    <3>3. \A p \in Positions : p \in ranges' <=> offset <= p /\ p < nextSyncOffset'
      BY <1>2, <2>1, <2>2, <3>1, <3>2
    <3>4. ranges' \subseteq Positions
      BY <1>2, <1>3, <2>2, <3>1 DEF Positions
    <3> QED
      BY <1>2, <1>4, <2>1, <2>2, <3>1, <3>3, <3>4 DEF RangesOK
  <2> QED
    BY <2>3, <2>4
<1> QED
  BY <1>5, <1>6

LEMMA WrittenStep == ASSUME WriterAssumption, Stored, written PROVE Stored'
<1>1. WriterTypeOK /\ Progress /\ Content /\ pc = "write" /\ count = size
  BY DEF Stored, written
<1>2. CASE giveUp /\ UNCHANGED <<totalWritten, syncVars>>
  BY <1>1, <1>2, GivenUp DEF written, WriterTypeOK
<1>3. CASE /\ syncFileRange(totalWritten + size = dataSize)
           /\ totalWritten' = totalWritten + size
           /\ pc' = "receive" /\ UNCHANGED <<isOpen, claimed>>
  <2>1. UNCHANGED <<offset, dataSize, seek, file, size, count, onDisk, isOpen, claimed>>
    BY <1>3 DEF written, blockVars
  <2>2. /\ RangesOK'
        /\ writtenSinceLastSync' \in Nat /\ nextSyncOffset' \in Nat /\ ranges' \subseteq Positions
    BY <1>1, <1>3, RangeStep DEF written
  <2>3. /\ offset \in Nat /\ dataSize \in Nat /\ size \in Nat /\ totalWritten \in Nat
        /\ totalWritten + size <= dataSize
    BY <1>1 DEF WriterTypeOK, Progress
  <2>4. Done' = Done
    BY <1>1, <1>3, <2>3 DEF Done
  <2>5. WriterTypeOK'
    BY <1>1, <1>3, <2>1, <2>2, <2>3 DEF WriterTypeOK
  <2>6. Progress'
    BY <1>1, <1>3, <2>1, <2>3, <2>4 DEF Progress
  <2>7. Content'
    BY <1>1, <1>3, <2>1, <2>4 DEF Content, OnlyTheBlock
  <2> QED
    BY <2>2, <2>5, <2>6, <2>7 DEF Stored
<1> QED
  BY <1>2, <1>3 DEF written

LEMMA ReceivedStep == ASSUME Stored, received PROVE Stored'
<1>1. WriterTypeOK /\ Progress
  BY DEF Stored
<1>2. /\ pc = "receive" /\ pc' = "sync"
      /\ UNCHANGED <<offset, dataSize, isOpen, seek, file, size, count, totalWritten,
                     writtenSinceLastSync, nextSyncOffset, ranges, onDisk, claimed>>
  BY DEF received, blockVars, syncVars
<1>3. Done' = totalWritten /\ Done = totalWritten
  BY <1>1, <1>2 DEF Done, WriterTypeOK
<1>4. WriterTypeOK' /\ Progress'
  BY <1>1, <1>2 DEF WriterTypeOK, Progress
<1>5. Content' /\ RangesOK'
  BY <1>1, <1>2, <1>3, NothingWritten DEF WriterTypeOK, blockVars, syncVars
<1> QED
  BY <1>4, <1>5 DEF Stored


\* The fsync covers what the file holds.
LEMMA SyncStep == ASSUME Stored, sync PROVE Stored'
<1>1. WriterTypeOK /\ Progress /\ Content /\ pc = "sync" /\ isOpen
  BY DEF Stored, sync, Progress
<1>2. CASE giveUp /\ UNCHANGED onDisk
  BY <1>1, <1>2, GivenUp DEF sync, WriterTypeOK
<1>3. CASE /\ onDisk' = IF isOpen /\ Sync THEN {p \in Positions : file[p] # Nothing} ELSE onDisk
           /\ pc' = "close" /\ UNCHANGED <<isOpen, claimed>>
  <2>1. UNCHANGED <<offset, dataSize, isOpen, seek, file, size, count, totalWritten,
                    writtenSinceLastSync, nextSyncOffset, ranges, claimed>>
    BY <1>3 DEF sync, blockVars, syncVars
  <2>2. Done' = totalWritten /\ Done = totalWritten /\ offset \in Nat /\ totalWritten \in Nat
    BY <1>1, <1>3, <2>1 DEF Done, WriterTypeOK
  <2>3. \A p \in Positions : offset <= p /\ p < offset + totalWritten => file[p] # Nothing
    <3>1. \A p \in Positions : p \in Int
      BY DEF Positions
    <3> QED
      BY <1>1, <2>2, <3>1 DEF Content, Nothing
  <2>4. onDisk' \subseteq Positions
    BY <1>1, <1>3 DEF WriterTypeOK
  <2>5. Sync => \A p \in Positions : offset <= p /\ p < offset + totalWritten => p \in onDisk'
    BY <1>1, <1>3, <2>3
  <2>6. WriterTypeOK'
    BY <1>1, <1>3, <2>1, <2>4 DEF WriterTypeOK
  <2>7. Progress'
    BY <1>1, <1>3, <2>1 DEF Progress
  <2>8. Content' /\ RangesOK'
    BY <2>1, <2>2, <2>5, NothingWritten DEF blockVars, syncVars
  <2> QED
    BY <2>6, <2>7, <2>8 DEF Stored
<1> QED
  BY <1>2, <1>3 DEF sync

LEMMA CloseStep == ASSUME Stored, close PROVE Stored'
<1>1. WriterTypeOK /\ Progress /\ Content /\ pc = "close"
  BY DEF Stored, close
<1>2. CASE giveUp
  BY <1>1, <1>2, GivenUp DEF close, WriterTypeOK
<1>3. CASE totalWritten = dataSize /\ claimed' = Whole /\ pc' = "accepted"
  <2>1. UNCHANGED <<offset, dataSize, seek, file, size, count, totalWritten,
                    writtenSinceLastSync, nextSyncOffset, ranges, onDisk>>
    BY DEF close, blockVars, syncVars
  <2>2. Done' = totalWritten /\ Done = totalWritten /\ totalWritten \in Nat
    BY <1>1, <1>3, <2>1 DEF Done, WriterTypeOK
  <2>3. WriterTypeOK'
    BY <1>1, <1>3, <2>1 DEF WriterTypeOK, Whole
  <2>4. Progress'
    BY <1>1, <1>3, <2>1 DEF Progress, Whole
  <2>5. Sync => \A p \in Positions : offset <= p /\ p < offset + totalWritten => p \in onDisk
    BY <1>1 DEF Content
  <2>6. Content' /\ RangesOK'
    BY <2>1, <2>2, <2>5, NothingWritten DEF blockVars, syncVars
  <2> QED
    BY <2>3, <2>4, <2>6 DEF Stored
<1> QED
  BY <1>2, <1>3 DEF close


LEMMA StoredStep == ASSUME WriterAssumption, Stored, [Next]_vars PROVE Stored'
<1>1. CASE UNCHANGED vars
  BY <1>1 DEF vars, blockVars, syncVars, Stored, WriterTypeOK, Progress, Content, OnlyTheBlock,
              RangesOK, Done
<1>2. CASE Next
  BY <1>2, OpenStep, ReceiveStep, WriteStep, WrittenStep, ReceivedStep, SyncStep, CloseStep DEF Next
<1> QED
  BY <1>1, <1>2

\* A claim is never more than what the invariant says is in the file, on the disk and in
\* the ranges synced.
LEMMA StoredIsClaimed == ASSUME Stored PROVE ClaimIsStored
<1>1. WriterTypeOK /\ Progress /\ Content /\ RangesOK
  BY DEF Stored
<1>2. /\ offset \in Nat /\ dataSize \in Nat /\ totalWritten \in Nat /\ claimed \in Int
      /\ writtenSinceLastSync \in Nat /\ nextSyncOffset \in Nat /\ ranges \subseteq Positions
  BY <1>1 DEF WriterTypeOK
<1>3. pc = "accepted" => Claim = totalWritten /\ totalWritten = dataSize
  BY <1>1 DEF Progress, Claim
<1>4. pc = "failed" => Claim = 0 \/ Claim = totalWritten
  BY <1>1, <1>2 DEF Progress, Claim, Whole
<1>5. \A p \in Positions : p \in Int
  BY DEF Positions
<1>6. ClaimIsWritten
  <2> SUFFICES ASSUME pc \in {"accepted", "failed"}, NEW p \in ClaimedRange
               PROVE  file[p] = p - offset
    BY DEF ClaimIsWritten
  <2>1. p \in Positions /\ offset <= p /\ p < offset + totalWritten
    BY <1>2, <1>3, <1>4, <1>5 DEF ClaimedRange
  <2>2. Done = totalWritten
    BY <1>2 DEF Done
  <2> QED
    BY <1>1, <2>1, <2>2 DEF Content
<1>7. ASSUME pc = "accepted" PROVE Sync => ClaimedRange \subseteq onDisk
  BY <1>1, <1>3, <1>7 DEF Content, ClaimedRange
<1>8. ASSUME pc = "accepted", SyncsRanges PROVE ranges = ClaimedRange
  <2>1. nextSyncOffset = offset + totalWritten
    BY <1>1, <1>2, <1>3, <1>8 DEF RangesOK
  <2>2. \A p \in Positions : p \in ranges <=> offset <= p /\ p < nextSyncOffset
    BY <1>1, <1>8 DEF RangesOK
  <2>3. ClaimedRange = {p \in Positions : offset <= p /\ p < nextSyncOffset}
    BY <1>3, <1>8, <2>1 DEF ClaimedRange
  <2> QED
    BY <1>2, <2>2, <2>3
<1> QED
  BY <1>1, <1>6, <1>7, <1>8 DEF ClaimIsStored, AcceptedIsSynced, Content

\* For every block, buffer size and interval of syncs, and however many calls are short,
\* interrupted or fail, what the receiver thread claims of a block in its checkpoint is in
\* the file at its place, nothing outside of the block is written, and an accepted block
\* was synced as a whole.
THEOREM ClaimTheorem == ASSUME WriterAssumption PROVE Spec => []ClaimIsStored
<1>1. Init => Stored
  BY StoredInit
<1>2. Stored /\ [Next]_vars => Stored'
  BY StoredStep
<1>3. Stored => ClaimIsStored
  BY StoredIsClaimed
<1> QED
  BY <1>1, <1>2, <1>3, PTL DEF Spec
=============================================================================
