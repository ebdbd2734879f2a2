--------------------------- MODULE FileByteSource ---------------------------
(***************************************************************************)
(* A block of a file on its way from the sender's disk to the receiver:    *)
(* FileByteSource reads it, with O_DIRECT in whole disk blocks, the sender *)
(* thread writes what was read to the connection.  Bytes are known by      *)
(* their position in the file.  When the connection breaks the receiver    *)
(* keeps what it got, the source is advanced by as much and sent again.    *)
(***************************************************************************)
EXTENDS Naturals, Integers, Sequences

CONSTANTS
    DiskBlockSize,  \* kDiskBlockSize
    BufferSize,     \* size of the thread's buffer
    FileSize,       \* size of the file when it was discovered
    DirectReads,    \* metadata_->directReads, with O_DIRECT
    SharedFd,       \* metadata_->fd is set: the caller has opened the file
    HeaderBytes,    \* length of a header
    MayShrink,      \* the file may be truncated while it is sent
    MaxFaults       \* bound on failing calls

\* The buffer is made of whole disk blocks.
ASSUME SizesAssumption ==
    /\ DiskBlockSize \in Nat \ {0} /\ BufferSize \in Nat \ {0} /\ BufferSize % DiskBlockSize = 0
    /\ FileSize \in Nat

VARIABLES
    length,      \* the size the file has now
    first, end,  \* the block is the bytes first..end-1 of the file
    offset, size, bytesRead, fd, opened,
    wire,        \* positions of the bytes written after the last header
    received,    \* positions of the bytes the receiver has written, at first + k - 1
    throttled,   \* totalThrottlerBytes and throttlerInstanceBytes
    result,      \* local error code of the last attempt
    pc, faults

sourceVars == <<offset, size, bytesRead, fd, opened>>
vars == <<length, first, end, sourceVars, wire, received, throttled, result, pc, faults>>

NoFd == 0 - 1
OwnFd == 1
CallersFd == 2

Init ==
    /\ length = FileSize
    /\ first \in 0..FileSize /\ end \in first..FileSize
    /\ offset = first /\ size = end - first /\ bytesRead = 0
    /\ fd = NoFd /\ opened = 0
    /\ wire = <<>> /\ received = <<>>
    /\ throttled = [total |-> 0, instance |-> 0]
    /\ result = "NONE" /\ pc = "open" /\ faults = 0
-----------------------------------------------------------------------------
Smaller(a, b) == IF a < b THEN a ELSE b

fails == faults < MaxFaults /\ faults' = faults + 1

\* close: only a descriptor that the source has opened is closed.
close ==
    /\ opened' = IF fd = OwnFd THEN opened - 1 ELSE opened
    /\ fd' = NoFd

hasError == fd = NoFd
finished == bytesRead = size /\ ~hasError

\* openForRead, with as many descriptors open before.
openForRead(before) ==
    \/ /\ fd' = OwnFd /\ opened' = before + 1
       /\ pc' = "header" /\ UNCHANGED <<result, faults>>
    \/ /\ fails
       /\ fd' = NoFd /\ opened' = before
       /\ result' = "BYTE_SOURCE_READ_ERROR" /\ pc' = "end"

\* open: close, then the caller's descriptor or a new one.
open ==
    /\ pc = "open"
    /\ bytesRead' = 0
    /\ LET left == IF fd = OwnFd THEN opened - 1 ELSE opened IN
       \/ /\ SharedFd
          /\ fd' = CallersFd /\ opened' = left
          /\ pc' = "header" /\ UNCHANGED <<result, faults>>
       \/ ~SharedFd /\ openForRead(left)
    /\ UNCHANGED <<length, first, end, offset, size, wire, received, throttled>>

\* The header, which gives the receiver the offset, is written.
sendHeader ==
    /\ pc = "header"
    /\ wire' = <<>>
    /\ throttled' = [total |-> 0, instance |-> HeaderBytes]
    /\ \/ pc' = "data" /\ UNCHANGED <<result, faults>>
       \/ fails /\ result' = "SOCKET_WRITE_ERROR" /\ pc' = "close"
    /\ UNCHANGED <<length, first, end, sourceVars, received>>

\* With O_DIRECT a read starts with a disk block: how much of it is in front of the data.
OffsetRemainder == IF DirectReads THEN (offset + bytesRead) % DiskBlockSize ELSE 0
\* How much of the block is read at once.
LogicalRead == Smaller(BufferSize - OffsetRemainder, size - bytesRead)

\* What read asks of pread, and from where.
PhysicalRead ==
    IF DirectReads
    THEN ((LogicalRead + OffsetRemainder + DiskBlockSize - 1) \div DiskBlockSize) * DiskBlockSize
    ELSE LogicalRead
SeekPos == offset + bytesRead - OffsetRemainder

\* How many bytes read returns when pread returns n.
numReadOf(n) == Smaller(n - OffsetRemainder, LogicalRead)

\* Mutation of ReadFrom: the data are taken from the start of the buffer.
ReadFromStart(n) == [k \in 1..n |-> SeekPos + k - 1]

\* The bytes that read returns: those in the buffer behind the remainder.
ReadFrom(n) == [k \in 1..n |-> SeekPos + OffsetRemainder + k - 1]

\* pread fails, or finds the end of the file before the n bytes that are there.
readFails(n) ==
    /\ n > 0 => fails
    /\ n = 0 => UNCHANGED faults
    /\ close /\ pc' = "sent"

\* One turn of the loop: read, limit, write.
sendData ==
    LET n == Smaller(PhysicalRead, IF length > SeekPos THEN length - SeekPos ELSE 0)
        got == numReadOf(n)
    IN
    /\ pc = "data" /\ ~finished
    /\ \/ /\ readFails(n)
          /\ UNCHANGED <<bytesRead, wire, throttled, result>>
       \/ \* a check fails
          /\ n > 0 /\ got <= 0
          /\ pc' = "failed"
          /\ UNCHANGED <<bytesRead, fd, opened, wire, throttled, result, faults>>
       \/ \* what was read is written
          /\ n > 0 /\ got > 0
          /\ bytesRead' = bytesRead + got
          /\ throttled' = [total |-> throttled.total + throttled.instance + got, instance |-> 0]
          /\ \/ wire' = wire \o ReadFrom(got) /\ UNCHANGED <<pc, result, faults>>
             \/ /\ fails
                /\ \E k \in 0..(got - 1) : wire' = wire \o SubSeq(ReadFrom(got), 1, k)
                /\ result' = "SOCKET_WRITE_ERROR" /\ pc' = "close"
          /\ UNCHANGED <<fd, opened>>
    /\ UNCHANGED <<length, first, end, offset, size, received>>

\* The loop is over.
sent ==
    /\ (pc = "data" /\ finished) \/ pc = "sent"
    /\ IF Len(wire) # size THEN result' = "BYTE_SOURCE_READ_ERROR" /\ pc' = "close"
       ELSE IF size > 0 /\ throttled.total # size + HeaderBytes
       THEN pc' = "failed" /\ UNCHANGED result
       ELSE result' = "OK" /\ pc' = "close"
    /\ UNCHANGED <<length, first, end, sourceVars, wire, received, throttled, faults>>

\* The thread closes the source; the receiver has got all that was written, or less if the
\* connection is given up.
closeSource ==
    /\ pc = "close"
    /\ close
    /\ \E k \in 0..Len(wire) :
          /\ result = "OK" => k = Len(wire)
          /\ received' = received \o SubSeq(wire, 1, k)
    /\ pc' = IF result = "OK" THEN "end" ELSE "checkpoint"
    /\ UNCHANGED <<length, first, end, offset, size, bytesRead, wire, throttled, result, faults>>

\* Mutation of advanceOffset: the size is kept.
advanceOffsetOnly(numBytes) == offset' = offset + numBytes /\ UNCHANGED size

\* advanceOffset.
advanceOffset(numBytes) ==
    /\ offset' = offset + numBytes
    /\ size' = size - numBytes

\* The source is put back with the receiver's checkpoint and taken again.
again ==
    /\ pc = "checkpoint"
    /\ advanceOffset(Len(received) - (offset - first))
    /\ pc' = "open"
    /\ UNCHANGED <<length, first, end, bytesRead, fd, opened, wire, received, throttled, result,
                   faults>>

\* The file is truncated.
shrink ==
    /\ MayShrink /\ pc \notin {"end", "failed"}
    /\ \E l \in 0..(length - 1) : length' = l
    /\ UNCHANGED <<first, end, sourceVars, wire, received, throttled, result, pc>>
    /\ fails

Next == open \/ sendHeader \/ sendData \/ sent \/ closeSource \/ again \/ shrink

Spec == Init /\ [][Next]_vars
-----------------------------------------------------------------------------
\* Every byte is written by the receiver where it is in the file, however the reads are
\* aligned and wherever the connection breaks and the block is taken up again.
BytesInPlace == \A k \in DOMAIN received : received[k] = first + k - 1

\* A block that was sent without an error has reached the receiver whole, no byte twice.
BlockIsWhole == pc = "end" /\ result = "OK" => Len(received) = end - first

\* What is read fits into the buffer and lies within the block.
ReadsFit ==
    pc = "data" /\ ~finished => /\ LogicalRead > 0 /\ PhysicalRead <= BufferSize
                                /\ OffsetRemainder + LogicalRead <= PhysicalRead

\* The sender's checks hold: read returns some bytes unless there is an error, and what the
\* throttler was told of is what was written.
ChecksHold == pc # "failed"

\* Every descriptor the source has opened is closed when the block is done with.
DescriptorsClosed == pc = "end" => opened = 0
=============================================================================
