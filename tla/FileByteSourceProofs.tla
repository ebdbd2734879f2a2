------------------------ MODULE FileByteSourceProofs ------------------------
(***************************************************************************)
(* Proofs for FileByteSource.  The positions on the wire and those at the  *)
(* receiver are runs of consecutive numbers; the invariant says where each *)
(* run starts and how long it is at every place of the sender's loop, and  *)
(* that the source covers what is left of the block.                       *)
(***************************************************************************)
EXTENDS FileByteSource, TLAPS

\* s is the run of positions that starts with a.
IsRun(s, a) == s \in Seq(Int) /\ \A k \in DOMAIN s : s[k] = a + k - 1

SourceOK ==
    /\ first \in Nat /\ end \in Nat /\ first <= end
    /\ length \in Nat /\ bytesRead \in Nat
    /\ offset \in Nat /\ size \in Nat /\ offset + size = end /\ first <= offset

WireOK ==
    /\ pc \in {"data", "sent", "close"} => IsRun(wire, offset) /\ Len(wire) <= size
    /\ pc = "header" => bytesRead = 0
    /\ pc = "data" => bytesRead = Len(wire)
    /\ pc = "close" /\ result = "OK" => Len(wire) = size

ReceivedOK ==
    /\ IsRun(received, first)
    /\ pc \in {"open", "header", "data", "sent", "close"} => offset - first = Len(received)
    /\ pc = "checkpoint" => offset - first <= Len(received) /\ Len(received) <= end - first
    /\ pc = "end" /\ result = "OK" => Len(received) = end - first

OpenOK == pc \in {"header", "data"} => fd # NoFd

IInv == SourceOK /\ WireOK /\ ReceivedOK
-----------------------------------------------------------------------------
\* A run followed by the run that continues it is a run.
LEMMA RunsJoin ==
    ASSUME NEW a \in Int, NEW s, NEW t, IsRun(s, a), IsRun(t, a + Len(s))
    PROVE  IsRun(s \o t, a) /\ Len(s \o t) = Len(s) + Len(t)
  <1> USE DEF IsRun
  <1>1. s \in Seq(Int) /\ t \in Seq(Int)
    OBVIOUS
  <1>2. s \o t \in Seq(Int) /\ Len(s \o t) = Len(s) + Len(t)
    BY <1>1
  <1>3. ASSUME NEW k \in DOMAIN (s \o t)
        PROVE  (s \o t)[k] = a + k - 1
    <2>1. k \in 1..(Len(s) + Len(t))
      BY <1>1, <1>2
    <2>2. CASE k <= Len(s)
      <3>1. (s \o t)[k] = s[k] /\ k \in DOMAIN s
        BY <1>1, <2>1, <2>2
      <3> QED BY <3>1
    <2>3. CASE k > Len(s)
      <3>1. (s \o t)[k] = t[k - Len(s)] /\ k - Len(s) \in DOMAIN t
        BY <1>1, <2>1, <2>3
      <3>2. t[k - Len(s)] = a + Len(s) + (k - Len(s)) - 1
        BY <3>1
      <3> QED BY <3>1, <3>2, <1>1, <2>1
    <2> QED BY <2>1, <2>2, <2>3, <1>1
  <1> QED BY <1>2, <1>3

\* The beginning of a run is a run.
LEMMA RunsCut ==
    ASSUME NEW a \in Int, NEW s, IsRun(s, a), NEW k \in 0..Len(s)
    PROVE  IsRun(SubSeq(s, 1, k), a) /\ Len(SubSeq(s, 1, k)) = k
  <1> USE DEF IsRun
  <1>1. s \in Seq(Int) /\ k \in Nat /\ k <= Len(s)
    OBVIOUS
  <1>2. SubSeq(s, 1, k) \in Seq(Int) /\ Len(SubSeq(s, 1, k)) = k
    BY <1>1
  <1>3. ASSUME NEW i \in DOMAIN SubSeq(s, 1, k)
        PROVE  SubSeq(s, 1, k)[i] = a + i - 1
    BY <1>1, <1>2
  <1> QED BY <1>2, <1>3

\* What read returns continues the run on the wire, and is no more than is left.
LEMMA ReadContinues ==
    ASSUME SourceOK, bytesRead <= size, NEW n \in Nat, numReadOf(n) > 0
    PROVE  /\ numReadOf(n) \in Nat /\ numReadOf(n) <= size - bytesRead
           /\ IsRun(ReadFrom(numReadOf(n)), offset + bytesRead)
           /\ Len(ReadFrom(numReadOf(n))) = numReadOf(n)
  <1>1. OffsetRemainder \in Int
    BY SizesAssumption DEF SourceOK, OffsetRemainder
  <1>2. LogicalRead \in Int /\ LogicalRead <= size - bytesRead
    BY <1>1, SizesAssumption DEF SourceOK, LogicalRead, Smaller
  <1>3. numReadOf(n) \in Nat /\ numReadOf(n) <= size - bytesRead
    BY <1>1, <1>2 DEF SourceOK, numReadOf, Smaller
  <1>4. ASSUME NEW g \in Nat
        PROVE  IsRun(ReadFrom(g), offset + bytesRead) /\ Len(ReadFrom(g)) = g
    BY <1>1 DEF IsRun, ReadFrom, SeekPos, SourceOK
  <1> QED BY <1>3, <1>4

\* pread returns a number of bytes.
LEMMA ReadIsNat ==
    ASSUME SourceOK,
           Smaller(PhysicalRead, IF length > SeekPos THEN length - SeekPos ELSE 0) > 0
    PROVE  Smaller(PhysicalRead, IF length > SeekPos THEN length - SeekPos ELSE 0) \in Nat
  <1>1. OffsetRemainder \in Int
    BY SizesAssumption DEF SourceOK, OffsetRemainder
  <1>2. LogicalRead \in Int
    BY <1>1, SizesAssumption DEF SourceOK, LogicalRead, Smaller
  <1>3. PhysicalRead \in Int /\ SeekPos \in Int
    BY <1>1, <1>2, SizesAssumption DEF PhysicalRead, SeekPos, SourceOK
  <1> QED BY <1>3 DEF Smaller, SourceOK

\* The invariant holds at the start.
LEMMA InitOK == Init => IInv
  BY SizesAssumption DEF Init, IInv, SourceOK, WireOK, ReceivedOK, IsRun

\* Every step keeps the invariant.
LEMMA NextOK == IInv /\ [Next]_vars => IInv'
  <1> SUFFICES ASSUME IInv, [Next]_vars PROVE IInv'
    OBVIOUS
  <1> USE DEF IInv, SourceOK
  <1>1. CASE open
    <2>1. UNCHANGED <<first, end, length, offset, size, wire, received>> /\ bytesRead' = 0
      BY <1>1 DEF open
    <2>2. pc = "open" /\ (pc' = "header" \/ (pc' = "end" /\ result' = "BYTE_SOURCE_READ_ERROR"))
      BY <1>1 DEF open, openForRead
    <2> QED BY <2>1, <2>2 DEF WireOK, ReceivedOK, IsRun
  <1>2. CASE sendHeader
    <2>1. /\ UNCHANGED <<first, end, length, offset, size, bytesRead, received>>
          /\ pc = "header" /\ wire' = <<>>
      BY <1>2 DEF sendHeader, sourceVars
    <2>2. pc' = "data" \/ (pc' = "close" /\ result' = "SOCKET_WRITE_ERROR")
      BY <1>2 DEF sendHeader
    <2>3. IsRun(wire', offset) /\ Len(wire') = 0
      BY <2>1 DEF IsRun
    <2>4. WireOK'
      BY <2>1, <2>2, <2>3 DEF WireOK
    <2>5. ReceivedOK'
      BY <2>1, <2>2 DEF ReceivedOK
    <2> QED BY <2>1, <2>4, <2>5
  <1>3. CASE sendData
    <2> DEFINE n == Smaller(PhysicalRead, IF length > SeekPos THEN length - SeekPos ELSE 0)
               got == numReadOf(n)
    <2>1. /\ UNCHANGED <<first, end, length, offset, size, received>>
          /\ pc = "data"
      BY <1>3 DEF sendData
    <2>2. IsRun(wire, offset) /\ Len(wire) \in Nat /\ Len(wire) <= size /\ bytesRead = Len(wire)
      BY <2>1 DEF WireOK, IsRun
    <2>3. CASE pc' = "sent" /\ UNCHANGED <<bytesRead, wire, result>>
      BY <2>1, <2>2, <2>3 DEF WireOK, ReceivedOK, IsRun
    <2>4. CASE pc' = "failed" /\ UNCHANGED <<bytesRead, wire, result>>
      BY <2>1, <2>2, <2>4 DEF WireOK, ReceivedOK, IsRun
    <2>5. CASE /\ n > 0 /\ got > 0 /\ bytesRead' = bytesRead + got
               /\ \/ wire' = wire \o ReadFrom(got) /\ UNCHANGED <<pc, result>>
                  \/ /\ \E k \in 0..(got - 1) : wire' = wire \o SubSeq(ReadFrom(got), 1, k)
                     /\ result' = "SOCKET_WRITE_ERROR" /\ pc' = "close"
      <3>1. n \in Nat
        BY <2>5, ReadIsNat
      <3>2. /\ got \in Nat /\ got <= size - bytesRead
            /\ IsRun(ReadFrom(got), offset + bytesRead) /\ Len(ReadFrom(got)) = got
        BY <2>2, <2>5, <3>1, ReadContinues
      <3> HIDE DEF n, got
      <3>3. CASE wire' = wire \o ReadFrom(got) /\ UNCHANGED <<pc, result>>
        <4>1. IsRun(wire', offset) /\ Len(wire') = Len(wire) + got
          BY <2>2, <3>2, <3>3, RunsJoin
        <4> QED BY <2>1, <2>2, <2>5, <3>2, <3>3, <4>1 DEF WireOK, ReceivedOK
      <3>4. CASE /\ \E k \in 0..(got - 1) : wire' = wire \o SubSeq(ReadFrom(got), 1, k)
                 /\ result' = "SOCKET_WRITE_ERROR" /\ pc' = "close"
        <4>1. PICK k \in 0..(got - 1) : wire' = wire \o SubSeq(ReadFrom(got), 1, k)
          BY <3>4
        <4>2. IsRun(SubSeq(ReadFrom(got), 1, k), offset + bytesRead)
              /\ Len(SubSeq(ReadFrom(got), 1, k)) = k
          BY <2>2, <3>2, RunsCut
        <4>3. IsRun(wire', offset) /\ Len(wire') = Len(wire) + k
          BY <2>2, <4>1, <4>2, RunsJoin
        <4> QED BY <2>1, <2>2, <2>5, <3>2, <3>4, <4>3 DEF WireOK, ReceivedOK
      <3> QED BY <2>5, <3>3, <3>4
    <2> HIDE DEF n, got
    <2> QED BY <1>3, <2>3, <2>4, <2>5 DEF sendData, readFails, n, got
  <1>4. CASE sent
    <2>1. UNCHANGED <<first, end, length, offset, size, bytesRead, wire, received>>
      BY <1>4 DEF sent, sourceVars
    <2>2. pc \in {"data", "sent"}
      BY <1>4 DEF sent
    <2>3. \/ pc' = "close" /\ result' = "BYTE_SOURCE_READ_ERROR"
          \/ pc' = "failed"
          \/ pc' = "close" /\ Len(wire) = size
      BY <1>4 DEF sent
    <2> QED BY <2>1, <2>2, <2>3 DEF WireOK, ReceivedOK, IsRun
  <1>5. CASE closeSource
    <2>1. /\ UNCHANGED <<first, end, length, offset, size, bytesRead, wire, result>>
          /\ pc = "close"
      BY <1>5 DEF closeSource
    <2>2. IsRun(wire, offset) /\ Len(wire) \in Nat /\ Len(wire) <= size
          /\ IsRun(received, first) /\ offset = first + Len(received)
      BY <2>1 DEF WireOK, ReceivedOK, IsRun
    <2>3. PICK k \in 0..Len(wire) : /\ result = "OK" => k = Len(wire)
                                    /\ received' = received \o SubSeq(wire, 1, k)
      BY <1>5 DEF closeSource
    <2>4. IsRun(SubSeq(wire, 1, k), offset) /\ Len(SubSeq(wire, 1, k)) = k
      BY <2>2, RunsCut
    <2>5. IsRun(received', first) /\ Len(received') = Len(received) + k
      BY <2>2, <2>3, <2>4, RunsJoin
    <2>6. Len(received) \in Nat
      BY <2>2 DEF IsRun
    <2>7. \/ pc' = "end" /\ result = "OK"
          \/ pc' = "checkpoint" /\ result # "OK"
      BY <1>5 DEF closeSource
    <2>8. SourceOK'
      BY <2>1
    <2>9. WireOK'
      BY <2>7 DEF WireOK
    <2>10. ReceivedOK'
      <3>1. CASE pc' = "end"
        <4>1. k = size
          BY <2>1, <2>3, <2>7, <3>1 DEF WireOK
        <4> QED BY <2>1, <2>2, <2>5, <2>6, <3>1, <4>1 DEF ReceivedOK
      <3>2. CASE pc' = "checkpoint"
        BY <2>1, <2>2, <2>3, <2>5, <2>6, <3>2 DEF ReceivedOK
      <3> QED BY <2>7, <3>1, <3>2
    <2> QED BY <2>8, <2>9, <2>10, Zenon
  <1>6. CASE again
    <2>1. /\ UNCHANGED <<first, end, length, bytesRead, wire, received, result>>
          /\ pc = "checkpoint" /\ pc' = "open"
          /\ offset' = offset + (Len(received) - (offset - first))
          /\ size' = size - (Len(received) - (offset - first))
      BY <1>6 DEF again, advanceOffset
    <2>2. Len(received) \in Nat
      BY DEF ReceivedOK, IsRun
    <2>3. offset - first <= Len(received) /\ Len(received) <= end - first
      BY <2>1 DEF ReceivedOK
    <2>4. SourceOK'
      BY <2>1, <2>2, <2>3
    <2>5. WireOK'
      BY <2>1 DEF WireOK
    <2>6. ReceivedOK'
      BY <2>1, <2>2, <2>3 DEF ReceivedOK
    <2> QED BY <2>4, <2>5, <2>6, Zenon
  <1>7. CASE shrink
    <2>1. /\ UNCHANGED <<first, end, offset, size, bytesRead, wire, received, result, pc>>
          /\ length' \in Nat
      BY <1>7 DEF shrink, sourceVars
    <2> QED BY <2>1 DEF WireOK, ReceivedOK, IsRun
  <1>8. CASE UNCHANGED vars
    BY <1>8 DEF vars, sourceVars, WireOK, ReceivedOK, IsRun
  <1> QED BY <1>1, <1>2, <1>3, <1>4, <1>5, <1>6, <1>7, <1>8 DEF Next

\* Every byte that the receiver writes of a block is written at its own position in the file,
\* for every size of file, block and buffer, aligned or not, however often the block is sent.
THEOREM BytesAlwaysInPlace == Spec => []BytesInPlace
  <1>1. IInv => BytesInPlace
    BY DEF IInv, ReceivedOK, IsRun, BytesInPlace
  <1> QED BY InitOK, NextOK, <1>1, PTL DEF Spec

\* A block that sendOneByteSource reports as sent has reached the receiver whole.
THEOREM BlockAlwaysWhole == Spec => []BlockIsWhole
  <1>1. IInv => BlockIsWhole
    BY DEF IInv, ReceivedOK, BlockIsWhole
  <1> QED BY InitOK, NextOK, <1>1, PTL DEF Spec

\* A whole number of blocks of d bytes that is at least x, for x bytes.
RoundedUp(x, d) == ((x + d - 1) \div d) * d

\* Rounding up gives no less, and no more than any whole number of blocks that suffices.
LEMMA RoundingUp ==
    ASSUME NEW d \in Nat \ {0}, NEW x \in Nat, NEW b \in Nat, b % d = 0, x <= b
    PROVE  RoundedUp(x, d) \in Nat /\ x <= RoundedUp(x, d) /\ RoundedUp(x, d) <= b
  <1> DEFINE q == (x + d - 1) \div d
             m == (x + d - 1) % d
             p == b \div d
  <1>1. q \in Nat /\ m \in 0..(d - 1) /\ x + d - 1 = d * q + m
    OBVIOUS
  <1>2. p \in Nat /\ b = d * p
    OBVIOUS
  <1> HIDE DEF q, m, p
  <1>3. q * d = d * q /\ d * q \in Nat
    BY <1>1
  <1>4. x <= q * d
    BY <1>1, <1>3
  <1>5. q <= p
    <2>1. SUFFICES ASSUME q >= p + 1 PROVE FALSE
      BY <1>1, <1>2
    <2>2. d * q >= d * (p + 1)
      BY <1>1, <1>2, <2>1
    <2>3. d * (p + 1) = b + d
      BY <1>2
    <2> QED BY <1>1, <1>3, <2>2, <2>3
  <1>6. d * q <= d * p
    BY <1>1, <1>2, <1>5
  <1> QED BY <1>1, <1>2, <1>3, <1>4, <1>6 DEF RoundedUp, q

\* The source has a descriptor while a block is sent.
LEMMA OpenKept ==
    /\ Init => OpenOK
    /\ OpenOK /\ [Next]_vars => OpenOK'
  <1>1. Init => OpenOK
    BY DEF Init, OpenOK
  <1>2. ASSUME OpenOK, [Next]_vars PROVE OpenOK'
    <2> USE DEF OpenOK, NoFd, OwnFd, CallersFd
    <2>1. CASE open
      BY <1>2, <2>1 DEF open, openForRead
    <2>2. CASE sendHeader
      BY <1>2, <2>2 DEF sendHeader, sourceVars
    <2>3. CASE sendData
      BY <1>2, <2>3 DEF sendData, readFails
    <2>4. CASE sent
      BY <1>2, <2>4 DEF sent
    <2>5. CASE closeSource
      BY <1>2, <2>5 DEF closeSource
    <2>6. CASE again
      BY <1>2, <2>6 DEF again
    <2>7. CASE shrink
      BY <1>2, <2>7 DEF shrink, sourceVars
    <2>8. CASE UNCHANGED vars
      BY <1>2, <2>8 DEF vars, sourceVars
    <2> QED BY <1>2, <2>1, <2>2, <2>3, <2>4, <2>5, <2>6, <2>7, <2>8 DEF Next
  <1> QED BY <1>1, <1>2

\* A read asks for some byte of the block, and for no more than the buffer holds, for every
\* size of disk block and buffer: rounding up to whole disk blocks stays within a buffer that
\* is made of whole disk blocks.
THEOREM ReadsAlwaysFit == Spec => []ReadsFit
  <1>1. IInv /\ OpenOK => ReadsFit
    <2> SUFFICES ASSUME IInv, OpenOK, pc = "data", ~finished
                 PROVE  /\ LogicalRead > 0 /\ PhysicalRead <= BufferSize
                        /\ OffsetRemainder + LogicalRead <= PhysicalRead
      BY DEF ReadsFit
    <2>1. bytesRead \in Nat /\ size \in Nat /\ offset \in Nat /\ bytesRead < size
      BY DEF IInv, SourceOK, WireOK, IsRun, OpenOK, finished, hasError
    <2>2. /\ OffsetRemainder \in Nat /\ OffsetRemainder < BufferSize
          /\ DirectReads \/ OffsetRemainder = 0
      <3>1. CASE DirectReads
        <4>1. (offset + bytesRead) % DiskBlockSize \in 0..(DiskBlockSize - 1)
          BY <2>1, SizesAssumption
        <4>2. DiskBlockSize <= BufferSize
          <5>1. SUFFICES ASSUME BufferSize < DiskBlockSize PROVE FALSE
            BY SizesAssumption
          <5>2. BufferSize % DiskBlockSize = BufferSize
            BY <5>1, SizesAssumption
          <5> QED BY <5>2, SizesAssumption
        <4> QED BY <3>1, <4>1, <4>2, SizesAssumption DEF OffsetRemainder
      <3>2. CASE ~DirectReads
        BY <3>2, SizesAssumption DEF OffsetRemainder
      <3> QED BY <3>1, <3>2
    <2>3. /\ LogicalRead \in Nat /\ LogicalRead > 0
          /\ LogicalRead + OffsetRemainder <= BufferSize
      BY <2>1, <2>2, SizesAssumption DEF LogicalRead, Smaller
    <2>4. CASE DirectReads
      <3>1. PhysicalRead = RoundedUp(LogicalRead + OffsetRemainder, DiskBlockSize)
        BY <2>4 DEF PhysicalRead, RoundedUp
      <3>2. LogicalRead + OffsetRemainder \in Nat
        BY <2>2, <2>3
      <3>3. /\ PhysicalRead \in Nat /\ PhysicalRead <= BufferSize
            /\ LogicalRead + OffsetRemainder <= PhysicalRead
        BY <2>3, <3>1, <3>2, RoundingUp, SizesAssumption
      <3> QED BY <2>2, <2>3, <3>3
    <2>5. CASE ~DirectReads
      <3>1. OffsetRemainder = 0 /\ PhysicalRead = LogicalRead
        BY <2>2, <2>5 DEF PhysicalRead
      <3> QED BY <2>3, <3>1
    <2> QED BY <2>4, <2>5
  <1> QED BY InitOK, NextOK, OpenKept, <1>1, PTL DEF Spec
=============================================================================
