--------------------------- MODULE TransferProofs ---------------------------
(***************************************************************************)
(* Proofs about a transfer, for any number of ports, blocks, bytes, faults *)
(* and retries, in every mode of verification.                             *)
(*                                                                         *)
(* The threads use the histories only as ThreadTransferHistory specifies:  *)
(* what is proved of HistorySpec holds of the transfer.  The one thing a   *)
(* history asks of its input is that a checkpoint claims no bytes past the *)
(* end of a block; Traffic says so of every checkpoint on its way from the *)
(* receiver thread that made it to the sender thread that applies it.      *)
(***************************************************************************)
EXTENDS Transfer, ThreadTransferHistoryProofs, FiniteSetTheorems

\* The checkpoints that claim no bytes past the end of a block, whatever the
\* number of blocks they count.
WellFormed ==
    {c \in CheckpointRecords :
        /\ c.offset + c.receivedBytes <= BlockSize
        /\ c.seqId \in Blocks \/ c = NoPartialBlock(c.numBlocks)}

PortCheckpoints == [port : Threads, checkpoint : WellFormed]

BlockCmds ==
    {m \in [cmd : {"FILE"}, block : Blocks, offset : Nat, bytes : Nat, whole : BOOLEAN] :
        m.offset + m.bytes <= BlockSize}

SenderCmds == [cmd : {"SETTINGS", "DONE", "FILE_HEADER_CUT"}] \cup BlockCmds

ReceiverCmds ==
    [cmd : {"WAIT", "DONE", "TAG", "ABORT", "ABORT_CUT", "ERR_CUT"}]
    \cup [cmd : {"LOCAL_CHECKPOINT"}, checkpoint : WellFormed]
    \cup [cmd : {"ERR"}, checkpoints : Seq(PortCheckpoints)]

\* What is on its way between the two sides.
Traffic ==
    /\ toReceiver \in [Threads -> Seq(SenderCmds)]
    /\ toSender \in [Threads -> Seq(ReceiverCmds)]
    /\ errCheckpoints \in [Threads -> Seq(PortCheckpoints)]
    /\ newCheckpoints \in [Threads -> Seq(PortCheckpoints)]
    /\ checkpoints \in Seq(PortCheckpoints)
    /\ checkpoint \in [Threads -> WellFormed]
    /\ blocksWaiting \in [Threads -> Seq(BlockCmds)]
    /\ checkpointIndex \in [Threads -> Nat]
    /\ pendingCheckpointIndex \in [Threads -> Nat]

\* A thread inside sendBlocks holds a source.
HandsOK ==
    /\ senderState \in [Threads -> SenderStates]
    /\ \A t \in Threads : senderState[t] \in {"SENDING", "SENT"} => hand[t] \in Blocks
----------------------------------------------------------------------------
(* Checkpoints and commands *)

\* A well-formed checkpoint that does not count too much is plausible.
LEMMA WellFormedIsPlausible ==
    ASSUME NEW c \in WellFormed, c.numBlocks <= MaxNumBlocks
    PROVE  c \in PlausibleCheckpoints
<1> USE BlocksAssumption, SizesAssumption
<1>1. /\ c.numBlocks \in 0..MaxNumBlocks /\ c.offset \in 0..BlockSize
      /\ c.receivedBytes \in 0..BlockSize
  BY DEF WellFormed, CheckpointRecords
<1>2. CASE c.seqId \in Blocks
  <2>1. c = PartialBlock(c.numBlocks, c.seqId, c.offset, c.receivedBytes)
    BY DEF PartialBlock, WellFormed, CheckpointRecords
  <2> QED
    BY <1>1, <1>2, <2>1 DEF PlausibleCheckpoints, Checkpoints, WellFormed
<1>3. CASE c = NoPartialBlock(c.numBlocks)
  BY <1>1, <1>3 DEF PlausibleCheckpoints, Checkpoints, WellFormed
<1> QED
  BY <1>2, <1>3 DEF WellFormed

LEMMA NoPartialBlockWellFormed ==
    ASSUME NEW n \in Nat
    PROVE  NoPartialBlock(n) \in WellFormed
BY SizesAssumption DEF WellFormed, NoPartialBlock, CheckpointRecords

\* The fields of a block on the wire.
LEMMA BlockCmdFields ==
    ASSUME NEW m \in BlockCmds
    PROVE  /\ m.cmd = "FILE" /\ m.block \in Blocks /\ m.block \in Nat
           /\ m.offset \in Nat /\ m.bytes \in Nat /\ m.whole \in BOOLEAN
           /\ m.offset + m.bytes <= BlockSize
<1>1. /\ m.cmd = "FILE" /\ m.block \in Blocks /\ m.offset \in Nat /\ m.bytes \in Nat
      /\ m.whole \in BOOLEAN /\ m.offset + m.bytes <= BlockSize
  BY DEF BlockCmds
<1>2. m.block \in Nat
  BY <1>1, BlocksAssumption, Zenon
<1> QED
  BY <1>1, <1>2

LEMMA PartOfWellFormed ==
    ASSUME NEW c \in WellFormed, NEW m \in BlockCmds, NEW k \in Nat, k <= m.bytes
    PROVE  PartOf(c, m, k) \in WellFormed
<1>1. c.numBlocks \in Nat
  BY DEF WellFormed, CheckpointRecords
<1>2. /\ m.block \in Blocks /\ m.block \in Nat /\ m.offset \in Nat
      /\ m.offset + k <= BlockSize
  BY BlockCmdFields, SizesAssumption
<1>3. PartialBlock(c.numBlocks, m.block, m.offset, k) \in WellFormed
  <2> DEFINE d == PartialBlock(c.numBlocks, m.block, m.offset, k)
  <2>1. /\ d \in CheckpointRecords /\ d.seqId = m.block
        /\ d.offset = m.offset /\ d.receivedBytes = k
    BY <1>1, <1>2 DEF CheckpointRecords, PartialBlock
  <2> QED
    BY <1>2, <2>1 DEF WellFormed
<1> QED
  BY <1>1, <1>3, NoPartialBlockWellFormed DEF PartOf

\* A piece of a command is a command.
LEMMA PiecesOfSenderCmds ==
    ASSUME NEW m \in SenderCmds
    PROVE  Pieces(m) \subseteq SenderCmds
<1>1. CASE m \in BlockCmds
  <2>1. m.cmd = "FILE" /\ m.block \in Blocks /\ m.offset \in Nat /\ m.bytes \in Nat
        /\ m.offset + m.bytes <= BlockSize
    BY <1>1, BlockCmdFields
  <2>2. \A k \in {n \in 0..BlockSize : n < m.bytes} :
           FileCmd(m.block, m.offset, k, FALSE) \in BlockCmds
    BY <2>1, SizesAssumption DEF FileCmd, BlockCmds
  <2>3. Cmd("FILE_HEADER_CUT") \in SenderCmds
    BY DEF Cmd, SenderCmds
  <2>4. Pieces(m) = {FileCmd(m.block, m.offset, k, FALSE) :
                       k \in {n \in 0..BlockSize : n < m.bytes}}
                    \cup {Cmd("FILE_HEADER_CUT")}
    BY <2>1 DEF Pieces
  <2> QED
    BY <2>2, <2>3, <2>4, Zenon DEF SenderCmds
<1>2. CASE m \in [cmd : {"SETTINGS", "DONE", "FILE_HEADER_CUT"}]
  BY <1>2, Zenon DEF Pieces
<1> QED
  BY <1>1, <1>2 DEF SenderCmds

LEMMA PiecesOfReceiverCmds ==
    ASSUME NEW m \in ReceiverCmds
    PROVE  Pieces(m) \subseteq ReceiverCmds
<1>1. Cmd("ERR_CUT") \in ReceiverCmds /\ Cmd("ABORT_CUT") \in ReceiverCmds
  BY DEF Cmd, ReceiverCmds
<1>2. m.cmd # "FILE"
  BY DEF ReceiverCmds
<1>3. Pieces(m) \subseteq {Cmd("ERR_CUT"), Cmd("ABORT_CUT")}
  BY <1>2, Zenon DEF Pieces
<1> QED
  BY <1>1, <1>3

\* What is left of a sequence of commands is a sequence of commands.
LEMMA RemainsAreCmds ==
    ASSUME NEW S, \A m \in S : Pieces(m) \subseteq S,
           NEW s \in Seq(S), NEW r \in Remains(s)
    PROVE  r \in Seq(S)
<1>1. CASE \E n \in 0..Len(s) : r = SubSeq(s, 1, n)
  BY <1>1, Prefix
<1>2. ASSUME NEW n \in 1..Len(s), NEW p \in Pieces(s[n]), r = Append(SubSeq(s, 1, n - 1), p)
      PROVE  r \in Seq(S)
  <2>1. Len(s) \in Nat /\ s[n] \in S
    BY <1>2, LenProperties
  <2>2. n - 1 \in 0..Len(s) /\ p \in S
    BY <1>2, <2>1
  <2>3. SubSeq(s, 1, n - 1) \in Seq(S)
    BY <2>2, Prefix
  <2> QED
    BY <1>2, <2>2, <2>3, AppendProperties
<1> QED
  BY <1>1, <1>2, Zenon DEF Remains
----------------------------------------------------------------------------
(* The connections *)

\* The part of Traffic that the two ends of a connection change.
Streams ==
    /\ toReceiver \in [Threads -> Seq(SenderCmds)]
    /\ toSender \in [Threads -> Seq(ReceiverCmds)]

LEMMA SenderCmdNames ==
    \A c \in {"SETTINGS", "DONE", "FILE_HEADER_CUT"} : Cmd(c) \in SenderCmds
BY DEF Cmd, SenderCmds

LEMMA ReceiverCmdNames ==
    \A c \in {"WAIT", "DONE", "TAG", "ABORT", "ABORT_CUT", "ERR_CUT"} : Cmd(c) \in ReceiverCmds
BY DEF Cmd, ReceiverCmds

\* Appending to, taking from and clearing the stream of a port.
LEMMA StreamOps ==
    ASSUME NEW S, NEW f \in [Threads -> Seq(S)], NEW t \in Threads
    PROVE  /\ [f EXCEPT ![t] = <<>>] \in [Threads -> Seq(S)]
           /\ \A m \in S : [f EXCEPT ![t] = Append(@, m)] \in [Threads -> Seq(S)]
           /\ f[t] # <<>> => /\ [f EXCEPT ![t] = Tail(@)] \in [Threads -> Seq(S)]
                             /\ Head(f[t]) \in S
<1>1. <<>> \in Seq(S) /\ \A s \in Seq(S), m \in S : Append(s, m) \in Seq(S)
  BY EmptySeq, AppendProperties
<1>2. \A s \in Seq(S) : s # <<>> => Tail(s) \in Seq(S) /\ Head(s) \in S
  BY HeadTailProperties
<1> QED
  BY <1>1, <1>2

\* Whatever the ends of the connection and the network do to it.
LEMMA StreamSteps ==
    ASSUME Streams, NEW t \in Threads,
           \/ SenderConnects(t) \/ SenderRefused(t) \/ SenderHangsUp(t)
           \/ SenderWriteFails(t) \/ SenderReadFails(t)
           \/ \E m \in SenderCmds : SenderWrites(t, m) \/ SenderWritesPart(t, m)
           \/ \E m \in ReceiverCmds : SenderReads(t, m) \/ ReceiverWrites(t, m)
           \/ \E m \in SenderCmds : ReceiverReads(t, m)
           \/ ReceiverAccepts(t) \/ ReceiverHangsUp(t) \/ ReceiverStopsListening(t)
           \/ Break(t) \/ UNCHANGED <<toReceiver, toSender>>
    PROVE  Streams'
<1> USE DEF Streams
<1>a. /\ [toReceiver EXCEPT ![t] = <<>>] \in [Threads -> Seq(SenderCmds)]
      /\ [toSender EXCEPT ![t] = <<>>] \in [Threads -> Seq(ReceiverCmds)]
      /\ \A m \in SenderCmds :
            [toReceiver EXCEPT ![t] = Append(@, m)] \in [Threads -> Seq(SenderCmds)]
      /\ \A m \in ReceiverCmds :
            [toSender EXCEPT ![t] = Append(@, m)] \in [Threads -> Seq(ReceiverCmds)]
      /\ toReceiver[t] # <<>> => [toReceiver EXCEPT ![t] = Tail(@)] \in [Threads -> Seq(SenderCmds)]
      /\ toSender[t] # <<>> => [toSender EXCEPT ![t] = Tail(@)] \in [Threads -> Seq(ReceiverCmds)]
  BY StreamOps
<1>1. CASE SenderConnects(t) \/ SenderRefused(t) \/ SenderHangsUp(t)
  BY <1>1, <1>a, Zenon DEF SenderConnects, SenderRefused, SenderHangsUp
<1>2. CASE SenderWriteFails(t) \/ SenderReadFails(t) \/ UNCHANGED <<toReceiver, toSender>>
  BY <1>2 DEF SenderWriteFails, SenderReadFails, linkVars
<1>3. ASSUME NEW m \in SenderCmds, SenderWrites(t, m) PROVE Streams'
  BY <1>3, <1>a DEF SenderWrites
<1>4. ASSUME NEW m \in SenderCmds, SenderWritesPart(t, m) PROVE Streams'
  <2>1. Pieces(m) \subseteq SenderCmds
    BY PiecesOfSenderCmds
  <2> QED
    BY <2>1, <1>4, <1>a DEF SenderWritesPart
<1>5. ASSUME NEW m \in ReceiverCmds, SenderReads(t, m) \/ ReceiverWrites(t, m) PROVE Streams'
  BY <1>5, <1>a, Zenon DEF SenderReads, ReceiverWrites
<1>6. ASSUME NEW m \in SenderCmds, ReceiverReads(t, m) PROVE Streams'
  BY <1>6, <1>a DEF ReceiverReads
<1>7. CASE ReceiverAccepts(t) \/ ReceiverHangsUp(t) \/ ReceiverStopsListening(t)
  BY <1>7, <1>a, Zenon DEF ReceiverAccepts, ReceiverHangsUp, ReceiverStopsListening
<1>8. CASE Break(t)
  <2>1. Remains(toReceiver[t]) \subseteq Seq(SenderCmds)
    BY PiecesOfSenderCmds, RemainsAreCmds
  <2>2. Remains(toSender[t]) \subseteq Seq(ReceiverCmds)
    BY PiecesOfReceiverCmds, RemainsAreCmds
  <2> QED
    BY <1>8, <2>1, <2>2 DEF Break
<1> QED
  BY <1>1, <1>2, <1>3, <1>4, <1>5, <1>6, <1>7, <1>8
----------------------------------------------------------------------------
(* The traffic stays well-formed *)

\* What the receiver keeps for itself.
ReceiverRecords ==
    /\ newCheckpoints \in [Threads -> Seq(PortCheckpoints)]
    /\ checkpoints \in Seq(PortCheckpoints)
    /\ checkpoint \in [Threads -> WellFormed]
    /\ blocksWaiting \in [Threads -> Seq(BlockCmds)]
    /\ checkpointIndex \in [Threads -> Nat]
    /\ pendingCheckpointIndex \in [Threads -> Nat]

LEMMA TrafficParts ==
    Traffic <=> /\ Streams /\ ReceiverRecords
                /\ errCheckpoints \in [Threads -> Seq(PortCheckpoints)]
BY Zenon DEF Traffic, Streams, ReceiverRecords

LEMMA InitTraffic == TransferInit => Traffic /\ HandsOK
<1> SUFFICES ASSUME TransferInit PROVE Traffic /\ HandsOK
  OBVIOUS
<1> USE DEF TransferInit, LinkInit, SenderInit, ReceiverInit
<1>1. NoPartialBlock(0) \in WellFormed
  BY NoPartialBlockWellFormed
<1>2. /\ <<>> \in Seq(SenderCmds) /\ <<>> \in Seq(ReceiverCmds)
      /\ <<>> \in Seq(PortCheckpoints) /\ <<>> \in Seq(BlockCmds)
  BY EmptySeq
<1>3. Traffic
  BY <1>1, <1>2 DEF Traffic
<1>4. HandsOK
  BY DEF HandsOK, SenderStates
<1> QED
  BY <1>3, <1>4

\* The block that a sender thread writes lies within its file.
LEMMA BlockInHandOK ==
    ASSUME HistoryTypeOK, NEW t \in Threads, hand[t] \in Blocks
    PROVE  BlockInHand(t) \in SenderCmds
<1>1. offset[hand[t]] \in 0..BlockSize
  BY DEF HistoryTypeOK
<1>2. BlockInHand(t) \in BlockCmds
  BY <1>1, SizesAssumption DEF BlockInHand, FileCmd, BlockCmds
<1> QED
  BY <1>2 DEF SenderCmds

LEMMA SenderTraffic ==
    ASSUME Traffic, HandsOK, HistoryTypeOK, NEW t \in Threads, SenderStep(t),
           UNCHANGED receiverVars
    PROVE  Traffic'
<1>r. Streams /\ ReceiverRecords' /\ errCheckpoints \in [Threads -> Seq(PortCheckpoints)]
  BY TrafficParts DEF ReceiverRecords, receiverVars
<1>s. SUFFICES Streams' /\ errCheckpoints' \in [Threads -> Seq(PortCheckpoints)]
  BY <1>r, TrafficParts, Zenon DEF Traffic, Streams, ReceiverRecords
<1>c. /\ Cmd("SETTINGS") \in SenderCmds /\ Cmd("DONE") \in SenderCmds
      /\ \A c \in {"WAIT", "DONE", "TAG", "ABORT", "ABORT_CUT", "ERR_CUT"} :
            Cmd(c) \in ReceiverCmds
  BY SenderCmdNames, ReceiverCmdNames
<1>1. CASE Connect(t) \/ ConnectFails(t) \/ GiveUpReconnecting(t)
  BY <1>1, <1>r, StreamSteps, Zenon DEF Connect, ConnectFails, GiveUpReconnecting
<1>2. CASE ReadLocalCheckpoint(t)
  <2>1. PICK c \in Checkpoints : SenderReads(t, CheckpointCmd(c))
    BY <1>2 DEF ReadLocalCheckpoint
  <2>2. CheckpointCmd(c) \in ReceiverCmds
    BY <2>1, <1>r, StreamOps DEF SenderReads, Streams
  <2> QED
    BY <1>2, <2>1, <2>2, <1>r, StreamSteps DEF ReadLocalCheckpoint
<1>3. CASE ReadLocalCheckpointFails(t)
  BY <1>3, <1>r, StreamSteps DEF ReadLocalCheckpointFails
<1>4. CASE SendSettings(t) \/ SendDoneCmd(t)
  BY <1>4, <1>c, <1>r, StreamSteps, Zenon DEF SendSettings, SendDoneCmd
<1>5. CASE TakeSource(t) \/ SkipSource(t) \/ NoSourceLeft(t) \/ AddSource(t) \/ NoAbortFound(t)
           \/ OwnerEnded(t) \/ ErrCmdHandled(t) \/ StopEarly(t)
  <2>1. UNCHANGED <<toReceiver, toSender, errCheckpoints>>
    BY <1>5, Zenon DEF TakeSource, SkipSource, NoSourceLeft, AddSource, NoAbortFound, OwnerEnded,
                ErrCmdHandled, StopEarly, linkVars, senderVars
  <2> QED
    BY <2>1, <1>r, StreamSteps
<1>6. CASE SendOneByteSource(t)
  <2>1. BlockInHand(t) \in SenderCmds
    BY <1>6, BlockInHandOK, Zenon DEF SendOneByteSource, At, HandsOK
  <2> QED
    BY <1>6, <2>1, <1>r, StreamSteps DEF SendOneByteSource
<1>7. CASE ProcessAbortCmd(t) \/ ReadReceiverCmdFails(t) \/ ProcessWaitCmd(t)
           \/ ExpectEndOfStream(t)
  BY <1>7, <1>c, <1>r, StreamSteps, Zenon
  DEF ProcessAbortCmd, ReadReceiverCmdFails, ProcessWaitCmd, ExpectEndOfStream
<1>8. CASE ProcessDoneCmd(t)
  <2>1. /\ toSender[t] # <<>> => [toSender EXCEPT ![t] = Tail(@)] \in [Threads -> Seq(ReceiverCmds)]
        /\ [toReceiver EXCEPT ![t] = Append(@, Cmd("DONE"))] \in [Threads -> Seq(SenderCmds)]
    BY <1>r, <1>c, StreamOps DEF Streams
  <2> QED
    BY <1>8, <1>r, <2>1 DEF ProcessDoneCmd, Streams
<1>9. CASE ProcessErrCmd(t)
  <2>1. toSender[t] # <<>> /\ Head(toSender[t]) \in ReceiverCmds
    BY <1>9, <1>r, StreamOps DEF ProcessErrCmd, Streams
  <2>2. Head(toSender[t]).cmd = "ERR" => Head(toSender[t]).checkpoints \in Seq(PortCheckpoints)
    BY <2>1 DEF ReceiverCmds
  <2>3. Streams'
    BY <1>9, <1>c, <2>1, <1>r, StreamSteps, Zenon DEF ProcessErrCmd
  <2>4. errCheckpoints' \in [Threads -> Seq(PortCheckpoints)]
    BY <1>9, <2>2, <1>r, Zenon DEF ProcessErrCmd
  <2> QED
    BY <2>3, <2>4
<1>10. CASE HandleGlobalCheckpoint(t)
  <2>1. errCheckpoints' \in [Threads -> Seq(PortCheckpoints)]
    BY <1>10, <1>r, StreamOps DEF HandleGlobalCheckpoint
  <2> QED
    BY <1>10, <1>r, <2>1, StreamSteps DEF HandleGlobalCheckpoint, linkVars
<1>11. CASE Exit(t)
  BY <1>11, <1>r, StreamSteps DEF Exit
<1> QED
  BY <1>1, <1>2, <1>3, <1>4, <1>5, <1>6, <1>7, <1>8, <1>9, <1>10, <1>11 DEF SenderStep

\* The receiver counts the blocks of a connection when their tag comes.
LEMMA BlocksVerifiedOK ==
    ASSUME ReceiverRecords, NEW t \in Threads, ReceivedBlocksVerified(t),
           UNCHANGED <<newCheckpoints, checkpoints, checkpointIndex, pendingCheckpointIndex>>
    PROVE  ReceiverRecords'
<1>1. checkpoint[t] \in WellFormed /\ blocksWaiting[t] \in Seq(BlockCmds)
  BY DEF ReceiverRecords
<1>2. Len(blocksWaiting[t]) \in Nat
  BY <1>1, LenProperties
<1> DEFINE n == Len(blocksWaiting[t])
           d == [checkpoint[t] EXCEPT !.numBlocks = @ + n]
<1>3. d \in WellFormed
  <2>1. /\ d \in CheckpointRecords /\ d.numBlocks = checkpoint[t].numBlocks + n
        /\ d.seqId = checkpoint[t].seqId /\ d.offset = checkpoint[t].offset
        /\ d.receivedBytes = checkpoint[t].receivedBytes
    BY <1>1, <1>2 DEF WellFormed, CheckpointRecords
  <2>2. checkpoint[t] = NoPartialBlock(checkpoint[t].numBlocks) => d = NoPartialBlock(d.numBlocks)
    BY <2>1 DEF NoPartialBlock, CheckpointRecords
  <2> QED
    BY <1>1, <2>1, <2>2, Zenon DEF WellFormed
<1>4. checkpoint' = [checkpoint EXCEPT ![t] = d]
  BY DEF ReceivedBlocksVerified
<1>5. checkpoint' \in [Threads -> WellFormed]
  BY <1>3, <1>4 DEF ReceiverRecords
<1>6. blocksWaiting' \in [Threads -> Seq(BlockCmds)]
  BY StreamOps DEF ReceivedBlocksVerified, ReceiverRecords
<1> QED
  BY <1>5, <1>6 DEF ReceiverRecords

LEMMA ReceiverTraffic ==
    ASSUME Traffic, NEW t \in Threads,
           ReceiverStep(t) \/ AcceptFails(t), UNCHANGED errCheckpoints
    PROVE  Traffic'
<1>r. Streams /\ ReceiverRecords /\ errCheckpoints \in [Threads -> Seq(PortCheckpoints)]
  BY TrafficParts
<1>s. SUFFICES Streams' /\ ReceiverRecords'
  BY <1>r, Zenon DEF Traffic, Streams, ReceiverRecords
<1>c. /\ \A c \in {"SETTINGS", "DONE", "FILE_HEADER_CUT"} : Cmd(c) \in SenderCmds
      /\ \A c \in {"WAIT", "DONE", "TAG", "ABORT"} : Cmd(c) \in ReceiverCmds
  BY SenderCmdNames, ReceiverCmdNames
<1>k. /\ checkpoint[t] \in WellFormed /\ checkpoint[t].numBlocks \in Nat
      /\ \A n \in Nat : NoPartialBlock(n) \in WellFormed
      /\ \A n \in Nat : [checkpoint EXCEPT ![t] = NoPartialBlock(n)] \in [Threads -> WellFormed]
      /\ [blocksWaiting EXCEPT ![t] = <<>>] \in [Threads -> Seq(BlockCmds)]
      /\ [checkpointIndex EXCEPT ![t] = pendingCheckpointIndex[t]] \in [Threads -> Nat]
  BY <1>r, NoPartialBlockWellFormed, StreamOps, Zenon
     DEF ReceiverRecords, WellFormed, CheckpointRecords
<1>h. /\ toReceiver[t] # <<>> => Head(toReceiver[t]) \in SenderCmds
      /\ toReceiver[t] # <<>> /\ Head(toReceiver[t]).cmd = "FILE"
            => /\ Head(toReceiver[t]) \in BlockCmds
               /\ Head(toReceiver[t]).bytes \in Nat
  BY <1>r, StreamOps, BlockCmdFields DEF Streams, SenderCmds
<1>1. CASE AcceptFirstConnection(t) \/ StopWaitingForFirst(t) \/ AcceptFails(t)
           \/ FindAllFinished(t)
  <2>1. Streams'
    BY <1>1, <1>r, StreamSteps, Zenon
    DEF AcceptFirstConnection, StopWaitingForFirst, AcceptFails, FindAllFinished, linkVars
  <2>2. ReceiverRecords'
    BY <1>1, <1>r, Zenon
    DEF AcceptFirstConnection, StopWaitingForFirst, AcceptFails, FindAllFinished, linkVars,
        ReceiverRecords, blockVars, agreementVars
  <2> QED
    BY <2>1, <2>2
<1>2. CASE AcceptWithTimeout(t)
  <2>1. Streams'
    BY <1>2, <1>r, StreamSteps, Zenon DEF AcceptWithTimeout
  <2>2. ReceiverRecords'
    BY <1>2, <1>r DEF AcceptWithTimeout, ReceiverRecords, blockVars
  <2> QED
    BY <2>1, <2>2
<1>3. CASE SendLocalCheckpoint(t)
  <2>1. CheckpointCmd(checkpoint[t]) \in ReceiverCmds
    BY <1>k DEF CheckpointCmd, ReceiverCmds
  <2>2. Streams'
    BY <1>3, <2>1, <1>r, StreamSteps, Zenon DEF SendLocalCheckpoint
  <2>3. ReceiverRecords'
    BY <1>3, <1>k, <1>r, Zenon DEF SendLocalCheckpoint, AcceptAgain, ReceiverRecords, agreementVars
  <2> QED
    BY <2>2, <2>3
<1>4. CASE ReadNextCmdFails(t) \/ SendDoneToSender(t)
  <2>1. Streams'
    BY <1>4, <1>c, <1>r, StreamSteps, Zenon DEF ReadNextCmdFails, SendDoneToSender
  <2>2. ReceiverRecords'
    BY <1>4, <1>k, <1>r, Zenon
    DEF ReadNextCmdFails, SendDoneToSender, AcceptAgain, ReceiverRecords, agreementVars
  <2> QED
    BY <2>1, <2>2
<1>5. CASE ProcessSettingsCmd(t) \/ ProcessDoneFromSender(t)
  <2>1. Streams'
    BY <1>5, <1>c, <1>r, StreamSteps, Zenon DEF ProcessSettingsCmd, ProcessDoneFromSender
  <2>2. ReceiverRecords'
    BY <1>5, <1>k, <1>r, Zenon
    DEF ProcessSettingsCmd, ProcessDoneFromSender, ReceiverRecords, blockVars, receiverVars
  <2> QED
    BY <2>1, <2>2
<1>6. CASE ProcessFileCmd(t)
  <2> DEFINE m == Head(toReceiver[t])
  <2>1. m \in BlockCmds /\ m \in SenderCmds /\ ReceiverReads(t, m)
    BY <1>6, <1>h, Zenon DEF ProcessFileCmd
  <2>2. Streams'
    BY <2>1, <1>r, StreamSteps
  <2>3. [blocksWaiting EXCEPT ![t] = Append(@, m)] \in [Threads -> Seq(BlockCmds)]
    BY <2>1, <1>r, StreamOps DEF ReceiverRecords
  <2>7. Verified(checkpoint[t]) \in WellFormed /\ NoPartialBlock(checkpoint[t].numBlocks) \in WellFormed
    BY <1>k DEF Verified
  <2>8. \/ checkpoint' = [checkpoint EXCEPT ![t] = NoPartialBlock(checkpoint[t].numBlocks)]
        \/ checkpoint' = [checkpoint EXCEPT ![t] = Verified(checkpoint[t])]
    BY <1>6 DEF ProcessFileCmd
  <2>4. checkpoint' \in [Threads -> WellFormed]
    BY <2>7, <2>8, <1>r, Zenon DEF ReceiverRecords
  <2>5. blocksWaiting' \in [Threads -> Seq(BlockCmds)]
    BY <1>6, <2>3, <1>r, Zenon DEF ProcessFileCmd, ReceiverRecords
  <2>6. ReceiverRecords'
    BY <1>6, <2>4, <2>5, <1>k, <1>r, Zenon DEF ProcessFileCmd, ReceiverRecords
  <2> QED
    BY <2>2, <2>6
<1>7. CASE FileCmdCutInData(t)
  <2> DEFINE m == Head(toReceiver[t])
  <2>1. m \in BlockCmds /\ m.bytes \in Nat /\ m.bytes <= m.bytes
    BY <1>7, <1>h DEF FileCmdCutInData
  <2> HIDE DEF m
  <2>2. PartOf(checkpoint[t], m, m.bytes) \in WellFormed
    BY <2>1, <1>k, PartOfWellFormed
  <2> USE DEF m
  <2>3. checkpoint' \in [Threads -> WellFormed]
    BY <1>7, <2>2, <1>r DEF FileCmdCutInData, ReceiverRecords
  <2>4. ReceiverRecords'
    BY <1>7, <2>3, <1>k, <1>r, Zenon DEF FileCmdCutInData, AcceptAgain, ReceiverRecords
  <2>5. Streams'
    BY <1>7, <1>r, StreamSteps, Zenon DEF FileCmdCutInData
  <2> QED
    BY <2>4, <2>5
<1>8. CASE FileCmdCutInHeader(t)
  <2>1. Streams'
    BY <1>8, <1>r, StreamSteps, Zenon DEF FileCmdCutInHeader
  <2>2. ReceiverRecords'
    BY <1>8, <1>k, <1>r, Zenon DEF FileCmdCutInHeader, AcceptAgain, ReceiverRecords, agreementVars
  <2> QED
    BY <2>1, <2>2
<1>9. CASE FileWriteFails(t)
  <2> DEFINE m == Head(toReceiver[t])
  <2>1. m \in BlockCmds /\ m \in SenderCmds /\ m.bytes \in Nat /\ ReceiverReads(t, m)
    BY <1>9, <1>h DEF FileWriteFails
  <2> HIDE DEF m
  <2>2. \A k \in 0..m.bytes : PartOf(checkpoint[t], m, k) \in WellFormed
    BY <2>1, <1>k, PartOfWellFormed
  <2> USE DEF m
  <2>3. checkpoint' \in [Threads -> WellFormed]
    BY <1>9, <2>2, <1>r DEF FileWriteFails, ReceiverRecords
  <2>4. ReceiverRecords'
    BY <1>9, <2>3, <1>k, <1>r DEF FileWriteFails, ReceiverRecords
  <2>5. Streams'
    BY <2>1, <1>r, StreamSteps
  <2> QED
    BY <2>4, <2>5
<1>10. CASE ChecksumMismatch(t)
  <2>1. Streams'
    BY <1>10, <1>r, StreamOps DEF ChecksumMismatch, Streams
  <2>2. ReceiverRecords'
    BY <1>10, <1>k, <1>r DEF ChecksumMismatch, AcceptAgain, ReceiverRecords
  <2> QED
    BY <2>1, <2>2
<1>11. CASE TagVerified(t)
  <2>1. Streams'
    BY <1>11, <1>r, StreamSteps DEF TagVerified, linkVars
  <2>2. ReceiverRecords'
    BY <1>11, <1>r, BlocksVerifiedOK DEF TagVerified, agreementVars
  <2> QED
    BY <2>1, <2>2
<1>12. CASE FindNewCheckpoints(t)
  <2>1. Streams'
    BY <1>12, <1>r, StreamSteps DEF FindNewCheckpoints, linkVars
  <2>2. checkpoints \in Seq(PortCheckpoints) /\ checkpointIndex[t] \in Nat
    BY <1>r DEF ReceiverRecords
  <2>3. Undelivered(t) \in Seq(PortCheckpoints)
    <3>1. Len(checkpoints) \in Nat /\ \A i \in 1..Len(checkpoints) : checkpoints[i] \in PortCheckpoints
      BY <2>2, LenProperties
    <3>2. \A i \in (checkpointIndex[t] + 1)..Len(checkpoints) : checkpoints[i] \in PortCheckpoints
      BY <3>1, <2>2
    <3> QED
      BY <2>2, <3>1, <3>2, SubSeqProperties DEF Undelivered
  <2>4. ReceiverRecords'
    BY <1>12, <2>3, <1>r DEF FindNewCheckpoints, ReceiverRecords, blockVars
  <2> QED
    BY <2>1, <2>4
<1>13. CASE SendWaitCmd(t)
  <2>1. Streams'
    BY <1>13, <1>c, <1>r, StreamSteps, Zenon DEF SendWaitCmd
  <2>2. ReceiverRecords'
    BY <1>13, <1>k, <1>r, Zenon DEF SendWaitCmd, AcceptAgain, ReceiverRecords
  <2> QED
    BY <2>1, <2>2
<1>14. CASE SendGlobalCheckpoint(t)
  <2>1. newCheckpoints[t] \in Seq(PortCheckpoints)
    BY <1>r DEF ReceiverRecords
  <2>2. ErrCmd(newCheckpoints[t]) \in ReceiverCmds /\ Len(newCheckpoints[t]) \in Nat
    BY <2>1, LenProperties DEF ErrCmd, ReceiverCmds
  <2>3. Streams'
    BY <1>14, <2>2, <1>r, StreamSteps, Zenon DEF SendGlobalCheckpoint
  <2>5. checkpointIndex[t] + Len(newCheckpoints[t]) \in Nat
    BY <2>2, <1>r DEF ReceiverRecords
  <2>6. pendingCheckpointIndex' \in [Threads -> Nat]
    BY <1>14, <2>5, <1>r, Zenon DEF SendGlobalCheckpoint, ReceiverRecords
  <2>4. ReceiverRecords'
    BY <1>14, <2>6, <1>k, <1>r, Zenon DEF SendGlobalCheckpoint, AcceptAgain, ReceiverRecords
  <2> QED
    BY <2>3, <2>4
<1>15. CASE ReadDoneAck(t)
  <2>1. Streams'
    BY <1>15, <1>c, <1>r, StreamOps DEF ReadDoneAck, Streams
  <2>2. ReceiverRecords'
    BY <1>15, <1>r, BlocksVerifiedOK DEF ReadDoneAck, agreementVars
  <2> QED
    BY <2>1, <2>2
<1>16. CASE SendAbortCmd(t)
  <2>1. Streams'
    BY <1>16, <1>c, <1>r, StreamOps DEF SendAbortCmd, Streams
  <2>2. ReceiverRecords'
    BY <1>16, <1>r DEF SendAbortCmd, ReceiverRecords, blockVars, agreementVars
  <2> QED
    BY <2>1, <2>2
<1>17. CASE FinishWithError(t)
  <2>1. Streams'
    BY <1>17, <1>r, StreamSteps DEF FinishWithError
  <2>2. [port |-> t, checkpoint |-> checkpoint[t]] \in PortCheckpoints
    BY <1>k DEF PortCheckpoints
  <2>3. checkpoints' \in Seq(PortCheckpoints)
    BY <1>17, <2>2, <1>r, AppendProperties DEF FinishWithError, ReceiverRecords
  <2>4. ReceiverRecords'
    BY <1>17, <2>3, <1>r DEF FinishWithError, ReceiverRecords, blockVars
  <2> QED
    BY <2>1, <2>4
<1> QED
  BY <1>1, <1>2, <1>3, <1>4, <1>5, <1>6, <1>7, <1>8, <1>9, <1>10, <1>11, <1>12, <1>13, <1>14,
     <1>15, <1>16, <1>17 DEF ReceiverStep
----------------------------------------------------------------------------
(* The refinement *)

\* A state function that returns s leaves its thread in s, or in END.
LEMMA GotoState ==
    ASSUME NEW t \in Threads, NEW s, NEW error, Goto(t, s, error)
    PROVE  senderState' = [senderState EXCEPT ![t] = s]
           \/ senderState' = [senderState EXCEPT ![t] = "END"]
BY Zenon DEF Goto

LEMMA InitHands == TransferInit => HandsOK
BY DEF TransferInit, SenderInit, HandsOK, SenderStates

LEMMA SenderHands ==
    ASSUME HandsOK, HistoryTypeOK, NEW t \in Threads, SenderStep(t)
    PROVE  HandsOK'
<1> DEFINE Quiet == SenderStates \ {"SENDING", "SENT"}
<1>a. ASSUME NEW s \in Quiet, NEW error, Goto(t, s, error), UNCHANGED hand
      PROVE  HandsOK'
  BY <1>a, GotoState DEF HandsOK, SenderStates
<1>b. ASSUME UNCHANGED <<senderState, hand>>
      PROVE  HandsOK'
  BY <1>b DEF HandsOK
<1>c. ASSUME NEW s \in Quiet, senderState' = [senderState EXCEPT ![t] = s], UNCHANGED hand
      PROVE  HandsOK'
  BY <1>c DEF HandsOK, SenderStates
<1>1. CASE Connect(t) \/ ConnectFails(t) \/ GiveUpReconnecting(t) \/ ReadLocalCheckpointFails(t)
           \/ SendSettings(t) \/ SendDoneCmd(t)
  BY <1>1, <1>a, Zenon
  DEF Connect, ConnectFails, GiveUpReconnecting, ReadLocalCheckpointFails, SendSettings,
      SendDoneCmd, historyVars, SenderStates
<1>2. CASE ReadLocalCheckpoint(t)
  <2>1. UNCHANGED hand
    BY <1>2 DEF ReadLocalCheckpoint, SetLocalCheckpoint
  <2>2. \E s \in Quiet : \E error : Goto(t, s, error)
    BY <1>2, Zenon DEF ReadLocalCheckpoint, SenderStates
  <2> QED
    BY <1>a, <2>1, <2>2
<1>3. CASE TakeSource(t)
  <2>1. PICK b \in queue : hand' = [hand EXCEPT ![t] = b]
    BY <1>3, Zenon DEF TakeSource, GetNextSource
  <2>2. b \in Blocks /\ hand \in [Threads -> {None} \cup Blocks]
    BY DEF HistoryTypeOK
  <2>3. senderState' = [senderState EXCEPT ![t] = "SENDING"]
    BY <1>3 DEF TakeSource
  <2> QED
    BY <2>1, <2>2, <2>3 DEF HandsOK, SenderStates
<1>4. CASE SkipSource(t) \/ HandleGlobalCheckpoint(t) \/ OwnerEnded(t)
  BY <1>4, <1>b, Zenon
  DEF SkipSource, SourceFailsToOpen, HandleGlobalCheckpoint, SetGlobalCheckpoint, OwnerEnded,
      StopWaiting, senderVars
<1>5. CASE NoSourceLeft(t) \/ ProcessAbortCmd(t) \/ NoAbortFound(t) \/ ReadReceiverCmdFails(t)
           \/ ExpectEndOfStream(t) \/ ErrCmdHandled(t)
  BY <1>5, <1>a, Zenon
  DEF NoSourceLeft, ProcessAbortCmd, NoAbortFound, ReadReceiverCmdFails, ExpectEndOfStream,
      ErrCmdHandled, historyVars, SenderStates
<1>6. CASE SendOneByteSource(t)
  BY <1>6, Zenon DEF SendOneByteSource, At, HandsOK, SenderStates, historyVars
<1>7. CASE AddSource(t)
  <2>1. hand' = [hand EXCEPT ![t] = None] /\ hand \in [Threads -> {None} \cup Blocks]
    BY <1>7, Zenon DEF AddSource, AddSourceToHistory, AddSourceTooLate, HistoryTypeOK
  <2>2. \E s \in Quiet : \E error : Goto(t, s, error)
    BY <1>7, Zenon DEF AddSource, SenderStates
  <2> QED
    BY <2>1, <2>2, GotoState DEF HandsOK, SenderStates
<1>8. CASE ProcessWaitCmd(t) \/ ProcessDoneCmd(t)
  BY <1>8, <1>a, Zenon DEF ProcessWaitCmd, ProcessDoneCmd, MarkAllAcknowledged, SenderStates
<1>9. CASE ProcessErrCmd(t)
  BY <1>9, <1>a, <1>c, Zenon DEF ProcessErrCmd, MarkAllAcknowledged, SenderStates
<1>10. CASE StopEarly(t)
  BY <1>10 DEF StopEarly, Goto, HandsOK, SenderStates, historyVars
<1>11. CASE Exit(t)
  BY <1>11, <1>c, Zenon DEF Exit, MarkNotInUse, SenderStates
<1> QED
  BY <1>1, <1>2, <1>3, <1>4, <1>5, <1>6, <1>7, <1>8, <1>9, <1>10, <1>11 DEF SenderStep

\* No history is longer than there are blocks: none is in it twice.
LEMMA HistoryBounded ==
    ASSUME Bookkeeping, Accounting, NEW t \in Threads
    PROVE  Len(history[t]) \in Nat /\ Len(history[t]) < MaxNumBlocks
<1> DEFINE h == history[t]
<1>1. h \in Seq(Blocks)
  BY DEF Bookkeeping, HistoryTypeOK
<1>2. Len(h) \in Nat /\ h \in [1..Len(h) -> Blocks]
  BY <1>1, LenProperties
<1>3. \A i, j \in 1..Len(h) : h[i] = h[j] => i = j
  BY DEF Accounting, NoBlockTwice
<1>4. h \in Injection(1..Len(h), Blocks)
  BY <1>2, <1>3 DEF Injection, IsInjective
<1>5. Cardinality(1..Len(h)) <= Cardinality(Blocks)
  BY <1>4, BlocksAssumption, FS_Injection
<1>6. Cardinality(1..Len(h)) = Len(h)
  BY <1>2, FS_Interval
<1>7. Cardinality(Blocks) \in Nat
  BY BlocksAssumption, FS_CardinalityType
<1> QED
  BY <1>2, <1>5, <1>6, <1>7, CountAssumption, SizesAssumption

\* A local checkpoint is read off the wire, so it is plausible.
LEMMA LocalCheckpointRefines ==
    ASSUME Traffic, NEW t \in Threads, ReadLocalCheckpoint(t)
    PROVE  \E c \in PlausibleCheckpoints : SetLocalCheckpoint(t, c)
<1>1. PICK c \in Checkpoints : SenderReads(t, CheckpointCmd(c)) /\ SetLocalCheckpoint(t, c)
  BY DEF ReadLocalCheckpoint
<1>2. CheckpointCmd(c) \in ReceiverCmds
  BY <1>1, TrafficParts, StreamOps DEF SenderReads, Streams
<1>3. c \in WellFormed
  BY <1>2 DEF CheckpointCmd, ReceiverCmds
<1>4. c \in PlausibleCheckpoints
  BY <1>3 DEF PlausibleCheckpoints, WellFormed
<1> QED
  BY <1>1, <1>4

\* A global checkpoint that counts more than a history can hold is rejected, as
\* one that counts MaxNumBlocks would be.
LEMMA GlobalCheckpointRefines ==
    ASSUME Bookkeeping, Accounting, Traffic, NEW t \in Threads, HandleGlobalCheckpoint(t)
    PROVE  \E e \in Threads, c \in PlausibleCheckpoints : SetGlobalCheckpoint(t, e, c)
<1>1. PICK h \in PortCheckpoints : SetGlobalCheckpoint(t, h.port, h.checkpoint)
  BY StreamOps DEF HandleGlobalCheckpoint, Traffic
<1> DEFINE e == h.port
           c == h.checkpoint
<1>2. e \in Threads /\ c \in WellFormed /\ c.numBlocks \in Nat
  BY DEF PortCheckpoints, WellFormed, CheckpointRecords
<1> HIDE DEF e, c
<1>3. CASE c.numBlocks <= MaxNumBlocks
  BY <1>1, <1>2, <1>3, WellFormedIsPlausible DEF e, c
<1>4. CASE c.numBlocks > MaxNumBlocks
  <2> DEFINE d == NoPartialBlock(MaxNumBlocks)
  <2>1. Len(history[e]) \in Nat /\ Len(history[e]) < MaxNumBlocks
    BY <1>2, HistoryBounded
  <2>2. d \in WellFormed /\ d.numBlocks = MaxNumBlocks
    BY SizesAssumption, NoPartialBlockWellFormed DEF NoPartialBlock
  <2>3. d \in PlausibleCheckpoints
    BY <2>2, SizesAssumption, WellFormedIsPlausible
  <2> HIDE DEF d
  <2>4. Rejected(e, c, TRUE) /\ Rejected(e, d, TRUE)
    <3>1. c.numBlocks > Len(history[e]) /\ d.numBlocks > Len(history[e])
      BY <1>2, <1>4, <2>1, <2>2, SizesAssumption
    <3> QED
      BY <3>1, Zenon DEF Rejected, CheckpointStatus
  <2>5. SetCheckpointAndReturnToQueue(e, c, TRUE) => SetCheckpointAndReturnToQueue(e, d, TRUE)
    BY <2>4, Zenon DEF SetCheckpointAndReturnToQueue
  <2>6. SetGlobalCheckpoint(t, e, d)
    BY <1>1, <2>5, Zenon DEF SetGlobalCheckpoint, e, c
  <2> QED
    BY <1>2, <2>3, <2>6
<1> QED
  BY <1>2, <1>3, <1>4, SizesAssumption

\* Every step of a sender thread is a step of the histories, or leaves them.
LEMMA SenderRefines ==
    ASSUME Bookkeeping, Accounting, Traffic, NEW t \in Threads, SenderStep(t)
    PROVE  [HistoryNext]_historyVars
<1>1. CASE \/ Connect(t) \/ ConnectFails(t) \/ GiveUpReconnecting(t)
           \/ ReadLocalCheckpointFails(t) \/ SendSettings(t) \/ NoSourceLeft(t)
           \/ SendOneByteSource(t) \/ SendDoneCmd(t) \/ ProcessAbortCmd(t) \/ NoAbortFound(t)
           \/ ReadReceiverCmdFails(t) \/ ExpectEndOfStream(t) \/ ErrCmdHandled(t) \/ StopEarly(t)
  <2>1. UNCHANGED historyVars
    BY <1>1, Zenon DEF Connect, ConnectFails, GiveUpReconnecting, ReadLocalCheckpointFails,
                SendSettings, NoSourceLeft, SendOneByteSource, SendDoneCmd, ProcessAbortCmd,
                NoAbortFound, ReadReceiverCmdFails, ExpectEndOfStream, ErrCmdHandled, StopEarly
  <2> QED
    BY <2>1
<1>2. CASE ReadLocalCheckpoint(t)
  BY <1>2, LocalCheckpointRefines DEF HistoryNext
<1>3. CASE HandleGlobalCheckpoint(t)
  BY <1>3, GlobalCheckpointRefines DEF HistoryNext
<1>4. CASE TakeSource(t) \/ SkipSource(t) \/ AddSource(t) \/ OwnerEnded(t) \/ Exit(t)
  BY <1>4, Zenon DEF TakeSource, SkipSource, AddSource, OwnerEnded, Exit, HistoryNext
<1>5. CASE ProcessWaitCmd(t) \/ ProcessDoneCmd(t) \/ ProcessErrCmd(t)
  BY <1>5, Zenon DEF ProcessWaitCmd, ProcessDoneCmd, ProcessErrCmd, HistoryNext
<1> QED
  BY <1>1, <1>2, <1>3, <1>4, <1>5 DEF SenderStep

\* The inductive invariant of the refinement.
Usage == Bookkeeping /\ Accounting /\ Traffic /\ HandsOK

LEMMA InitUsage == TransferInit => Usage
BY InitBookkeeping, InitAccounting, InitTraffic, InitHands DEF TransferInit, Usage

LEMMA NextUsage ==
    ASSUME Usage, [TransferNext]_transferVars
    PROVE  [HistoryNext]_historyVars /\ Usage'
<1>u. Bookkeeping /\ Accounting /\ Traffic /\ HandsOK /\ HistoryTypeOK
  BY Zenon DEF Usage, Bookkeeping
<1>a. ASSUME [HistoryNext]_historyVars, Traffic', HandsOK'
      PROVE  [HistoryNext]_historyVars /\ Usage'
  BY <1>u, <1>a, NextBookkeeping, NextAccounting DEF Usage
<1>b. ASSUME UNCHANGED <<historyVars, senderVars>>, Traffic'
      PROVE  [HistoryNext]_historyVars /\ Usage'
  <2>1. HandsOK'
    BY <1>u, <1>b DEF HandsOK, historyVars, senderVars
  <2> QED
    BY <1>a, <1>b, <2>1
<1>1. ASSUME NEW t \in Threads, SenderStep(t), UNCHANGED receiverVars
      PROVE  [HistoryNext]_historyVars /\ Usage'
  BY <1>u, <1>1, <1>a, SenderRefines, SenderTraffic, SenderHands
<1>2. ASSUME NEW t \in Threads, ReceiverStep(t) \/ AcceptFails(t),
             UNCHANGED <<historyVars, senderVars>>
      PROVE  [HistoryNext]_historyVars /\ Usage'
  BY <1>u, <1>2, <1>b, ReceiverTraffic DEF senderVars
<1>3. ASSUME NEW t \in Threads, ConnectionBreaks(t)
      PROVE  [HistoryNext]_historyVars /\ Usage'
  <2>1. Streams' /\ UNCHANGED <<historyVars, senderVars, receiverVars>>
    BY <1>u, <1>3, TrafficParts, StreamSteps DEF ConnectionBreaks
  <2>2. Traffic'
    BY <1>u, <2>1, TrafficParts, Zenon DEF Traffic, Streams, senderVars, receiverVars
  <2> QED
    BY <1>b, <2>1, <2>2
<1>4. CASE SenderFinishes
  <2>1. HistoryNext /\ UNCHANGED <<linkVars, senderVars, receiverVars, hand>>
    BY <1>4, Zenon
       DEF SenderFinishes, Finish, HistoryNext, FinishAllAcknowledged, FinishReturnUnacked
  <2>2. Traffic' /\ HandsOK'
    BY <1>u, <2>1 DEF Traffic, HandsOK, linkVars, senderVars, receiverVars
  <2> QED
    BY <1>a, <2>1, <2>2
<1>5. CASE UNCHANGED transferVars
  <2>1. UNCHANGED <<historyVars, linkVars, senderVars, receiverVars>>
    BY <1>5 DEF transferVars
  <2>2. Traffic'
    BY <1>u, <2>1 DEF Traffic, linkVars, senderVars, receiverVars
  <2> QED
    BY <1>b, <2>1, <2>2
<1> QED
  BY <1>1, <1>2, <1>3, <1>4, <1>5 DEF TransferNext, ThreadStep, AcceptTimesOut, Over

\* The threads of a transfer use the histories only as ThreadTransferHistory
\* allows, whatever is cut, lost or retried: addSource, setLocalCheckpoint and
\* setGlobalCheckpoint are called only as that module has them, and with
\* checkpoints that claim nothing past the end of a block.
THEOREM RefinementTheorem == TransferSpec => UsesHistoryAsSpecified
<1>1. TransferInit => HistoryInit
  BY DEF TransferInit
<1>2. Usage /\ [TransferNext]_transferVars => [HistoryNext]_historyVars
  BY NextUsage
<1>3. Usage /\ [TransferNext]_transferVars => Usage'
  BY NextUsage
<1> QED
  BY <1>1, <1>2, <1>3, InitUsage, PTL DEF TransferSpec, UsesHistoryAsSpecified, HistorySpec

\* A transfer loses no source, and has none in two places.
THEOREM TransferAccountingTheorem == TransferSpec => [](EveryBlockAccounted /\ NoBlockTwice)
<1>1. TransferSpec => HistorySpec
  BY RefinementTheorem DEF UsesHistoryAsSpecified
<1> QED
  BY <1>1, NoBlockLostTheorem, NoBlockTwiceTheorem, PTL

\* In a transfer, a history that a global checkpoint was applied to is never
\* added to again, and whoever applied it waits for its owner.
THEOREM TransferRecoveryTheorem ==
    TransferSpec => []GlobalCheckpointFreezesHistory /\ RecoveryWaitsForOwner
<1>1. TransferSpec => HistorySpec
  BY RefinementTheorem DEF UsesHistoryAsSpecified
<1> QED
  BY <1>1, FreezeTheorem, RecoveryTheorem, PTL
=============================================================================
