--------------------------- MODULE ReceiverThread ---------------------------
(***************************************************************************)
(* The state machine of the receiver threads (ReceiverThread.cpp) and the  *)
(* agreement by which they finish together: a thread that was told DONE    *)
(* waits until no other thread is RUNNING, and hands the checkpoints of    *)
(* threads that died to its sender.                                        *)
(*                                                                         *)
(* "READ_DONE_ACK" is the second half of sendDoneCmd.                      *)
(***************************************************************************)
EXTENDS Connection

VARIABLES
    receiverState,           \* receiverState[t]: next state function of thread t
    receiverError,           \* threadStats_ holds a local error
    threadStatus,            \* the thread's state in the ThreadsController
    checkpoint,              \* checkpoint_
    blocksWaiting,           \* blocksWaitingVerification_
    checkpoints,             \* Receiver::checkpoints_
    checkpointIndex,         \* checkpointIndex_
    pendingCheckpointIndex,  \* pendingCheckpointIndex_
    newCheckpoints,          \* newCheckpoints_
    stored                   \* stored[b]: bytes of b on disk and verified

receiverVars == <<receiverState, receiverError, threadStatus, checkpoint, blocksWaiting,
                  checkpoints, checkpointIndex, pendingCheckpointIndex, newCheckpoints,
                  stored>>

\* What only the commands of the sender and the agreement change.
blockVars == <<checkpoint, blocksWaiting, stored>>
agreementVars == <<threadStatus, checkpoints, checkpointIndex, pendingCheckpointIndex,
                   newCheckpoints>>

ReceiverStates ==
    {"ACCEPT_FIRST_CONNECTION", "ACCEPT_WITH_TIMEOUT", "SEND_LOCAL_CHECKPOINT",
     "READ_NEXT_CMD", "SEND_GLOBAL_CHECKPOINTS", "SEND_DONE_CMD", "READ_DONE_ACK",
     "SEND_ABORT_CMD", "WAIT_FOR_FINISH_OR_NEW_CHECKPOINT", "FINISH_WITH_ERROR", "END"}

ReceiverInit ==
    /\ receiverState = [t \in Threads |-> "ACCEPT_FIRST_CONNECTION"]
    /\ receiverError = [t \in Threads |-> FALSE]
    /\ threadStatus = [t \in Threads |-> "RUNNING"]
    /\ checkpoint = [t \in Threads |-> NoPartialBlock(0)]
    /\ blocksWaiting = [t \in Threads |-> <<>>]
    /\ checkpoints = <<>>
    /\ checkpointIndex = [t \in Threads |-> 0]
    /\ pendingCheckpointIndex = [t \in Threads |-> 0]
    /\ newCheckpoints = [t \in Threads |-> <<>>]
    /\ stored = [b \in Blocks |-> {}]

In(t, s) == receiverState[t] = s

Becomes(t, s, error) ==
    /\ receiverState' = [receiverState EXCEPT ![t] = s]
    /\ receiverError' = [receiverError EXCEPT ![t] = error]

\* The state function fails on the socket and returns ACCEPT_WITH_TIMEOUT, which
\* first closes the connection and forgets the blocks no tag has verified.
AcceptAgain(t) ==
    /\ Becomes(t, "ACCEPT_WITH_TIMEOUT", TRUE)
    /\ blocksWaiting' = [blocksWaiting EXCEPT ![t] = <<>>]

----------------------------------------------------------------------------
(* ACCEPT_FIRST_CONNECTION and ACCEPT_WITH_TIMEOUT *)

AcceptFirstConnection(t) ==
    /\ In(t, "ACCEPT_FIRST_CONNECTION")
    /\ ReceiverAccepts(t)
    /\ Becomes(t, "READ_NEXT_CMD", FALSE)
    /\ UNCHANGED <<blockVars, agreementVars>>

\* hasNewTransferStarted: another thread has its connection.
StopWaitingForFirst(t) ==
    /\ In(t, "ACCEPT_FIRST_CONNECTION")
    /\ \E u \in Threads : ~ In(u, "ACCEPT_FIRST_CONNECTION")
    /\ Becomes(t, "ACCEPT_WITH_TIMEOUT", FALSE)
    /\ UNCHANGED <<linkVars, blockVars, agreementVars>>

AcceptWithTimeout(t) ==
    /\ In(t, "ACCEPT_WITH_TIMEOUT")
    /\ ReceiverAccepts(t)
    /\ pendingCheckpointIndex' = [pendingCheckpointIndex EXCEPT ![t] = checkpointIndex[t]]
    /\ Becomes(t, IF receiverError[t] THEN "SEND_LOCAL_CHECKPOINT" ELSE "READ_NEXT_CMD", FALSE)
    /\ UNCHANGED <<blockVars, threadStatus, checkpoints, checkpointIndex, newCheckpoints>>

\* No sender connects in time.
AcceptFails(t) ==
    /\ In(t, "ACCEPT_FIRST_CONNECTION") \/ In(t, "ACCEPT_WITH_TIMEOUT")
    /\ Becomes(t, "FINISH_WITH_ERROR", TRUE)
    /\ UNCHANGED <<link, toReceiver, toSender, listening, blockVars, agreementVars>>

(* SEND_LOCAL_CHECKPOINT *)

SendLocalCheckpoint(t) ==
    /\ In(t, "SEND_LOCAL_CHECKPOINT")
    /\ \/ /\ ReceiverWrites(t, CheckpointCmd(checkpoint[t]))
          /\ Becomes(t, "READ_NEXT_CMD", FALSE)
          /\ UNCHANGED blocksWaiting
       \/ /\ ReceiverWriteFails(t)
          /\ ReceiverHangsUp(t)
          /\ AcceptAgain(t)
    /\ UNCHANGED <<checkpoint, stored, agreementVars>>

(* READ_NEXT_CMD and the states it leads to *)

ReadNextCmdFails(t) ==
    /\ In(t, "READ_NEXT_CMD") \/ In(t, "READ_DONE_ACK")
    /\ ReceiverReadFails(t)
    /\ ReceiverHangsUp(t)
    /\ AcceptAgain(t)
    /\ UNCHANGED <<checkpoint, stored, agreementVars>>

ProcessSettingsCmd(t) ==
    /\ In(t, "READ_NEXT_CMD")
    /\ ReceiverReads(t, Cmd("SETTINGS")) /\ UNCHANGED faults
    /\ UNCHANGED receiverVars

\* The bytes o .. o+k-1.
Bytes(o, k) == {i \in 0..BlockSize : o <= i /\ i < o + k}

\* Mutation of Verified: the block is counted twice.
VerifiedTwice(c) == NoPartialBlock(c.numBlocks + 2)

\* markBlockVerified
Verified(c) == NoPartialBlock(c.numBlocks + 1)

\* Mutation of PartOf: the block that failed is counted.
PartCounts(c, m, k) == PartialBlock(c.numBlocks + 1, m.block, m.offset, k)

\* writtenGuard: k bytes of the block count even though the block failed, if
\* neither a tag nor a checksum has to vouch for them.
PartOf(c, m, k) ==
    IF Verification = "none" THEN PartialBlock(c.numBlocks, m.block, m.offset, k)
    ELSE NoPartialBlock(c.numBlocks)

StoredPart(m, k) ==
    IF Verification = "none" THEN [stored EXCEPT ![m.block] = @ \cup Bytes(m.offset, k)]
    ELSE stored

\* The block arrived, was written, and its footer, if there is one, matched.
ProcessFileCmd(t) ==
    /\ In(t, "READ_NEXT_CMD")
    /\ toReceiver[t] # <<>>
    /\ LET m == Head(toReceiver[t])
       IN  /\ m.cmd = "FILE" /\ m.whole
           /\ ReceiverReads(t, m) /\ UNCHANGED faults
           /\ IF Verification = "tag"
              THEN /\ blocksWaiting' = [blocksWaiting EXCEPT ![t] = Append(@, m)]
                   /\ checkpoint' = [checkpoint EXCEPT ![t] = NoPartialBlock(@.numBlocks)]
                   /\ UNCHANGED stored
              ELSE /\ checkpoint' = [checkpoint EXCEPT ![t] = Verified(@)]
                   /\ stored' = [stored EXCEPT ![m.block] = @ \cup Bytes(m.offset, m.bytes)]
                   /\ UNCHANGED blocksWaiting
    /\ checkpointIndex' = [checkpointIndex EXCEPT ![t] = pendingCheckpointIndex[t]]
    /\ UNCHANGED <<receiverState, receiverError, threadStatus, checkpoints,
                   pendingCheckpointIndex, newCheckpoints>>

\* The connection ended inside the data of the block.
FileCmdCutInData(t) ==
    /\ In(t, "READ_NEXT_CMD")
    /\ toReceiver[t] # <<>> /\ link[t] # "up"
    /\ LET m == Head(toReceiver[t])
       IN  /\ m.cmd = "FILE" /\ ~ m.whole
           /\ checkpoint' = [checkpoint EXCEPT ![t] = PartOf(@, m, m.bytes)]
           /\ stored' = StoredPart(m, m.bytes)
    /\ ReceiverHangsUp(t)
    /\ AcceptAgain(t)
    /\ checkpointIndex' = [checkpointIndex EXCEPT ![t] = pendingCheckpointIndex[t]]
    /\ UNCHANGED <<threadStatus, checkpoints, pendingCheckpointIndex, newCheckpoints>>

\* The connection ended inside the header of the block.
FileCmdCutInHeader(t) ==
    /\ In(t, "READ_NEXT_CMD")
    /\ toReceiver[t] # <<>> /\ link[t] # "up"
    /\ Head(toReceiver[t]) = Cmd("FILE_HEADER_CUT")
    /\ checkpoint' = [checkpoint EXCEPT ![t] = NoPartialBlock(@.numBlocks)]
    /\ ReceiverHangsUp(t)
    /\ AcceptAgain(t)
    /\ UNCHANGED <<stored, agreementVars>>

\* The file cannot be opened, written, synced or closed: k bytes were written.
FileWriteFails(t) ==
    /\ In(t, "READ_NEXT_CMD")
    /\ toReceiver[t] # <<>>
    /\ LET m == Head(toReceiver[t])
       IN  /\ m.cmd = "FILE" /\ m.whole
           /\ ReceiverReads(t, m) /\ Fault
           /\ \E k \in 0..m.bytes :
                /\ checkpoint' = [checkpoint EXCEPT ![t] = PartOf(@, m, k)]
                /\ stored' = StoredPart(m, k)
    /\ Becomes(t, "SEND_ABORT_CMD", TRUE)
    /\ checkpointIndex' = [checkpointIndex EXCEPT ![t] = pendingCheckpointIndex[t]]
    /\ UNCHANGED <<blocksWaiting, threadStatus, checkpoints, pendingCheckpointIndex,
                   newCheckpoints>>

\* The checksum in the footer does not match.
ChecksumMismatch(t) ==
    /\ In(t, "READ_NEXT_CMD")
    /\ Verification = "checksum"
    /\ toReceiver[t] # <<>>
    /\ Head(toReceiver[t]).cmd = "FILE" /\ Head(toReceiver[t]).whole
    /\ Fault
    /\ link' = [link EXCEPT ![t] = IF @ = "up" THEN "cut" ELSE @]
    /\ toReceiver' = [toReceiver EXCEPT ![t] = <<>>]
    /\ UNCHANGED <<toSender, listening>>
    /\ checkpoint' = [checkpoint EXCEPT ![t] = NoPartialBlock(@.numBlocks)]
    /\ AcceptAgain(t)
    /\ checkpointIndex' = [checkpointIndex EXCEPT ![t] = pendingCheckpointIndex[t]]
    /\ UNCHANGED <<stored, threadStatus, checkpoints, pendingCheckpointIndex, newCheckpoints>>

\* markReceivedBlocksVerified: every block received on this connection counts.
ReceivedBlocksVerified(t) ==
    LET verifiedBytes(b) == UNION {Bytes(m.offset, m.bytes) :
                                     m \in {blocksWaiting[t][i] : i \in
                                              {j \in 1..Len(blocksWaiting[t]) :
                                                 blocksWaiting[t][j].block = b}}}
    IN  /\ checkpoint' = [checkpoint EXCEPT ![t].numBlocks = @ + Len(blocksWaiting[t])]
        /\ stored' = [b \in Blocks |-> stored[b] \cup verifiedBytes(b)]
        /\ blocksWaiting' = [blocksWaiting EXCEPT ![t] = <<>>]

\* The socket reads an encryption tag inside the stream and it is right.
TagVerified(t) ==
    /\ In(t, "READ_NEXT_CMD")
    /\ blocksWaiting[t] # <<>>
    /\ ReceivedBlocksVerified(t)
    /\ UNCHANGED <<linkVars, receiverState, receiverError, agreementVars>>

\* processDoneCmd, and the markState(WAITING) that waitForFinishOrNewCheckpoint
\* starts with.
ProcessDoneFromSender(t) ==
    /\ In(t, "READ_NEXT_CMD")
    /\ ReceiverReads(t, Cmd("DONE")) /\ UNCHANGED faults
    /\ Becomes(t, "WAIT_FOR_FINISH_OR_NEW_CHECKPOINT", FALSE)
    /\ checkpointIndex' = [checkpointIndex EXCEPT ![t] = pendingCheckpointIndex[t]]
    /\ threadStatus' = [threadStatus EXCEPT ![t] = "WAITING"]
    /\ UNCHANGED <<blockVars, checkpoints, pendingCheckpointIndex, newCheckpoints>>

----------------------------------------------------------------------------
(* WAIT_FOR_FINISH_OR_NEW_CHECKPOINT *)

\* getNewCheckpoints(checkpointIndex_)
Undelivered(t) == SubSeq(checkpoints, checkpointIndex[t] + 1, Len(checkpoints))

\* hasThreads(threadIndex_, RUNNING)
OthersRunning(t) == \E u \in Threads \ {t} : threadStatus[u] = "RUNNING"

\* checkForFinishOrNewCheckpoints, under the condition guard.
FindNewCheckpoints(t) ==
    /\ In(t, "WAIT_FOR_FINISH_OR_NEW_CHECKPOINT")
    /\ Undelivered(t) # <<>>
    /\ newCheckpoints' = [newCheckpoints EXCEPT ![t] = Undelivered(t)]
    /\ threadStatus' = [threadStatus EXCEPT ![t] = "RUNNING"]
    /\ Becomes(t, "SEND_GLOBAL_CHECKPOINTS", FALSE)
    /\ UNCHANGED <<linkVars, blockVars, checkpoints, checkpointIndex, pendingCheckpointIndex>>

FindAllFinished(t) ==
    /\ In(t, "WAIT_FOR_FINISH_OR_NEW_CHECKPOINT")
    /\ Undelivered(t) = <<>>
    /\ ~ OthersRunning(t)
    /\ threadStatus' = [threadStatus EXCEPT ![t] = "FINISHED"]
    /\ Becomes(t, "SEND_DONE_CMD", FALSE)
    /\ UNCHANGED <<linkVars, blockVars, checkpoints, checkpointIndex, pendingCheckpointIndex,
                   newCheckpoints>>

\* WAIT_CMD keeps the sender alive.  At most one is in flight in the model.
SendWaitCmd(t) ==
    /\ In(t, "WAIT_FOR_FINISH_OR_NEW_CHECKPOINT")
    /\ \/ /\ toSender[t] = <<>>
          /\ ReceiverWrites(t, Cmd("WAIT"))
          /\ UNCHANGED <<receiverState, receiverError, threadStatus, blocksWaiting>>
       \/ /\ ReceiverWriteFails(t)
          /\ ReceiverHangsUp(t)
          /\ threadStatus' = [threadStatus EXCEPT ![t] = "RUNNING"]
          /\ AcceptAgain(t)
    /\ UNCHANGED <<checkpoint, stored, checkpoints, checkpointIndex, pendingCheckpointIndex,
                   newCheckpoints>>

(* SEND_GLOBAL_CHECKPOINTS *)

\* Mutation of SendGlobalCheckpoint: a checkpoint written is taken as delivered.
SendGlobalCheckpointOnce(t) ==
    /\ In(t, "SEND_GLOBAL_CHECKPOINTS")
    /\ ReceiverWrites(t, ErrCmd(newCheckpoints[t]))
    /\ checkpointIndex' = [checkpointIndex EXCEPT ![t] = @ + Len(newCheckpoints[t])]
    /\ pendingCheckpointIndex' = [pendingCheckpointIndex EXCEPT
            ![t] = checkpointIndex[t] + Len(newCheckpoints[t])]
    /\ Becomes(t, "READ_NEXT_CMD", FALSE)
    /\ UNCHANGED <<checkpoint, stored, blocksWaiting, threadStatus, checkpoints,
                   newCheckpoints>>

SendGlobalCheckpoint(t) ==
    /\ In(t, "SEND_GLOBAL_CHECKPOINTS")
    /\ \/ /\ ReceiverWrites(t, ErrCmd(newCheckpoints[t]))
          /\ pendingCheckpointIndex' = [pendingCheckpointIndex EXCEPT
                    ![t] = checkpointIndex[t] + Len(newCheckpoints[t])]
          /\ Becomes(t, "READ_NEXT_CMD", FALSE)
          /\ UNCHANGED blocksWaiting
       \/ /\ ReceiverWriteFails(t)
          /\ ReceiverHangsUp(t)
          /\ AcceptAgain(t)
          /\ UNCHANGED pendingCheckpointIndex
    /\ UNCHANGED <<checkpoint, stored, threadStatus, checkpoints, checkpointIndex,
                   newCheckpoints>>

(* SEND_DONE_CMD *)

SendDoneToSender(t) ==
    /\ In(t, "SEND_DONE_CMD")
    /\ \/ /\ ReceiverWrites(t, Cmd("DONE"))
          /\ Becomes(t, "READ_DONE_ACK", FALSE)
          /\ UNCHANGED blocksWaiting
       \/ /\ ReceiverWriteFails(t)
          /\ ReceiverHangsUp(t)
          /\ AcceptAgain(t)
    /\ UNCHANGED <<checkpoint, stored, agreementVars>>

\* The acknowledgement and, with tags, the tag that ends the stream: the blocks
\* that still wait are verified, and closeConnection sends the receiver's tag.
ReadDoneAck(t) ==
    /\ In(t, "READ_DONE_ACK")
    /\ toReceiver[t] # <<>> /\ Head(toReceiver[t]) = Cmd("DONE")
    /\ toReceiver' = [toReceiver EXCEPT ![t] = <<>>]
    /\ toSender' = IF Verification = "tag" /\ link[t] = "up"
                   THEN [toSender EXCEPT ![t] = Append(@, Cmd("TAG"))] ELSE toSender
    /\ link' = [link EXCEPT ![t] = IF @ = "up" THEN "cut" ELSE @]
    /\ UNCHANGED <<listening, faults>>
    /\ ReceivedBlocksVerified(t)
    /\ Becomes(t, "END", FALSE)
    /\ UNCHANGED agreementVars

(* SEND_ABORT_CMD and FINISH_WITH_ERROR *)

SendAbortCmd(t) ==
    /\ In(t, "SEND_ABORT_CMD")
    /\ toSender' = IF link[t] = "up" THEN [toSender EXCEPT ![t] = Append(@, Cmd("ABORT"))]
                   ELSE toSender
    /\ link' = [link EXCEPT ![t] = IF @ = "up" THEN "cut" ELSE @]
    /\ toReceiver' = [toReceiver EXCEPT ![t] = <<>>]
    /\ UNCHANGED <<listening, faults>>
    /\ Becomes(t, "FINISH_WITH_ERROR", TRUE)
    /\ UNCHANGED <<blockVars, agreementVars>>

\* Mutations of FinishWithError: the checkpoint is not added; the thread is not
\* marked FINISHED.
FinishSilently(t) ==
    /\ In(t, "FINISH_WITH_ERROR")
    /\ ReceiverStopsListening(t)
    /\ threadStatus' = [threadStatus EXCEPT ![t] = "FINISHED"]
    /\ Becomes(t, "END", TRUE)
    /\ UNCHANGED <<blockVars, checkpoints, checkpointIndex, pendingCheckpointIndex,
                   newCheckpoints>>
FinishStillRunning(t) ==
    /\ In(t, "FINISH_WITH_ERROR")
    /\ ReceiverStopsListening(t)
    /\ checkpoints' = Append(checkpoints, [port |-> t, checkpoint |-> checkpoint[t]])
    /\ Becomes(t, "END", TRUE)
    /\ UNCHANGED <<blockVars, threadStatus, checkpointIndex, pendingCheckpointIndex,
                   newCheckpoints>>

FinishWithError(t) ==
    /\ In(t, "FINISH_WITH_ERROR")
    /\ ReceiverStopsListening(t)
    /\ checkpoints' = Append(checkpoints, [port |-> t, checkpoint |-> checkpoint[t]])
    /\ threadStatus' = [threadStatus EXCEPT ![t] = "FINISHED"]
    /\ Becomes(t, "END", TRUE)
    /\ UNCHANGED <<blockVars, checkpointIndex, pendingCheckpointIndex, newCheckpoints>>

ReceiverStep(t) ==
    \/ AcceptFirstConnection(t) \/ StopWaitingForFirst(t) \/ AcceptWithTimeout(t)
       \/ SendLocalCheckpoint(t)
    \/ ReadNextCmdFails(t)      \/ ProcessSettingsCmd(t)   \/ ProcessFileCmd(t)
    \/ FileCmdCutInData(t)      \/ FileCmdCutInHeader(t)   \/ FileWriteFails(t)
    \/ ChecksumMismatch(t)      \/ TagVerified(t)          \/ ProcessDoneFromSender(t)
    \/ FindNewCheckpoints(t)    \/ FindAllFinished(t)      \/ SendWaitCmd(t)
    \/ SendGlobalCheckpoint(t)  \/ SendDoneToSender(t)     \/ ReadDoneAck(t)
    \/ SendAbortCmd(t)          \/ FinishWithError(t)
=============================================================================
