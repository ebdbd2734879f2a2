------------------------------ MODULE Transfer ------------------------------
(***************************************************************************)
(* A transfer: the sender threads and the receiver threads of one session, *)
(* connected port by port, with the transfer history on the sending side   *)
(* and the list of checkpoints on the receiving side.                      *)
(***************************************************************************)
EXTENDS SenderThread, ReceiverThread

CONSTANT PromptAdd  \* a sender thread records a block it has written before the
                    \* accept of a receiver thread times out

ASSUME PromptAddAssumption == PromptAdd \in BOOLEAN

\* The bound on the block count leaves room for a count that no history reaches.
ASSUME CountAssumption == Cardinality(Blocks) < MaxNumBlocks

transferVars == <<historyVars, linkVars, senderVars, receiverVars>>

TransferInit == HistoryInit /\ LinkInit /\ SenderInit /\ ReceiverInit

\* The accept of t times out: because its sender thread is gone, or because the
\* network or the sender is slow.
AcceptTimesOut(t) ==
    /\ AcceptFails(t)
    /\ \/ senderState[t] = "EXITED" /\ UNCHANGED faults
       \/ /\ PromptAdd => senderState[t] # "SENT"
          /\ Fault
    /\ UNCHANGED <<historyVars, senderVars>>

ConnectionBreaks(t) == Break(t) /\ UNCHANGED <<historyVars, senderVars, receiverVars>>

ThreadStep(t) ==
    \/ SenderStep(t) /\ UNCHANGED receiverVars
    \/ ReceiverStep(t) /\ UNCHANGED <<historyVars, senderVars>>
    \/ AcceptTimesOut(t)

SenderFinishes == Finish /\ UNCHANGED receiverVars

Ended == finished /\ \A t \in Threads : receiverState[t] = "END"

\* Nothing is left to do.
Over == Ended /\ UNCHANGED transferVars

TransferNext ==
    \/ \E t \in Threads : ThreadStep(t) \/ ConnectionBreaks(t)
    \/ SenderFinishes
    \/ Over

TransferSpec == TransferInit /\ [][TransferNext]_transferVars

\* Threads are scheduled; a receiver thread looks for the end of the transfer
\* every time it wakes up, not only for the moment to send WAIT; the accept of
\* a receiver whose sender is gone ends.  Nothing is assumed of faults.
Fairness ==
    /\ \A t \in Threads :
        /\ WF_transferVars(SenderStep(t) /\ UNCHANGED receiverVars)
        /\ WF_transferVars(ReceiverStep(t) /\ UNCHANGED <<historyVars, senderVars>>)
        /\ WF_transferVars((FindNewCheckpoints(t) \/ FindAllFinished(t))
                              /\ UNCHANGED <<historyVars, senderVars>>)
        /\ WF_transferVars(AcceptTimesOut(t) /\ senderState[t] = "EXITED")
    /\ WF_transferVars(SenderFinishes)

FairTransferSpec == TransferSpec /\ Fairness

----------------------------------------------------------------------------
(* Properties *)

\* The types; the retry count stays within its limit and the indices into the
\* list of checkpoints within the list.
TransferTypeOK ==
    /\ HistoryTypeOK
    /\ link \in [Threads -> {"none", "pending", "up", "cut"}]
    /\ listening \in [Threads -> BOOLEAN]
    /\ faults \in 0..MaxFaults
    /\ senderState \in [Threads -> SenderStates]
    /\ senderError \in [Threads -> BOOLEAN]
    /\ numReconnect \in [Threads -> 0..MaxTransferRetries]
    /\ receiverState \in [Threads -> ReceiverStates]
    /\ receiverError \in [Threads -> BOOLEAN]
    /\ threadStatus \in [Threads -> {"RUNNING", "WAITING", "FINISHED"}]
    /\ checkpoint \in [Threads -> Checkpoints]
    /\ \A t \in Threads : /\ checkpointIndex[t] \in 0..Len(checkpoints)
                          /\ pendingCheckpointIndex[t] \in 0..Len(checkpoints)
    /\ stored \in [Blocks -> SUBSET (0..(BlockSize - 1))]

Received(b) == stored[b] = 0..(BlockSize - 1)

EndedOK(t) == senderState[t] \in {"END", "EXITED"} /\ ~ senderError[t]

\* Sender::finish, once it has joined the threads, takes one thread that ended
\* without an error as proof that every source that could be opened has
\* arrived, whatever the other threads went through.
OneThreadOkMeansAllReceived ==
    (/\ \A t \in Threads : senderState[t] = "EXITED"
     /\ \E t \in Threads : EndedOK(t))
    => \A b \in Blocks \ failed : Received(b)

\* A source is acknowledged in a history only when the receiver has all of it:
\* WAIT, DONE and ERR each acknowledge the whole history of the thread that
\* reads them, a checkpoint acknowledges the part it counts.
AcknowledgedMeansReceived ==
    ~ finished =>
        \A t \in Threads : \A i \in 1..numAcknowledged[t] : Received(history[t][i])

\* A source that is sent again from a later offset loses nothing: the bytes
\* skipped are on the receiver's disk.
SkippedBytesAreStored ==
    \A b \in Blocks : 0..(offset[b] - 1) \subseteq stored[b]

\* The checkpoints of a receiver that does its job are never judged invalid,
\* neither by the thread that reconnects (which would end with PROTOCOL_ERROR)
\* nor by a thread that recovers for another (which would drop it silently).
CheckpointsAreAccepted ==
    \A t \in Threads :
        /\ (At(t, "READ_LOCAL_CHECKPOINT") /\ toSender[t] # <<>>)
              => ~ Rejected(t, Head(toSender[t]).checkpoint, FALSE)
        /\ (At(t, "PROCESS_ERR_CMD") /\ errCheckpoints[t] # <<>>)
              => ~ Rejected(Head(errCheckpoints[t]).port,
                            Head(errCheckpoints[t]).checkpoint, TRUE)

\* With encryption tags a thread that ends without an error knows, from the tag
\* the receiver answers with, that all its own blocks were verified.
TagCoversOwnHistory ==
    \A t \in Threads : EndedOK(t) =>
        \A i \in 1..Len(history[t]) : Received(history[t][i])

\* Every transfer ends, on both sides: no thread waits forever for a command, a
\* connection, the end of another sender thread or the other receivers.
TransferEnds == <>[]Ended

\* The abstract transfer this one implements.
Abstract == INSTANCE BlockTransfer WITH
    AllBlocks <- Blocks,
    delivered <- {b \in Blocks : Received(b)},
    unreadable <- failed,
    outcome <- IF ~ finished THEN "running"
               ELSE IF \E t \in Threads : ~ senderError[t] THEN "ok" ELSE "failed"

\* Whatever the faults, the transfer is a BlockTransfer: success is reported
\* only with every readable block delivered, and delivered blocks stay.
ImplementsBlockTransfer == Abstract!Spec

\* The threads use the histories only as module ThreadTransferHistory allows:
\* what is proved of it holds of the transfer.
UsesHistoryAsSpecified == HistorySpec
=============================================================================
