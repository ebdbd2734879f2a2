---------------------------- MODULE SenderThread ----------------------------
(***************************************************************************)
(* The state machine of the sender threads (SenderThread.cpp), one action  *)
(* per outcome of a state function.  A thread in "SENDING" or "SENT" is    *)
(* inside sendBlocks: it holds a source it has not written, or has written *)
(* (or failed to write) and not yet added to its history.  "EXPECT_EOS" is *)
(* the wait for the receiver's tag inside processDoneCmd.                  *)
(***************************************************************************)
EXTENDS ThreadTransferHistory, Connection

CONSTANT MaxTransferRetries  \* max_transfer_retries

ASSUME RetriesAssumption == MaxTransferRetries \in Nat

VARIABLES
    senderState,   \* senderState[t]: next state function of thread t
    senderError,   \* threadStats_ holds a local error
    numReconnect,  \* numReconnectWithoutProgress_
    errCheckpoints,\* checkpoints of an ERR_CMD still to be handled
    aborted        \* the sender was told to abort (WdtBase::abort)

senderVars == <<senderState, senderError, numReconnect, errCheckpoints, aborted>>

SenderStates ==
    {"CONNECT", "READ_LOCAL_CHECKPOINT", "SEND_SETTINGS", "SEND_BLOCKS", "SENDING",
     "SENT", "SEND_DONE_CMD", "CHECK_FOR_ABORT", "READ_RECEIVER_CMD", "EXPECT_EOS",
     "PROCESS_ERR_CMD", "END", "EXITED"}

SenderInit ==
    /\ senderState = [t \in Threads |-> "CONNECT"]
    /\ senderError = [t \in Threads |-> FALSE]
    /\ numReconnect = [t \in Threads |-> 0]
    /\ errCheckpoints = [t \in Threads |-> <<>>]
    /\ aborted = FALSE

\* getThreadAbortCode() # OK
MustStop(t) == aborted \/ globalCheckpoint[t]

\* The state function of t returns s, and the loop in start() checks for an
\* abort before it calls the next one.
Goto(t, s, error) ==
    LET stops == s # "END" /\ MustStop(t)
    IN  /\ senderState' = [senderState EXCEPT ![t] = IF stops THEN "END" ELSE s]
        /\ senderError' = [senderError EXCEPT ![t] = error \/ stops]

At(t, s) == senderState[t] = s /\ waitingFor[t] = None

\* The block t holds, as it goes over the wire.
BlockInHand(t) ==
    LET b == hand[t] IN FileCmd(b, offset[b], BlockSize - offset[b], TRUE)

----------------------------------------------------------------------------
(* CONNECT *)

Connect(t) ==
    /\ At(t, "CONNECT")
    /\ numReconnect[t] < MaxTransferRetries
    /\ SenderConnects(t)
    /\ Goto(t, IF senderError[t] THEN "READ_LOCAL_CHECKPOINT" ELSE "SEND_SETTINGS", FALSE)
    /\ UNCHANGED <<historyVars, numReconnect, errCheckpoints, aborted>>

ConnectFails(t) ==
    /\ At(t, "CONNECT")
    /\ numReconnect[t] < MaxTransferRetries
    /\ SenderRefused(t)
    /\ Goto(t, "END", TRUE)
    /\ UNCHANGED <<historyVars, numReconnect, errCheckpoints, aborted>>

GiveUpReconnecting(t) ==
    /\ At(t, "CONNECT")
    /\ numReconnect[t] >= MaxTransferRetries
    /\ Goto(t, "END", TRUE)
    /\ SenderHangsUp(t)
    /\ UNCHANGED <<historyVars, numReconnect, errCheckpoints, aborted>>

(* READ_LOCAL_CHECKPOINT *)

ReadLocalCheckpoint(t) ==
    /\ At(t, "READ_LOCAL_CHECKPOINT")
    /\ \E c \in Checkpoints :
        LET status == CheckpointStatus(t, c, FALSE)
        IN  /\ SenderReads(t, CheckpointCmd(c))
            /\ SetLocalCheckpoint(t, c)
            /\ IF status = "INVALID_CHECKPOINT"
               THEN Goto(t, "END", TRUE) /\ UNCHANGED numReconnect
               ELSE /\ Goto(t, "SEND_SETTINGS", FALSE)
                    /\ numReconnect' = [numReconnect EXCEPT
                            ![t] = IF status = "NO_PROGRESS" THEN @ + 1 ELSE 0]
    /\ UNCHANGED <<errCheckpoints, aborted>>

\* Nothing arrives; a connection the receiver is slow to accept times out.
ReadLocalCheckpointFails(t) ==
    /\ At(t, "READ_LOCAL_CHECKPOINT")
    /\ \/ SenderReadFails(t)
       \/ link[t] = "pending" /\ SenderHangsUp(t)
    /\ numReconnect' = [numReconnect EXCEPT ![t] = @ + 1]
    /\ Goto(t, "CONNECT", TRUE)
    /\ UNCHANGED <<historyVars, errCheckpoints, aborted>>

(* SEND_SETTINGS *)

SendSettings(t) ==
    /\ At(t, "SEND_SETTINGS")
    /\ \/ SenderWrites(t, Cmd("SETTINGS")) /\ Goto(t, "SEND_BLOCKS", FALSE)
       \/ SenderWriteFails(t) /\ Goto(t, "CONNECT", TRUE)
    /\ UNCHANGED <<historyVars, numReconnect, errCheckpoints, aborted>>

(* SEND_BLOCKS *)

TakeSource(t) ==
    /\ At(t, "SEND_BLOCKS")
    /\ GetNextSource(t)
    /\ senderState' = [senderState EXCEPT ![t] = "SENDING"]
    /\ UNCHANGED <<linkVars, senderError, numReconnect, errCheckpoints, aborted>>

SkipSource(t) ==
    /\ At(t, "SEND_BLOCKS")
    /\ SourceFailsToOpen(t)
    /\ Fault
    /\ UNCHANGED <<link, toReceiver, toSender, listening, senderVars>>

NoSourceLeft(t) ==
    /\ At(t, "SEND_BLOCKS")
    /\ queue = {}
    /\ Goto(t, "SEND_DONE_CMD", FALSE)
    /\ UNCHANGED <<historyVars, linkVars, numReconnect, errCheckpoints, aborted>>

\* sendOneByteSource; its error becomes the thread's.
SendOneByteSource(t) ==
    /\ At(t, "SENDING")
    /\ \/ /\ SenderWrites(t, BlockInHand(t))
          /\ UNCHANGED senderError
       \/ /\ SenderWriteFails(t)
          /\ senderError' = [senderError EXCEPT ![t] = TRUE]
       \/ /\ MustStop(t)
          /\ SenderWritesPart(t, BlockInHand(t)) /\ UNCHANGED faults
          /\ senderError' = [senderError EXCEPT ![t] = TRUE]
       \/ /\ link[t] # "pending"   \* the file cannot be read to its end
          /\ SenderWritesPart(t, BlockInHand(t)) /\ Fault
          /\ senderError' = [senderError EXCEPT ![t] = TRUE]
    /\ senderState' = [senderState EXCEPT ![t] = "SENT"]
    /\ UNCHANGED <<historyVars, numReconnect, errCheckpoints, aborted>>

AddSource(t) ==
    /\ At(t, "SENT")
    /\ \/ /\ AddSourceToHistory(t)
          /\ Goto(t, IF senderError[t] THEN "CHECK_FOR_ABORT" ELSE "SEND_BLOCKS",
                  senderError[t])
       \/ /\ AddSourceTooLate(t)
          /\ Goto(t, "END", TRUE)
    /\ UNCHANGED <<linkVars, numReconnect, errCheckpoints, aborted>>

(* SEND_DONE_CMD *)

SendDoneCmd(t) ==
    /\ At(t, "SEND_DONE_CMD")
    /\ \/ SenderWrites(t, Cmd("DONE")) /\ Goto(t, "READ_RECEIVER_CMD", FALSE)
       \/ SenderWriteFails(t) /\ Goto(t, "CHECK_FOR_ABORT", TRUE)
    /\ UNCHANGED <<historyVars, numReconnect, errCheckpoints, aborted>>

(* PROCESS_ABORT_CMD, entered from CHECK_FOR_ABORT and READ_RECEIVER_CMD *)

ProcessAbortCmd(t) ==
    /\ At(t, "CHECK_FOR_ABORT") \/ At(t, "READ_RECEIVER_CMD")
    /\ \/ SenderReads(t, Cmd("ABORT")) /\ aborted' = TRUE
       \/ SenderReads(t, Cmd("ABORT_CUT")) /\ UNCHANGED aborted
    /\ Goto(t, "END", TRUE)
    /\ UNCHANGED <<historyVars, numReconnect, errCheckpoints>>

\* CHECK_FOR_ABORT reads something else, or nothing at all.
NoAbortFound(t) ==
    /\ At(t, "CHECK_FOR_ABORT")
    /\ ~ (toSender[t] # <<>> /\ Head(toSender[t]).cmd \in {"ABORT", "ABORT_CUT"})
    /\ Goto(t, "CONNECT", TRUE)
    /\ UNCHANGED <<historyVars, linkVars, numReconnect, errCheckpoints, aborted>>

(* READ_RECEIVER_CMD and the states it leads to *)

ReadReceiverCmdFails(t) ==
    /\ At(t, "READ_RECEIVER_CMD") \/ At(t, "EXPECT_EOS")
    /\ SenderReadFails(t)
    /\ Goto(t, "CONNECT", TRUE)
    /\ UNCHANGED <<historyVars, numReconnect, errCheckpoints, aborted>>

ProcessWaitCmd(t) ==
    /\ At(t, "READ_RECEIVER_CMD")
    /\ SenderReads(t, Cmd("WAIT"))
    /\ MarkAllAcknowledged(t)
    /\ Goto(t, "READ_RECEIVER_CMD", FALSE)
    /\ UNCHANGED <<numReconnect, errCheckpoints, aborted>>

\* Mutation of ProcessDoneCmd: the receiver's tag is not waited for.
ProcessDoneCmdNoTag(t) ==
    /\ At(t, "READ_RECEIVER_CMD")
    /\ SenderReads(t, Cmd("DONE"))
    /\ MarkAllAcknowledged(t)
    /\ Goto(t, "END", FALSE)
    /\ UNCHANGED <<numReconnect, errCheckpoints, aborted>>

\* The acknowledgement is written without a check; the encryption tag that ends
\* the stream is checked, and so is the tag the receiver answers with.
ProcessDoneCmd(t) ==
    /\ At(t, "READ_RECEIVER_CMD")
    /\ toSender[t] # <<>> /\ Head(toSender[t]) = Cmd("DONE")
    /\ toSender' = [toSender EXCEPT ![t] = Tail(@)]
    /\ toReceiver' = IF link[t] = "up" THEN [toReceiver EXCEPT ![t] = Append(@, Cmd("DONE"))]
                     ELSE toReceiver
    /\ UNCHANGED <<link, listening, faults>>
    /\ MarkAllAcknowledged(t)
    /\ IF Verification # "tag" THEN Goto(t, "END", FALSE)
       ELSE \/ Goto(t, "EXPECT_EOS", FALSE)
            \/ link[t] = "cut" /\ Goto(t, "CONNECT", TRUE)
    /\ UNCHANGED <<numReconnect, errCheckpoints, aborted>>

ExpectEndOfStream(t) ==
    /\ At(t, "EXPECT_EOS")
    /\ SenderReads(t, Cmd("TAG"))
    /\ Goto(t, "END", FALSE)
    /\ UNCHANGED <<historyVars, numReconnect, errCheckpoints, aborted>>

ProcessErrCmd(t) ==
    /\ At(t, "READ_RECEIVER_CMD")
    /\ toSender[t] # <<>>
    /\ MarkAllAcknowledged(t)
    /\ \/ /\ Head(toSender[t]).cmd = "ERR"
          /\ SenderReads(t, Head(toSender[t]))
          /\ errCheckpoints' = [errCheckpoints EXCEPT ![t] = Head(toSender[t]).checkpoints]
          /\ senderState' = [senderState EXCEPT ![t] = "PROCESS_ERR_CMD"]
          /\ UNCHANGED senderError
       \/ /\ SenderReads(t, Cmd("ERR_CUT"))
          /\ Goto(t, "CONNECT", TRUE)
          /\ UNCHANGED errCheckpoints
    /\ UNCHANGED <<numReconnect, aborted>>

\* The loop of processErrCmd; the status handleGlobalCheckpoint gets is dropped.
HandleGlobalCheckpoint(t) ==
    /\ At(t, "PROCESS_ERR_CMD")
    /\ errCheckpoints[t] # <<>>
    /\ LET h == Head(errCheckpoints[t])
       IN  SetGlobalCheckpoint(t, h.port, h.checkpoint)
    /\ errCheckpoints' = [errCheckpoints EXCEPT ![t] = Tail(@)]
    /\ UNCHANGED <<linkVars, senderState, senderError, numReconnect, aborted>>

\* Mutation of OwnerEnded: the wait is left while the owner still runs.
OwnerNotEnded(t) ==
    /\ WakeUp(t)
    /\ UNCHANGED <<linkVars, senderVars>>

OwnerEnded(t) ==
    /\ StopWaiting(t)
    /\ UNCHANGED <<linkVars, senderVars>>

ErrCmdHandled(t) ==
    /\ At(t, "PROCESS_ERR_CMD")
    /\ errCheckpoints[t] = <<>>
    /\ Goto(t, "SEND_BLOCKS", FALSE)
    /\ UNCHANGED <<historyVars, linkVars, numReconnect, errCheckpoints, aborted>>

(* The loop in start() *)

\* The abort is noticed before the next state function, or by its socket call.
StopEarly(t) ==
    /\ MustStop(t)
    /\ waitingFor[t] = None
    /\ senderState[t] \notin {"SENDING", "SENT", "PROCESS_ERR_CMD", "END", "EXITED"}
    /\ Goto(t, senderState[t], TRUE)
    /\ UNCHANGED <<historyVars, linkVars, numReconnect, errCheckpoints, aborted>>

Exit(t) ==
    /\ At(t, "END")
    /\ MarkNotInUse(t)
    /\ SenderHangsUp(t)
    /\ senderState' = [senderState EXCEPT ![t] = "EXITED"]
    /\ UNCHANGED <<senderError, numReconnect, errCheckpoints, aborted>>

\* Sender::finish
Finish ==
    /\ \A t \in Threads : senderState[t] = "EXITED"
    /\ IF \E t \in Threads : ~ senderError[t] THEN FinishAllAcknowledged
       ELSE FinishReturnUnacked
    /\ UNCHANGED <<linkVars, senderVars>>

SenderStep(t) ==
    \/ Connect(t)              \/ ConnectFails(t)             \/ GiveUpReconnecting(t)
    \/ ReadLocalCheckpoint(t)  \/ ReadLocalCheckpointFails(t) \/ SendSettings(t)
    \/ TakeSource(t)           \/ SkipSource(t)               \/ NoSourceLeft(t)
    \/ SendOneByteSource(t)    \/ AddSource(t)                \/ SendDoneCmd(t)
    \/ ProcessAbortCmd(t)      \/ NoAbortFound(t)             \/ ReadReceiverCmdFails(t)
    \/ ProcessWaitCmd(t)       \/ ProcessDoneCmd(t)           \/ ExpectEndOfStream(t)
    \/ ProcessErrCmd(t)        \/ HandleGlobalCheckpoint(t)   \/ OwnerEnded(t)
    \/ ErrCmdHandled(t)        \/ StopEarly(t)                \/ Exit(t)
=============================================================================
