------------------------ MODULE ThreadTransferHistory ------------------------
(***************************************************************************)
(* The sender's record of what it has sent (util/ThreadTransferHistory).   *)
(*                                                                         *)
(* Every sender thread takes one source (block) at a time from the shared  *)
(* queue, sends it, and appends it to its own history.  A checkpoint from  *)
(* the receiver says how many blocks of a history arrived; the rest goes   *)
(* back to the queue, the first of them advanced past the bytes that did   *)
(* arrive.  A local checkpoint is handled by the thread that owns the      *)
(* history.  A global checkpoint, for a thread whose receiver died, is     *)
(* handled by another thread, which then waits until the owner has ended.  *)
(*                                                                         *)
(* Every operation holds the history's mutex throughout, so it is one      *)
(* step.  What the receiver reports is an input here, any member of        *)
(* PlausibleCheckpoints; module Transfer closes the loop.                  *)
(***************************************************************************)
EXTENDS Checkpoint

VARIABLES
    queue,             \* sources waiting in the DirectorySourceQueue
    failed,            \* sources the queue could not open
    offset,            \* offset[b]: first byte of b still to be sent
    hand,              \* hand[t]: source t has dequeued and not yet recorded
    history,           \* history_
    numAcknowledged,   \* numAcknowledged_
    lastCheckpoint,    \* lastCheckpoint_
    globalCheckpoint,  \* globalCheckpoint_
    inUse,             \* inUse_
    waitingFor,        \* waitingFor[t]: history t waits on in setGlobalCheckpoint
    finished           \* Sender::finish has settled the histories

historyVars == <<queue, failed, offset, hand, history, numAcknowledged,
                 lastCheckpoint, globalCheckpoint, inUse, waitingFor, finished>>

HistoryInit ==
    /\ queue = Blocks
    /\ failed = {}
    /\ offset = [b \in Blocks |-> 0]
    /\ hand = [t \in Threads |-> None]
    /\ history = [t \in Threads |-> <<>>]
    /\ numAcknowledged = [t \in Threads |-> 0]
    /\ lastCheckpoint = [t \in Threads |-> None]
    /\ globalCheckpoint = [t \in Threads |-> FALSE]
    /\ inUse = [t \in Threads |-> TRUE]
    /\ waitingFor = [t \in Threads |-> None]
    /\ finished = FALSE

----------------------------------------------------------------------------
(* DirectorySourceQueue, seen by one sender thread *)

\* The thread runs its own code: it has not ended and does not wait.
Active(t) == inUse[t] /\ waitingFor[t] = None

GetNextSource(t) ==
    /\ Active(t)
    /\ hand[t] = None
    /\ \E b \in queue :
          /\ queue' = queue \ {b}
          /\ hand' = [hand EXCEPT ![t] = b]
    /\ UNCHANGED <<failed, offset, history, numAcknowledged, lastCheckpoint,
                   globalCheckpoint, inUse, waitingFor, finished>>

\* getNextSource drops a source that does not open and tries the next one.
SourceFailsToOpen(t) ==
    /\ Active(t)
    /\ hand[t] = None
    /\ \E b \in queue :
          /\ queue' = queue \ {b}
          /\ failed' = failed \cup {b}
    /\ UNCHANGED <<offset, hand, history, numAcknowledged, lastCheckpoint,
                   globalCheckpoint, inUse, waitingFor, finished>>

----------------------------------------------------------------------------
(* ThreadTransferHistory *)

\* Mutation of OffsetAfter: the checkpoint's offset is not compared.
OffsetAfterSameFile(b, c) ==
    IF c # None /\ c.seqId = b THEN offset[b] + c.receivedBytes ELSE offset[b]

\* markSourceAsFailed: the bytes of b the checkpoint vouches for are skipped
\* when b is sent again, if the checkpoint is about exactly this block.
OffsetAfter(b, c) ==
    IF c # None /\ c.seqId = b /\ c.offset = offset[b]
    THEN offset[b] + c.receivedBytes
    ELSE offset[b]

\* Mutation of AddSourceToHistory: globalCheckpoint_ is not looked at.
AddSourceAnyway(t) ==
    /\ Active(t)
    /\ hand[t] # None
    /\ history' = [history EXCEPT ![t] = Append(@, hand[t])]
    /\ hand' = [hand EXCEPT ![t] = None]
    /\ UNCHANGED <<queue, failed, offset, numAcknowledged, lastCheckpoint,
                   globalCheckpoint, inUse, waitingFor, finished>>

\* addSource, when it keeps the source.
AddSourceToHistory(t) ==
    /\ Active(t)
    /\ hand[t] # None
    /\ ~ globalCheckpoint[t]
    /\ history' = [history EXCEPT ![t] = Append(@, hand[t])]
    /\ hand' = [hand EXCEPT ![t] = None]
    /\ UNCHANGED <<queue, failed, offset, numAcknowledged, lastCheckpoint,
                   globalCheckpoint, inUse, waitingFor, finished>>

\* addSource, when a global checkpoint came first: it returns false.
AddSourceTooLate(t) ==
    /\ Active(t)
    /\ hand[t] # None
    /\ globalCheckpoint[t]
    /\ offset' = [offset EXCEPT ![hand[t]] = OffsetAfter(hand[t], lastCheckpoint[t])]
    /\ lastCheckpoint' = [lastCheckpoint EXCEPT ![t] = None]
    /\ queue' = queue \cup {hand[t]}
    /\ hand' = [hand EXCEPT ![t] = None]
    /\ UNCHANGED <<failed, history, numAcknowledged, globalCheckpoint, inUse,
                   waitingFor, finished>>

\* Mutation of Validate: a checkpoint with no new block is invalid.
ValidateNeedsProgress(last, c, global) ==
    IF last # None /\ c.numBlocks <= last.numBlocks THEN "INVALID_CHECKPOINT" ELSE "OK"

\* validateCheckpoint
Validate(last, c, global) ==
    CASE last = None -> "OK"
      [] last # None /\ c.numBlocks < last.numBlocks -> "INVALID_CHECKPOINT"
      [] last # None /\ c.numBlocks > last.numBlocks -> "OK"
      [] last # None /\ c.numBlocks = last.numBlocks ->
            LET sameBlock == c.seqId = last.seqId /\ c.offset = last.offset
                sameBytes == c.receivedBytes = last.receivedBytes
                noProgress == sameBlock \/ c.receivedBytes = 0
            IN  IF sameBlock /\ ~ sameBytes THEN "INVALID_CHECKPOINT"
                ELSE IF noProgress /\ ~ global THEN "NO_PROGRESS"
                ELSE "OK"

\* The value setCheckpointAndReturnToQueue returns.
CheckpointStatus(t, c, global) ==
    IF c.numBlocks > Len(history[t])
    THEN "INVALID_CHECKPOINT"
    ELSE Validate(lastCheckpoint[t], c, global)

Rejected(t, c, global) == CheckpointStatus(t, c, global) = "INVALID_CHECKPOINT"

\* Mutations of Unreceived: the oldest unreceived source is kept back; the
\* whole history is given back.
UnreceivedButFirst(t, n) == {history[t][i] : i \in (n + 2)..Len(history[t])}
WholeHistory(t, n) == {history[t][i] : i \in 1..Len(history[t])}

\* The sources that an accepted checkpoint takes out of t's history.
Unreceived(t, n) == {history[t][i] : i \in (n + 1)..Len(history[t])}

\* Only the oldest of them can have arrived in part.
OffsetsAfter(t, c) ==
    [b \in Blocks |->
        IF c.numBlocks < Len(history[t]) /\ b = history[t][c.numBlocks + 1]
        THEN OffsetAfter(b, c)
        ELSE offset[b]]

\* setCheckpointAndReturnToQueue, on the history of t.
SetCheckpointAndReturnToQueue(t, c, global) ==
    \/ /\ Rejected(t, c, global)
       /\ UNCHANGED <<queue, offset, history, numAcknowledged, lastCheckpoint,
                      globalCheckpoint>>
    \/ /\ ~ Rejected(t, c, global)
       /\ globalCheckpoint' = [globalCheckpoint EXCEPT ![t] = @ \/ global]
       /\ lastCheckpoint' = [lastCheckpoint EXCEPT ![t] = c]
       /\ numAcknowledged' = [numAcknowledged EXCEPT ![t] = c.numBlocks]
       /\ history' = [history EXCEPT ![t] = SubSeq(@, 1, c.numBlocks)]
       /\ offset' = OffsetsAfter(t, c)
       /\ queue' = queue \cup Unreceived(t, c.numBlocks)

\* setLocalCheckpoint: the owner has reconnected and read c.
SetLocalCheckpoint(t, c) ==
    /\ Active(t)
    /\ hand[t] = None
    /\ SetCheckpointAndReturnToQueue(t, c, FALSE)
    /\ UNCHANGED <<failed, hand, inUse, waitingFor, finished>>

\* setGlobalCheckpoint: thread t was told that the receiver of e died with c.
\* It waits while e is in use, whether or not the checkpoint was accepted.
SetGlobalCheckpoint(t, e, c) ==
    /\ Active(t)
    /\ hand[t] = None
    /\ e # t
    /\ SetCheckpointAndReturnToQueue(e, c, TRUE)
    /\ waitingFor' = [waitingFor EXCEPT ![t] = IF inUse[e] THEN e ELSE None]
    /\ UNCHANGED <<failed, hand, inUse, finished>>

\* Mutation of StopWaiting: a spurious wake-up of the condition variable.
WakeUp(t) ==
    /\ waitingFor[t] # None
    /\ waitingFor' = [waitingFor EXCEPT ![t] = None]
    /\ UNCHANGED <<queue, failed, offset, hand, history, numAcknowledged,
                   lastCheckpoint, globalCheckpoint, inUse, finished>>

\* The wait in setGlobalCheckpoint returns.
StopWaiting(t) ==
    /\ waitingFor[t] # None
    /\ ~ inUse[waitingFor[t]]
    /\ waitingFor' = [waitingFor EXCEPT ![t] = None]
    /\ UNCHANGED <<queue, failed, offset, hand, history, numAcknowledged,
                   lastCheckpoint, globalCheckpoint, inUse, finished>>

MarkAllAcknowledged(t) ==
    /\ Active(t)
    /\ hand[t] = None
    /\ numAcknowledged' = [numAcknowledged EXCEPT ![t] = Len(history[t])]
    /\ UNCHANGED <<queue, failed, offset, hand, history, lastCheckpoint,
                   globalCheckpoint, inUse, waitingFor, finished>>

\* The thread's state machine has ended; it holds no source.
MarkNotInUse(t) ==
    /\ Active(t)
    /\ hand[t] = None
    /\ inUse' = [inUse EXCEPT ![t] = FALSE]
    /\ UNCHANGED <<queue, failed, offset, hand, history, numAcknowledged,
                   lastCheckpoint, globalCheckpoint, waitingFor, finished>>

----------------------------------------------------------------------------
(* Sender::finish, after every thread was joined *)

AllJoined == ~ finished /\ \A t \in Threads : ~ inUse[t]

\* Some thread ended without an error.
FinishAllAcknowledged ==
    /\ AllJoined
    /\ finished' = TRUE
    /\ numAcknowledged' = [t \in Threads |-> Len(history[t])]
    /\ UNCHANGED <<queue, failed, offset, hand, history, lastCheckpoint,
                   globalCheckpoint, inUse, waitingFor>>

\* returnUnackedSourcesToQueue on every history: a local checkpoint that holds
\* nothing but numAcknowledged_.
FinishReturnUnacked ==
    LET c(t) == NoPartialBlock(numAcknowledged[t])
        kept == {t \in Threads : Rejected(t, c(t), FALSE)}
        settled == Threads \ kept
    IN  /\ AllJoined
        /\ finished' = TRUE
        /\ lastCheckpoint' = [t \in Threads |-> IF t \in kept THEN lastCheckpoint[t] ELSE c(t)]
        /\ history' = [t \in Threads |->
                         IF t \in kept THEN history[t]
                         ELSE SubSeq(history[t], 1, numAcknowledged[t])]
        /\ queue' = queue \cup UNION {Unreceived(t, numAcknowledged[t]) : t \in settled}
        /\ UNCHANGED <<failed, offset, hand, numAcknowledged, globalCheckpoint,
                       inUse, waitingFor>>

----------------------------------------------------------------------------
HistoryNext ==
    \/ \E t \in Threads :
          \/ GetNextSource(t)
          \/ SourceFailsToOpen(t)
          \/ AddSourceToHistory(t)
          \/ AddSourceTooLate(t)
          \/ \E c \in PlausibleCheckpoints : SetLocalCheckpoint(t, c)
          \/ \E e \in Threads, c \in PlausibleCheckpoints : SetGlobalCheckpoint(t, e, c)
          \/ StopWaiting(t)
          \/ MarkAllAcknowledged(t)
          \/ MarkNotInUse(t)
    \/ FinishAllAcknowledged
    \/ FinishReturnUnacked

HistorySpec == HistoryInit /\ [][HistoryNext]_historyVars

----------------------------------------------------------------------------
(* Properties *)

\* The types; offset[b] never passes the end of its block.
HistoryTypeOK ==
    /\ queue \in SUBSET Blocks
    /\ failed \in SUBSET Blocks
    /\ offset \in [Blocks -> 0..BlockSize]
    /\ hand \in [Threads -> {None} \cup Blocks]
    /\ history \in [Threads -> Seq(Blocks)]
    /\ numAcknowledged \in [Threads -> Nat]
    /\ lastCheckpoint \in [Threads -> {None} \cup CheckpointRecords]
    /\ globalCheckpoint \in [Threads -> BOOLEAN]
    /\ inUse \in [Threads -> BOOLEAN]
    /\ waitingFor \in [Threads -> {None} \cup Threads]
    /\ finished \in BOOLEAN

InHistory(t, b) == \E i \in 1..Len(history[t]) : history[t][i] = b

\* No source is lost: whatever interleaving of sends, local and global
\* checkpoints and thread ends, every source is queued, failed, held by a
\* thread or recorded in a history.
EveryBlockAccounted ==
    \A b \in Blocks :
        \/ b \in queue
        \/ b \in failed
        \/ \E t \in Threads : hand[t] = b \/ InHistory(t, b)

\* No source is duplicated: the ways a source comes back to the queue (its own
\* thread's reconnect, another thread's global checkpoint, addSource coming too
\* late) never leave it in two places, so no block is sent by two threads.
NoBlockTwice ==
    /\ queue \cap failed = {}
    /\ \A t \in Threads :
        /\ hand[t] \notin queue \cup failed
        /\ \A i \in 1..Len(history[t]) :
            /\ history[t][i] \notin queue \cup failed
            /\ \A u \in Threads :
                /\ hand[u] # history[t][i]
                /\ \A j \in 1..Len(history[u]) :
                        history[u][j] = history[t][i] => u = t /\ j = i
        /\ \A u \in Threads : u # t /\ hand[t] # None => hand[u] # hand[t]

\* Acknowledgements never run ahead of the history they index, even when a
\* checkpoint shortens it: popAckedSourceStats and returnUnackedSourcesToQueue
\* rely on it.
AckedWithinHistory ==
    \A t \in Threads : numAcknowledged[t] <= Len(history[t])

\* Once a global checkpoint was accepted for a thread, its history is exactly
\* what that checkpoint acknowledged, for good: a source the thread was still
\* sending goes back to the queue and never into the history, where no other
\* thread would look for it.
GlobalCheckpointFreezesHistory ==
    \A t \in Threads : globalCheckpoint[t] => Len(history[t]) = numAcknowledged[t]

\* A thread that recovers for e leaves setGlobalCheckpoint only when e has
\* given back everything the receiver of e lacks: nothing of e is in flight.
RecoveryWaitsForOwner ==
    [][\A t \in Threads :
          LET e == waitingFor[t] IN
          (e # None /\ waitingFor'[t] = None /\ globalCheckpoint[e])
              => hand[e] = None /\ Len(history[e]) = numAcknowledged[e]]_historyVars

\* WDT_CHECK in popAckedSourceStats: when Sender::finish has settled the
\* histories, each holds exactly its acknowledged sources.
FinishLeavesOnlyAcked ==
    finished => \A t \in Threads : numAcknowledged[t] = Len(history[t])
=============================================================================
