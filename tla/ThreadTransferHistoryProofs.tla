--------------------- MODULE ThreadTransferHistoryProofs ---------------------
(***************************************************************************)
(* Proofs about the transfer histories, for any number of threads, blocks  *)
(* and bytes and any plausible sequence of checkpoints.                    *)
(*                                                                         *)
(* Bookkeeping is the inductive invariant about counts and flags; with it, *)
(* Accounting (no block lost, no block twice) is inductive too.            *)
(***************************************************************************)
EXTENDS ThreadTransferHistory, SequenceTheorems, TLAPS

\* What the last accepted checkpoint of t looks like.
LastCheckpointOK(t) ==
    lastCheckpoint[t] # None =>
        /\ lastCheckpoint[t].numBlocks <= numAcknowledged[t]
        /\ lastCheckpoint[t].offset + lastCheckpoint[t].receivedBytes <= BlockSize
        /\ (0 \notin Blocks /\ lastCheckpoint[t].seqId = 0)
               => lastCheckpoint[t].receivedBytes = 0

Bookkeeping ==
    /\ HistoryTypeOK
    /\ AckedWithinHistory
    /\ GlobalCheckpointFreezesHistory
    /\ \A t \in Threads : LastCheckpointOK(t)
    /\ \A t \in Threads : hand[t] # None => inUse[t]
    /\ finished => \A t \in Threads : ~ inUse[t]

----------------------------------------------------------------------------
(* Checkpoints and sequences *)

\* A plausible checkpoint is a record of naturals that stays inside the block.
LEMMA PlausibleFields ==
    ASSUME NEW c \in PlausibleCheckpoints
    PROVE  /\ c \in CheckpointRecords
           /\ c.offset + c.receivedBytes <= BlockSize
           /\ (0 \notin Blocks /\ c.seqId = 0) => c.receivedBytes = 0
<1> USE BlocksAssumption, SizesAssumption
<1>1. CASE \E n \in 0..MaxNumBlocks : c = NoPartialBlock(n)
  BY <1>1 DEF PlausibleCheckpoints, NoPartialBlock, CheckpointRecords
<1>2. CASE \E n \in 0..MaxNumBlocks, b \in Blocks, o, k \in 0..BlockSize :
             c = PartialBlock(n, b, o, k)
  BY <1>2 DEF PlausibleCheckpoints, PartialBlock, CheckpointRecords
<1> QED
  BY <1>1, <1>2 DEF PlausibleCheckpoints, Checkpoints

\* The first n elements of a sequence.
LEMMA Prefix ==
    ASSUME NEW S, NEW s \in Seq(S), NEW n \in 0..Len(s)
    PROVE  /\ SubSeq(s, 1, n) \in Seq(S)
           /\ Len(SubSeq(s, 1, n)) = n
           /\ \A i \in 1..n : SubSeq(s, 1, n)[i] = s[i]
<1>1. Len(s) \in Nat /\ \A i \in 1..n : s[i] \in S
  BY LenProperties
<1>2. /\ SubSeq(s, 1, n) \in Seq(S)
      /\ Len(SubSeq(s, 1, n)) = IF 1 <= n THEN n - 1 + 1 ELSE 0
      /\ \A i \in 1..(n - 1 + 1) : SubSeq(s, 1, n)[i] = s[1 + i - 1]
  BY <1>1, SubSeqProperties
<1> QED
  BY <1>1, <1>2

----------------------------------------------------------------------------
(* What a checkpoint does to the bookkeeping *)

\* markSourceAsFailed never moves the offset past the end of the block.
LEMMA OffsetAfterInBlock ==
    ASSUME NEW b \in Blocks, offset \in [Blocks -> 0..BlockSize], NEW c,
           c # None => /\ c \in CheckpointRecords
                       /\ c.offset + c.receivedBytes <= BlockSize
    PROVE  OffsetAfter(b, c) \in 0..BlockSize
BY SizesAssumption DEF OffsetAfter, CheckpointRecords

\* setCheckpointAndReturnToQueue keeps the history of t and its counts together.
LEMMA CheckpointBookkeeping ==
    ASSUME Bookkeeping, NEW t \in Threads, NEW c \in PlausibleCheckpoints,
           NEW g \in BOOLEAN, SetCheckpointAndReturnToQueue(t, c, g)
    PROVE  /\ queue' \in SUBSET Blocks
           /\ offset' \in [Blocks -> 0..BlockSize]
           /\ history' \in [Threads -> Seq(Blocks)]
           /\ numAcknowledged' \in [Threads -> Nat]
           /\ lastCheckpoint' \in [Threads -> {None} \cup CheckpointRecords]
           /\ globalCheckpoint' \in [Threads -> BOOLEAN]
           /\ AckedWithinHistory'
           /\ GlobalCheckpointFreezesHistory'
           /\ \A u \in Threads : LastCheckpointOK(u)'
<1> USE DEF Bookkeeping, HistoryTypeOK
<1>1. CASE Rejected(t, c, g)
  <2>1. UNCHANGED <<queue, offset, history, numAcknowledged, lastCheckpoint, globalCheckpoint>>
    BY <1>1 DEF SetCheckpointAndReturnToQueue
  <2> QED
    BY <2>1 DEF AckedWithinHistory, GlobalCheckpointFreezesHistory, LastCheckpointOK
<1>2. CASE ~ Rejected(t, c, g)
  <2> DEFINE n == c.numBlocks
  <2>1. /\ globalCheckpoint' = [globalCheckpoint EXCEPT ![t] = @ \/ g]
        /\ lastCheckpoint' = [lastCheckpoint EXCEPT ![t] = c]
        /\ numAcknowledged' = [numAcknowledged EXCEPT ![t] = n]
        /\ history' = [history EXCEPT ![t] = SubSeq(@, 1, n)]
        /\ offset' = OffsetsAfter(t, c)
        /\ queue' = queue \cup Unreceived(t, n)
    BY <1>2 DEF SetCheckpointAndReturnToQueue
  <2>2. /\ c \in CheckpointRecords
        /\ c.offset + c.receivedBytes <= BlockSize
        /\ (0 \notin Blocks /\ c.seqId = 0) => c.receivedBytes = 0
    BY PlausibleFields
  <2>3. history[t] \in Seq(Blocks) /\ Len(history[t]) \in Nat
    BY LenProperties
  <2>4. n \in 0..Len(history[t])
    BY <1>2, <2>2, <2>3 DEF Rejected, CheckpointStatus, CheckpointRecords
  <2>5. SubSeq(history[t], 1, n) \in Seq(Blocks) /\ Len(SubSeq(history[t], 1, n)) = n
    BY <2>3, <2>4, Prefix
  <2>6. queue' \in SUBSET Blocks
    BY <2>1, <2>3, <2>4, ElementOfSeq DEF Unreceived
  <2>7. offset' \in [Blocks -> 0..BlockSize]
    BY <2>1, <2>2, OffsetAfterInBlock, Zenon DEF OffsetsAfter
  <2>8. history' \in [Threads -> Seq(Blocks)] /\ numAcknowledged' \in [Threads -> Nat]
    BY <2>1, <2>4, <2>5
  <2>9. /\ lastCheckpoint' \in [Threads -> {None} \cup CheckpointRecords]
        /\ globalCheckpoint' \in [Threads -> BOOLEAN]
    BY <2>1, <2>2
  <2>10. AckedWithinHistory' /\ GlobalCheckpointFreezesHistory'
    BY <2>1, <2>5, <2>2 DEF AckedWithinHistory, GlobalCheckpointFreezesHistory,
                            CheckpointRecords
  <2>11. \A u \in Threads : LastCheckpointOK(u)'
    BY <2>1, <2>2 DEF LastCheckpointOK, CheckpointRecords
  <2> QED
    BY <2>6, <2>7, <2>8, <2>9, <2>10, <2>11
<1> QED
  BY <1>1, <1>2

----------------------------------------------------------------------------
(* Bookkeeping is inductive *)

\* Empty histories with nothing acknowledged satisfy the bookkeeping.
LEMMA InitBookkeeping == HistoryInit => Bookkeeping
<1> SUFFICES ASSUME HistoryInit PROVE Bookkeeping
  OBVIOUS
<1>1. <<>> \in Seq(Blocks) /\ Len(<<>>) = 0
  BY EmptySeq
<1>2. HistoryTypeOK
  <2>1. offset \in [Blocks -> 0..BlockSize] /\ numAcknowledged \in [Threads -> Nat]
    BY SizesAssumption DEF HistoryInit
  <2>2. history \in [Threads -> Seq(Blocks)]
    BY <1>1 DEF HistoryInit
  <2>3. /\ hand \in [Threads -> {None} \cup Blocks]
        /\ lastCheckpoint \in [Threads -> {None} \cup CheckpointRecords]
        /\ waitingFor \in [Threads -> {None} \cup Threads]
    BY DEF HistoryInit
  <2>4. /\ globalCheckpoint \in [Threads -> BOOLEAN]
        /\ inUse \in [Threads -> BOOLEAN]
        /\ finished \in BOOLEAN
    BY Zenon DEF HistoryInit
  <2> QED
    BY <2>1, <2>2, <2>3, <2>4 DEF HistoryInit, HistoryTypeOK
<1>3. AckedWithinHistory /\ GlobalCheckpointFreezesHistory
  BY <1>1 DEF HistoryInit, AckedWithinHistory, GlobalCheckpointFreezesHistory
<1> QED
  BY <1>2, <1>3 DEF HistoryInit, Bookkeeping, LastCheckpointOK

\* addSource after a global checkpoint: the history stays as it is, and so does
\* everything that is counted.
LEMMA TooLateBookkeeping ==
    ASSUME Bookkeeping, NEW t \in Threads, AddSourceTooLate(t)
    PROVE  Bookkeeping'
<1> USE DEF Bookkeeping, HistoryTypeOK, AddSourceTooLate, Active
<1>1. hand[t] \in Blocks /\ lastCheckpoint[t] \in {None} \cup CheckpointRecords
  OBVIOUS
<1>2. OffsetAfter(hand[t], lastCheckpoint[t]) \in 0..BlockSize
  BY <1>1, OffsetAfterInBlock, Zenon DEF LastCheckpointOK
<1>3. HistoryTypeOK'
  BY <1>1, <1>2
<1>4. AckedWithinHistory' /\ GlobalCheckpointFreezesHistory'
  BY DEF AckedWithinHistory, GlobalCheckpointFreezesHistory
<1>5. \A u \in Threads : LastCheckpointOK(u)'
  BY DEF LastCheckpointOK
<1> QED
  BY <1>3, <1>4, <1>5

\* returnUnackedSourcesToQueue on every history.
LEMMA ReturnUnackedBookkeeping ==
    ASSUME Bookkeeping, FinishReturnUnacked
    PROVE  Bookkeeping'
<1> USE DEF Bookkeeping, HistoryTypeOK
<1> DEFINE c(t) == NoPartialBlock(numAcknowledged[t])
           kept == {t \in Threads : Rejected(t, c(t), FALSE)}
<1>1. /\ finished' = TRUE
      /\ \A t \in Threads : ~ inUse[t]
      /\ lastCheckpoint' = [t \in Threads |-> IF t \in kept THEN lastCheckpoint[t] ELSE c(t)]
      /\ history' = [t \in Threads |->
                       IF t \in kept THEN history[t]
                       ELSE SubSeq(history[t], 1, numAcknowledged[t])]
      /\ queue' = queue \cup UNION {Unreceived(t, numAcknowledged[t]) : t \in Threads \ kept}
      /\ UNCHANGED <<failed, offset, hand, numAcknowledged, globalCheckpoint, inUse, waitingFor>>
  BY DEF FinishReturnUnacked, AllJoined
<1> HIDE DEF kept
<1>2. ASSUME NEW t \in Threads
      PROVE  /\ Len(history[t]) \in Nat
             /\ SubSeq(history[t], 1, numAcknowledged[t]) \in Seq(Blocks)
             /\ Len(SubSeq(history[t], 1, numAcknowledged[t])) = numAcknowledged[t]
             /\ Unreceived(t, numAcknowledged[t]) \subseteq Blocks
  <2>1. history[t] \in Seq(Blocks) /\ Len(history[t]) \in Nat
    BY LenProperties
  <2>2. numAcknowledged[t] \in 0..Len(history[t])
    BY <2>1 DEF AckedWithinHistory
  <2> QED
    BY <2>1, <2>2, Prefix, ElementOfSeq DEF Unreceived
<1>3. history' \in [Threads -> Seq(Blocks)] /\ queue' \in SUBSET Blocks
  BY <1>1, <1>2
<1>4. lastCheckpoint' \in [Threads -> {None} \cup CheckpointRecords]
  BY <1>1 DEF NoPartialBlock, CheckpointRecords
<1>5. AckedWithinHistory' /\ GlobalCheckpointFreezesHistory'
  BY <1>1, <1>2 DEF AckedWithinHistory, GlobalCheckpointFreezesHistory
<1>6. \A t \in Threads : LastCheckpointOK(t)'
  BY <1>1, SizesAssumption DEF LastCheckpointOK, NoPartialBlock
<1> QED
  BY <1>1, <1>3, <1>4, <1>5, <1>6

\* Every operation on the histories, and Sender::finish, keeps the bookkeeping.
LEMMA NextBookkeeping == Bookkeeping /\ [HistoryNext]_historyVars => Bookkeeping'
<1> SUFFICES ASSUME Bookkeeping, [HistoryNext]_historyVars PROVE Bookkeeping'
  OBVIOUS
<1> USE DEF Active
<1>1. ASSUME NEW t \in Threads, GetNextSource(t) \/ SourceFailsToOpen(t) PROVE Bookkeeping'
  BY <1>1 DEF Bookkeeping, HistoryTypeOK, GetNextSource, SourceFailsToOpen, AckedWithinHistory,
              GlobalCheckpointFreezesHistory, LastCheckpointOK
<1>2. ASSUME NEW t \in Threads, AddSourceToHistory(t) PROVE Bookkeeping'
  <2> USE <1>2 DEF Bookkeeping, HistoryTypeOK, AddSourceToHistory
  <2>1. /\ Append(history[t], hand[t]) \in Seq(Blocks)
        /\ Len(Append(history[t], hand[t])) = Len(history[t]) + 1
        /\ Len(history[t]) \in Nat
    BY AppendProperties, LenProperties
  <2>2. HistoryTypeOK'
    BY <2>1
  <2>3. AckedWithinHistory' /\ GlobalCheckpointFreezesHistory'
    BY <2>1 DEF AckedWithinHistory, GlobalCheckpointFreezesHistory
  <2>4. \A u \in Threads : LastCheckpointOK(u)'
    BY DEF LastCheckpointOK
  <2> QED
    BY <2>2, <2>3, <2>4
<1>3. ASSUME NEW t \in Threads, AddSourceTooLate(t) PROVE Bookkeeping'
  BY <1>3, TooLateBookkeeping
<1>4. ASSUME NEW t \in Threads, NEW c \in PlausibleCheckpoints, SetLocalCheckpoint(t, c)
      PROVE  Bookkeeping'
  BY <1>4, CheckpointBookkeeping, Zenon DEF SetLocalCheckpoint, Bookkeeping, HistoryTypeOK
<1>5. ASSUME NEW t \in Threads, NEW e \in Threads, NEW c \in PlausibleCheckpoints,
             SetGlobalCheckpoint(t, e, c)
      PROVE  Bookkeeping'
  BY <1>5, CheckpointBookkeeping, Zenon DEF SetGlobalCheckpoint, Bookkeeping, HistoryTypeOK
<1>6. ASSUME NEW t \in Threads, StopWaiting(t) PROVE Bookkeeping'
  BY <1>6 DEF Bookkeeping, HistoryTypeOK, StopWaiting, AckedWithinHistory,
              GlobalCheckpointFreezesHistory, LastCheckpointOK
<1>7. ASSUME NEW t \in Threads, MarkAllAcknowledged(t) PROVE Bookkeeping'
  <2> USE <1>7 DEF Bookkeeping, HistoryTypeOK, MarkAllAcknowledged
  <2>1. Len(history[t]) \in Nat
    BY LenProperties
  <2>2. AckedWithinHistory' /\ GlobalCheckpointFreezesHistory'
    BY <2>1 DEF AckedWithinHistory, GlobalCheckpointFreezesHistory
  <2>3. \A u \in Threads : LastCheckpointOK(u)'
    BY <2>1 DEF LastCheckpointOK, AckedWithinHistory, CheckpointRecords
  <2> QED
    BY <2>1, <2>2, <2>3
<1>8. ASSUME NEW t \in Threads, MarkNotInUse(t) PROVE Bookkeeping'
  BY <1>8 DEF Bookkeeping, HistoryTypeOK, MarkNotInUse, AckedWithinHistory,
              GlobalCheckpointFreezesHistory, LastCheckpointOK
<1>9. ASSUME FinishAllAcknowledged PROVE Bookkeeping'
  <2> USE <1>9 DEF Bookkeeping, HistoryTypeOK, FinishAllAcknowledged, AllJoined
  <2>1. \A t \in Threads : Len(history[t]) \in Nat
    BY LenProperties
  <2>2. AckedWithinHistory' /\ GlobalCheckpointFreezesHistory'
    BY <2>1 DEF AckedWithinHistory, GlobalCheckpointFreezesHistory
  <2>3. \A u \in Threads : LastCheckpointOK(u)'
    BY <2>1 DEF LastCheckpointOK, AckedWithinHistory, CheckpointRecords
  <2> QED
    BY <2>1, <2>2, <2>3
<1>10. ASSUME FinishReturnUnacked PROVE Bookkeeping'
  BY <1>10, ReturnUnackedBookkeeping
<1>11. ASSUME UNCHANGED historyVars PROVE Bookkeeping'
  BY <1>11 DEF Bookkeeping, HistoryTypeOK, historyVars, AckedWithinHistory,
               GlobalCheckpointFreezesHistory, LastCheckpointOK
<1> QED
  BY <1>1, <1>2, <1>3, <1>4, <1>5, <1>6, <1>7, <1>8, <1>9, <1>10, <1>11 DEF HistoryNext

\* The type invariant and the counts hold of every behaviour of the histories.
THEOREM BookkeepingTheorem == HistorySpec => []Bookkeeping
BY InitBookkeeping, NextBookkeeping, PTL DEF HistorySpec

\* Every variable of the histories keeps its type; in particular the offset a
\* checkpoint moves stays within the block.
THEOREM TypeTheorem == HistorySpec => []HistoryTypeOK
BY BookkeepingTheorem, PTL DEF Bookkeeping

\* numAcknowledged_ never exceeds the length of the history it counts.
THEOREM AckedTheorem == HistorySpec => []AckedWithinHistory
BY BookkeepingTheorem, PTL DEF Bookkeeping

\* A global checkpoint freezes the history of the thread it is about.
THEOREM FreezeTheorem == HistorySpec => []GlobalCheckpointFreezesHistory
BY BookkeepingTheorem, PTL DEF Bookkeeping

----------------------------------------------------------------------------
(* Recovery and the end of the transfer *)

\* A thread that recovers for e goes on only when e holds nothing and has
\* given back what its receiver lacks.
THEOREM RecoveryTheorem == HistorySpec => RecoveryWaitsForOwner
<1> DEFINE A == \A t \in Threads :
                  LET e == waitingFor[t] IN
                  (e # None /\ waitingFor'[t] = None /\ globalCheckpoint[e])
                      => hand[e] = None /\ Len(history[e]) = numAcknowledged[e]
<1>1. Bookkeeping /\ [HistoryNext]_historyVars => [A]_historyVars
  <2> SUFFICES ASSUME Bookkeeping, HistoryNext, NEW t \in Threads,
                      waitingFor[t] # None, waitingFor'[t] = None,
                      globalCheckpoint[waitingFor[t]]
               PROVE  /\ hand[waitingFor[t]] = None
                      /\ Len(history[waitingFor[t]]) = numAcknowledged[waitingFor[t]]
    OBVIOUS
  <2>1. waitingFor \in [Threads -> {None} \cup Threads] /\ waitingFor[t] \in Threads
    BY DEF Bookkeeping, HistoryTypeOK
  <2>2. PICK u \in Threads : StopWaiting(u)
    BY <2>1, Zenon DEF HistoryNext, Active, GetNextSource, SourceFailsToOpen, AddSourceToHistory,
          AddSourceTooLate, SetLocalCheckpoint, SetGlobalCheckpoint, MarkAllAcknowledged,
          MarkNotInUse, FinishAllAcknowledged, FinishReturnUnacked
  <2>3. ~ inUse[waitingFor[t]]
    BY <2>1, <2>2 DEF StopWaiting
  <2> QED
    BY <2>1, <2>3 DEF Bookkeeping, GlobalCheckpointFreezesHistory
<1> QED
  BY <1>1, BookkeepingTheorem, PTL DEF HistorySpec, RecoveryWaitsForOwner

\* returnUnackedSourcesToQueue is never rejected, if no block has seq-id 0: the
\* checkpoint it makes up does not contradict the last one.
LEMMA UnackedNotRejected ==
    ASSUME 0 \notin Blocks, Bookkeeping, NEW t \in Threads
    PROVE  ~ Rejected(t, NoPartialBlock(numAcknowledged[t]), FALSE)
<1> DEFINE c == NoPartialBlock(numAcknowledged[t])
           last == lastCheckpoint[t]
<1>1. /\ c.numBlocks = numAcknowledged[t] /\ c.seqId = 0
      /\ c.offset = 0 /\ c.receivedBytes = 0
  BY DEF NoPartialBlock
<1>2. numAcknowledged[t] \in Nat /\ Len(history[t]) \in Nat
  BY LenProperties DEF Bookkeeping, HistoryTypeOK
<1>3. ~ (c.numBlocks > Len(history[t]))
  BY <1>1, <1>2 DEF Bookkeeping, AckedWithinHistory
<1> HIDE DEF c
<1>4. CASE last = None
  BY <1>4, <1>3 DEF Rejected, CheckpointStatus, Validate, c
<1>5. CASE last # None
  <2>1. /\ last \in CheckpointRecords
        /\ last.numBlocks <= numAcknowledged[t]
        /\ last.seqId = 0 => last.receivedBytes = 0
    BY <1>5 DEF Bookkeeping, HistoryTypeOK, LastCheckpointOK
  <2>2. Validate(last, c, FALSE) # "INVALID_CHECKPOINT"
    BY <1>1, <1>2, <1>5, <2>1 DEF Validate, CheckpointRecords
  <2> QED
    BY <1>3, <2>2, Zenon DEF Rejected, CheckpointStatus, c
<1> QED
  BY <1>4, <1>5, Zenon

\* The check in popAckedSourceStats cannot fail: after Sender::finish every
\* history holds exactly its acknowledged sources.
THEOREM FinishTheorem ==
    ASSUME 0 \notin Blocks
    PROVE  HistorySpec => []FinishLeavesOnlyAcked
<1>1. HistoryInit => FinishLeavesOnlyAcked
  BY DEF HistoryInit, FinishLeavesOnlyAcked
<1>2. Bookkeeping /\ Bookkeeping' /\ FinishLeavesOnlyAcked /\ [HistoryNext]_historyVars
        => FinishLeavesOnlyAcked'
  <2> SUFFICES ASSUME Bookkeeping, FinishLeavesOnlyAcked, [HistoryNext]_historyVars, finished'
               PROVE  \A t \in Threads : numAcknowledged'[t] = Len(history'[t])
    BY DEF FinishLeavesOnlyAcked
  <2>1. CASE finished
    <3>1. \A t \in Threads : ~ inUse[t]
      BY <2>1 DEF Bookkeeping
    <3>2. UNCHANGED <<numAcknowledged, history>>
      BY <2>1, <3>1, Zenon DEF HistoryNext, historyVars, Active, GetNextSource, SourceFailsToOpen,
            AddSourceToHistory, AddSourceTooLate, SetLocalCheckpoint, SetGlobalCheckpoint,
            StopWaiting, MarkAllAcknowledged, MarkNotInUse, FinishAllAcknowledged,
            FinishReturnUnacked, AllJoined
    <3> QED
      BY <2>1, <3>2 DEF FinishLeavesOnlyAcked
  <2>2. CASE ~ finished
    <3>1. FinishAllAcknowledged \/ FinishReturnUnacked
      BY <2>2, Zenon DEF HistoryNext, historyVars, GetNextSource, SourceFailsToOpen,
            AddSourceToHistory, AddSourceTooLate, SetLocalCheckpoint, SetGlobalCheckpoint,
            StopWaiting, MarkAllAcknowledged, MarkNotInUse
    <3>2. CASE FinishAllAcknowledged
      BY <3>2 DEF FinishAllAcknowledged
    <3>3. CASE FinishReturnUnacked
      <4>1. ASSUME NEW t \in Threads
            PROVE  numAcknowledged'[t] = Len(history'[t])
        <5>1. ~ Rejected(t, NoPartialBlock(numAcknowledged[t]), FALSE)
          BY UnackedNotRejected, Zenon
        <5>2. /\ history'[t] = SubSeq(history[t], 1, numAcknowledged[t])
              /\ numAcknowledged' = numAcknowledged
          BY <3>3, <5>1, Zenon DEF FinishReturnUnacked
        <5>3. history[t] \in Seq(Blocks) /\ numAcknowledged[t] \in 0..Len(history[t])
          BY LenProperties DEF Bookkeeping, HistoryTypeOK, AckedWithinHistory
        <5> QED
          BY <5>2, <5>3, Prefix
      <4> QED
        BY <4>1
    <3> QED
      BY <3>1, <3>2, <3>3
  <2> QED
    BY <2>1, <2>2
<1> QED
  BY <1>1, <1>2, BookkeepingTheorem, PTL DEF HistorySpec

----------------------------------------------------------------------------
(* No block is lost and no block is in two places *)

\* Where the sources are: nowhere lost, nowhere duplicated.
Accounting == EveryBlockAccounted /\ NoBlockTwice

\* At the start every source is in the queue and nowhere else.
LEMMA InitAccounting == HistoryInit => Accounting
<1> SUFFICES ASSUME HistoryInit PROVE Accounting
  OBVIOUS
<1>1. \A t \in Threads : Len(history[t]) = 0
  BY EmptySeq DEF HistoryInit
<1>2. EveryBlockAccounted
  BY DEF HistoryInit, EveryBlockAccounted
<1>3. NoBlockTwice
  BY <1>1, NoneAssumption DEF HistoryInit, NoBlockTwice
<1> QED
  BY <1>2, <1>3 DEF Accounting

\* Each history loses a suffix of its own and the queue gains exactly the lost
\* blocks: what a checkpoint, and the end of the transfer, do.
LEMMA SuffixesReturned ==
    ASSUME Bookkeeping, Accounting,
           NEW n \in [Threads -> Nat], \A t \in Threads : n[t] <= Len(history[t]),
           history' = [t \in Threads |-> SubSeq(history[t], 1, n[t])],
           queue' = queue \cup UNION {Unreceived(t, n[t]) : t \in Threads},
           UNCHANGED <<hand, failed>>
    PROVE  Accounting'
<1>1. \A t \in Threads : history[t] \in Seq(Blocks) /\ Len(history[t]) \in Nat
  BY LenProperties DEF Bookkeeping, HistoryTypeOK
<1>2. ASSUME NEW t \in Threads
      PROVE  Len(history'[t]) = n[t] /\ \A i \in 1..n[t] : history'[t][i] = history[t][i]
  <2>1. n[t] \in 0..Len(history[t])
    BY <1>1
  <2> QED
    BY <1>1, <2>1, Prefix
<1>3. /\ queue \subseteq queue'
      /\ \A t \in Threads : Unreceived(t, n[t]) \subseteq queue'
      /\ \A b \in queue' \ queue : \E t \in Threads : b \in Unreceived(t, n[t])
  OBVIOUS
<1>r. ASSUME NEW t \in Threads, NEW i \in 1..Len(history[t]), ~ (i <= n[t])
      PROVE  history[t][i] \in queue'
  <2>1. i \in (n[t] + 1)..Len(history[t])
    BY <1>1, <1>r
  <2> QED
    BY <1>3, <2>1 DEF Unreceived
<1>q. ASSUME NEW b \in queue', b \notin queue
      PROVE  \E t \in Threads : \E i \in 1..Len(history[t]) : ~ (i <= n[t]) /\ history[t][i] = b
  <2>1. PICK t \in Threads : b \in Unreceived(t, n[t])
    BY <1>3, <1>q
  <2>2. PICK i \in (n[t] + 1)..Len(history[t]) : b = history[t][i]
    BY <2>1 DEF Unreceived
  <2>3. i \in 1..Len(history[t]) /\ ~ (i <= n[t])
    BY <1>1, <2>2
  <2> QED
    BY <2>2, <2>3
<1>4. EveryBlockAccounted'
  <2> SUFFICES ASSUME NEW b \in Blocks
               PROVE  \/ b \in queue'
                      \/ b \in failed'
                      \/ \E t \in Threads : hand'[t] = b \/ InHistory(t, b)'
    BY DEF EveryBlockAccounted
  <2>1. CASE b \in queue \/ b \in failed \/ \E t \in Threads : hand[t] = b
    BY <2>1, <1>3
  <2>2. ASSUME NEW t \in Threads, NEW i \in 1..Len(history[t]), history[t][i] = b
        PROVE  b \in queue' \/ InHistory(t, b)'
    <3>1. CASE i <= n[t]
      <4>1. i \in 1..Len(history'[t]) /\ history'[t][i] = b
        BY <1>1, <1>2, <2>2, <3>1
      <4> QED
        BY <4>1 DEF InHistory
    <3>2. CASE ~ (i <= n[t])
      BY <1>r, <2>2, <3>2
    <3> QED
      BY <3>1, <3>2
  <2> QED
    BY <2>1, <2>2 DEF Accounting, EveryBlockAccounted, InHistory
<1>5. NoBlockTwice'
  <2>a. /\ queue \cap failed = {}
        /\ \A t \in Threads : /\ hand[t] \notin queue /\ hand[t] \notin failed
                              /\ \A u \in Threads : u # t /\ hand[t] # None => hand[u] # hand[t]
    BY DEF Accounting, NoBlockTwice
  <2>b. ASSUME NEW t \in Threads, NEW i \in 1..Len(history[t])
        PROVE  /\ history[t][i] \notin queue
               /\ history[t][i] \notin failed
               /\ \A u \in Threads : hand[u] # history[t][i]
               /\ \A u \in Threads : \A j \in 1..Len(history[u]) :
                    history[u][j] = history[t][i] => u = t /\ j = i
    BY DEF Accounting, NoBlockTwice
  <2>1. queue' \cap failed' = {}
    <3> SUFFICES ASSUME NEW b \in queue' PROVE b \notin failed
      OBVIOUS
    <3>1. CASE b \in queue
      BY <2>a, <3>1
    <3>2. CASE b \notin queue
      <4>1. PICK t \in Threads : \E i \in 1..Len(history[t]) : history[t][i] = b
        BY <1>q, <3>2, Zenon
      <4> QED
        BY <2>b, <4>1
    <3> QED
      BY <3>1, <3>2
  <2>2. ASSUME NEW t \in Threads
        PROVE  /\ hand'[t] \notin queue' \cup failed'
               /\ \A u \in Threads : u # t /\ hand'[t] # None => hand'[u] # hand'[t]
    <3>1. ASSUME hand[t] \in queue' PROVE FALSE
      <4>1. PICK u \in Threads : \E i \in 1..Len(history[u]) : history[u][i] = hand[t]
        BY <1>q, <2>a, <3>1, Zenon
      <4> QED
        BY <2>b, <4>1
    <3> QED
      BY <2>a, <3>1
  <2>3. ASSUME NEW t \in Threads, NEW i \in 1..Len(history'[t])
        PROVE  /\ history'[t][i] \notin queue' \cup failed'
               /\ \A u \in Threads :
                    /\ hand'[u] # history'[t][i]
                    /\ \A j \in 1..Len(history'[u]) :
                         history'[u][j] = history'[t][i] => u = t /\ j = i
    <3>1. i \in 1..Len(history[t]) /\ i <= n[t] /\ history'[t][i] = history[t][i]
      BY <1>1, <1>2
    <3>2. ASSUME history[t][i] \in queue' PROVE FALSE
      <4>1. history[t][i] \notin queue
        BY <2>b, <3>1
      <4>a. PICK u \in Threads : \E j \in 1..Len(history[u]) :
                ~ (j <= n[u]) /\ history[u][j] = history[t][i]
        BY <1>q, <3>2, <4>1, Zenon
      <4>2. PICK j \in 1..Len(history[u]) : ~ (j <= n[u]) /\ history[u][j] = history[t][i]
        BY <4>a
      <4>3. u = t /\ j = i
        BY <2>b, <3>1, <4>2
      <4> QED
        BY <3>1, <4>2, <4>3
    <3>3. ASSUME NEW u \in Threads, NEW j \in 1..Len(history'[u]),
                 history'[u][j] = history'[t][i]
          PROVE  u = t /\ j = i
      <4>1. j \in 1..Len(history[u]) /\ history'[u][j] = history[u][j]
        BY <1>1, <1>2
      <4> QED
        BY <2>b, <3>1, <3>3, <4>1
    <3> QED
      BY <2>b, <3>1, <3>2, <3>3
  <2> QED
    BY <2>1, <2>2, <2>3 DEF NoBlockTwice
<1> QED
  BY <1>4, <1>5 DEF Accounting

LEMMA AccountingUnchanged ==
    ASSUME Accounting, UNCHANGED <<queue, failed, hand, history>>
    PROVE  Accounting'
<1>1. queue' = queue /\ failed' = failed /\ hand' = hand /\ history' = history
  OBVIOUS
<1>2. EveryBlockAccounted'
  BY <1>1 DEF Accounting, EveryBlockAccounted, InHistory
<1>3. NoBlockTwice'
  BY <1>1, Zenon DEF Accounting, NoBlockTwice
<1> QED
  BY <1>2, <1>3 DEF Accounting

\* A checkpoint, local or global, moves exactly the blocks it does not count.
LEMMA CheckpointAccounting ==
    ASSUME Bookkeeping, Accounting, NEW e \in Threads, NEW c \in PlausibleCheckpoints,
           NEW g \in BOOLEAN, SetCheckpointAndReturnToQueue(e, c, g), UNCHANGED <<hand, failed>>
    PROVE  Accounting'
<1>1. CASE Rejected(e, c, g)
  <2>1. UNCHANGED <<queue, failed, hand, history>>
    BY <1>1 DEF SetCheckpointAndReturnToQueue
  <2> QED
    BY <2>1, AccountingUnchanged
<1>2. CASE ~ Rejected(e, c, g)
  <2> DEFINE n == [t \in Threads |-> IF t = e THEN c.numBlocks ELSE Len(history[t])]
  <2>1. \A t \in Threads : history[t] \in Seq(Blocks) /\ Len(history[t]) \in Nat
    BY LenProperties DEF Bookkeeping, HistoryTypeOK
  <2>2. c.numBlocks \in Nat /\ c.numBlocks <= Len(history[e])
    BY <1>2, <2>1, PlausibleFields DEF Rejected, CheckpointStatus, CheckpointRecords
  <2>3. n \in [Threads -> Nat] /\ \A t \in Threads : n[t] <= Len(history[t])
    BY <2>1, <2>2
  <2>4. history' = [t \in Threads |-> SubSeq(history[t], 1, n[t])]
    <3>1. history \in [Threads -> Seq(Blocks)]
      BY DEF Bookkeeping, HistoryTypeOK
    <3>2. \A t \in Threads : SubSeq(history[t], 1, Len(history[t])) = history[t]
      BY <2>1, SubSeqFull
    <3>3. history' = [history EXCEPT ![e] = SubSeq(@, 1, c.numBlocks)]
      BY <1>2 DEF SetCheckpointAndReturnToQueue
    <3> QED
      BY <3>1, <3>2, <3>3, Zenon
  <2>5. queue' = queue \cup UNION {Unreceived(t, n[t]) : t \in Threads}
    <3>1. queue' = queue \cup Unreceived(e, c.numBlocks)
      BY <1>2 DEF SetCheckpointAndReturnToQueue
    <3>2. ASSUME NEW t \in Threads, t # e PROVE Unreceived(t, n[t]) = {}
      BY <2>1, <3>2 DEF Unreceived
    <3>3. UNION {Unreceived(t, n[t]) : t \in Threads} = Unreceived(e, c.numBlocks)
      BY <3>2
    <3> QED
      BY <3>1, <3>3
  <2> HIDE DEF n
  <2> QED
    BY <2>3, <2>4, <2>5, SuffixesReturned, Zenon
<1> QED
  BY <1>1, <1>2

\* Sender::finish gives back the unacknowledged blocks of every history.
LEMMA ReturnUnackedAccounting ==
    ASSUME Bookkeeping, Accounting, FinishReturnUnacked
    PROVE  Accounting'
<1> DEFINE kept == {t \in Threads : Rejected(t, NoPartialBlock(numAcknowledged[t]), FALSE)}
           n == [t \in Threads |-> IF t \in kept THEN Len(history[t]) ELSE numAcknowledged[t]]
<1>1. /\ history' = [t \in Threads |-> IF t \in kept THEN history[t]
                                       ELSE SubSeq(history[t], 1, numAcknowledged[t])]
      /\ queue' = queue \cup UNION {Unreceived(t, numAcknowledged[t]) : t \in Threads \ kept}
      /\ UNCHANGED <<hand, failed>>
  BY DEF FinishReturnUnacked
<1> HIDE DEF kept
<1>2. \A t \in Threads : history[t] \in Seq(Blocks) /\ Len(history[t]) \in Nat
  BY LenProperties DEF Bookkeeping, HistoryTypeOK
<1>3. n \in [Threads -> Nat] /\ \A t \in Threads : n[t] <= Len(history[t])
  BY <1>2 DEF Bookkeeping, HistoryTypeOK, AckedWithinHistory
<1>4. history' = [t \in Threads |-> SubSeq(history[t], 1, n[t])]
  <2>1. \A t \in Threads : SubSeq(history[t], 1, Len(history[t])) = history[t]
    BY <1>2, SubSeqFull
  <2> QED
    BY <1>1, <2>1, Zenon
<1>5. queue' = queue \cup UNION {Unreceived(t, n[t]) : t \in Threads}
  <2>1. ASSUME NEW t \in Threads, t \in kept PROVE Unreceived(t, n[t]) = {}
    BY <1>2, <2>1 DEF Unreceived
  <2>2. ASSUME NEW t \in Threads, t \notin kept
        PROVE  Unreceived(t, n[t]) = Unreceived(t, numAcknowledged[t])
    BY <2>2
  <2>3. UNION {Unreceived(t, n[t]) : t \in Threads}
          = UNION {Unreceived(t, numAcknowledged[t]) : t \in Threads \ kept}
    BY <2>1, <2>2
  <2> QED
    BY <1>1, <2>3, Zenon
<1> HIDE DEF n
<1> QED
  BY <1>1, <1>3, <1>4, <1>5, SuffixesReturned, Zenon

\* One step, one case per action: a source that leaves the queue is in a hand or
\* in failed, one that leaves a hand is in the history or back in the queue.
LEMMA NextAccounting ==
    ASSUME Bookkeeping, Accounting, [HistoryNext]_historyVars
    PROVE  Accounting'
<1> USE DEF Accounting, EveryBlockAccounted, NoBlockTwice, InHistory
<1>t. /\ queue \subseteq Blocks /\ None \notin Blocks
      /\ hand \in [Threads -> {None} \cup Blocks]
      /\ history \in [Threads -> Seq(Blocks)]
  BY NoneAssumption DEF Bookkeeping, HistoryTypeOK
<1>1. ASSUME NEW t \in Threads, GetNextSource(t) PROVE Accounting'
  <2>1. PICK b \in queue : queue' = queue \ {b} /\ hand' = [hand EXCEPT ![t] = b]
    BY <1>1, Zenon DEF GetNextSource
  <2>2. UNCHANGED <<failed, history>> /\ hand[t] = None
    BY <1>1 DEF GetNextSource
  <2>3. EveryBlockAccounted'
    BY <1>t, <2>1, <2>2
  <2>4. NoBlockTwice'
    BY <1>t, <2>1, <2>2
  <2> QED
    BY <2>3, <2>4
<1>2. ASSUME NEW t \in Threads, SourceFailsToOpen(t) PROVE Accounting'
  <2>1. PICK b \in queue : queue' = queue \ {b} /\ failed' = failed \cup {b}
    BY <1>2 DEF SourceFailsToOpen
  <2>2. UNCHANGED <<hand, history>>
    BY <1>2 DEF SourceFailsToOpen
  <2>3. EveryBlockAccounted'
    BY <1>t, <2>1, <2>2
  <2>4. NoBlockTwice'
    BY <1>t, <2>1, <2>2
  <2> QED
    BY <2>3, <2>4
<1>3. ASSUME NEW t \in Threads, AddSourceToHistory(t) PROVE Accounting'
  <2>1. /\ history' = [history EXCEPT ![t] = Append(@, hand[t])]
        /\ hand' = [hand EXCEPT ![t] = None]
        /\ UNCHANGED <<queue, failed>>
        /\ hand[t] \in Blocks
    BY <1>3, <1>t DEF AddSourceToHistory
  <2>2. /\ \A u \in Threads : Len(history[u]) \in Nat
        /\ Len(history'[t]) = Len(history[t]) + 1
        /\ \A i \in 1..Len(history[t]) : history'[t][i] = history[t][i]
        /\ history'[t][Len(history[t]) + 1] = hand[t]
    BY <1>t, <2>1, AppendProperties, LenProperties
  <2>a. /\ \A u \in Threads : u # t => history'[u] = history[u] /\ hand'[u] = hand[u]
        /\ hand'[t] = None
    BY <1>t, <2>1
  <2>b. ASSUME NEW u \in Threads, NEW i \in 1..Len(history'[u])
        PROVE  \/ i \in 1..Len(history[u]) /\ history'[u][i] = history[u][i]
               \/ u = t /\ i = Len(history[t]) + 1 /\ history'[u][i] = hand[t]
    BY <2>2, <2>a
  <2>c. \A u \in Threads : \A i \in 1..Len(history[u]) :
            i \in 1..Len(history'[u]) /\ history'[u][i] = history[u][i]
    <3> HIDE DEF Accounting, EveryBlockAccounted, NoBlockTwice, InHistory
    <3> SUFFICES ASSUME NEW u \in Threads, NEW i \in 1..Len(history[u])
                 PROVE  i \in 1..Len(history'[u]) /\ history'[u][i] = history[u][i]
      OBVIOUS
    <3>1. CASE u = t
      BY <2>2, <3>1
    <3>2. CASE u # t
      BY <2>a, <3>2
    <3> QED
      BY <3>1, <3>2
  <2>d. Len(history[t]) + 1 \in 1..Len(history'[t])
    BY <2>2
  <2>3. EveryBlockAccounted'
    <3> SUFFICES ASSUME NEW b \in Blocks, b \notin queue, b \notin failed
                 PROVE  \E u \in Threads : hand'[u] = b \/ InHistory(u, b)'
      BY <2>1
    <3>1. PICK u \in Threads : hand[u] = b \/ InHistory(u, b)
      OBVIOUS
    <3>2. CASE InHistory(u, b)
      BY <2>c, <3>2
    <3>3. CASE hand[u] = b /\ u = t
      BY <2>2, <2>d, <3>3
    <3>4. CASE hand[u] = b /\ u # t
      BY <2>a, <3>4
    <3> QED
      BY <3>1, <3>2, <3>3, <3>4
  <2>4. NoBlockTwice'
    <3>1. ASSUME NEW u \in Threads, NEW i \in 1..Len(history'[u])
          PROVE  /\ history'[u][i] \notin queue \cup failed
                 /\ \A v \in Threads : hand'[v] # history'[u][i]
      <4>1. CASE i \in 1..Len(history[u]) /\ history'[u][i] = history[u][i]
        <5>1. history[u][i] \in Blocks
          BY <1>t, <4>1, ElementOfSeq
        <5> QED
          BY <1>t, <2>a, <4>1, <5>1
      <4>2. CASE history'[u][i] = hand[t]
        BY <1>t, <2>1, <2>a, <4>2
      <4> QED
        BY <2>b, <4>1, <4>2
    <3>2. ASSUME NEW u \in Threads, NEW i \in 1..Len(history'[u]),
                 NEW v \in Threads, NEW j \in 1..Len(history'[v]),
                 history'[v][j] = history'[u][i]
          PROVE  v = u /\ j = i
      <4>1. \A w \in Threads : \A k \in 1..Len(history[w]) : history[w][k] # hand[t]
        OBVIOUS
      <4>2. CASE i \in 1..Len(history[u]) /\ history'[u][i] = history[u][i]
        BY <2>b, <3>2, <4>1, <4>2
      <4>3. CASE u = t /\ i = Len(history[t]) + 1 /\ history'[u][i] = hand[t]
        BY <2>b, <3>2, <4>1, <4>3
      <4> QED
        BY <2>b, <4>2, <4>3
    <3>3. ASSUME NEW u \in Threads
          PROVE  /\ hand'[u] \notin queue \cup failed
                 /\ \A v \in Threads : v # u /\ hand'[u] # None => hand'[v] # hand'[u]
      <4>1. failed \subseteq Blocks
        BY DEF Bookkeeping, HistoryTypeOK
      <4>2. CASE u = t
        BY <1>t, <2>a, <4>1, <4>2
      <4>3. CASE u # t
        BY <2>a, <4>3
      <4> QED
        BY <4>2, <4>3
    <3>4. queue' = queue /\ failed' = failed /\ queue \cap failed = {}
      BY <2>1
    <3>5. ASSUME NEW u \in Threads
          PROVE  /\ hand'[u] \notin queue' \cup failed'
                 /\ \A i \in 1..Len(history'[u]) :
                      /\ history'[u][i] \notin queue' \cup failed'
                      /\ \A v \in Threads :
                           /\ hand'[v] # history'[u][i]
                           /\ \A j \in 1..Len(history'[v]) :
                                history'[v][j] = history'[u][i] => v = u /\ j = i
                 /\ \A v \in Threads : v # u /\ hand'[u] # None => hand'[v] # hand'[u]
      <4> HIDE DEF Accounting
      <4> QED
        BY <3>1, <3>2, <3>3, <3>4
    <3> QED
      BY <3>4, <3>5
  <2> QED
    BY <2>3, <2>4
<1>4. ASSUME NEW t \in Threads, AddSourceTooLate(t) PROVE Accounting'
  <2>1. /\ queue' = queue \cup {hand[t]}
        /\ hand' = [hand EXCEPT ![t] = None]
        /\ UNCHANGED <<failed, history>>
        /\ hand[t] \in Blocks
    BY <1>4, <1>t DEF AddSourceTooLate
  <2>2. failed \subseteq Blocks
    BY DEF Bookkeeping, HistoryTypeOK
  <2>3. EveryBlockAccounted'
    BY <1>t, <2>1
  <2>4. NoBlockTwice'
    BY <1>t, <2>1, <2>2
  <2> QED
    BY <2>3, <2>4
<1>5. ASSUME NEW t \in Threads, NEW c \in PlausibleCheckpoints, SetLocalCheckpoint(t, c)
      PROVE  Accounting'
  BY <1>5, CheckpointAccounting, Zenon DEF SetLocalCheckpoint
<1>6. ASSUME NEW t \in Threads, NEW e \in Threads, NEW c \in PlausibleCheckpoints,
             SetGlobalCheckpoint(t, e, c)
      PROVE  Accounting'
  BY <1>6, CheckpointAccounting, Zenon DEF SetGlobalCheckpoint
<1>7. CASE FinishReturnUnacked
  BY <1>7, ReturnUnackedAccounting
<1>8. ASSUME UNCHANGED <<queue, failed, hand, history>> PROVE Accounting'
  BY <1>8, AccountingUnchanged
<1> QED
  BY <1>1, <1>2, <1>3, <1>4, <1>5, <1>6, <1>7, <1>8, Zenon
     DEF HistoryNext, historyVars, StopWaiting, MarkAllAcknowledged, MarkNotInUse,
         FinishAllAcknowledged

\* The two halves of the accounting hold together, in every behaviour of the
\* histories.
THEOREM AccountingTheorem == HistorySpec => []Accounting
<1>1. HistoryInit => Accounting
  BY InitAccounting
<1>2. Bookkeeping /\ Accounting /\ [HistoryNext]_historyVars => Accounting'
  BY NextAccounting
<1> QED
  BY <1>1, <1>2, BookkeepingTheorem, PTL DEF HistorySpec

\* No source is lost, for every set of threads and blocks and any sequence of
\* plausible checkpoints.
THEOREM NoBlockLostTheorem == HistorySpec => []EveryBlockAccounted
<1>1. Accounting => EveryBlockAccounted
  BY DEF Accounting
<1> QED
  BY <1>1, AccountingTheorem, PTL

\* No source is in two places, so two threads never send the same block at once,
\* for every set of threads and blocks and any sequence of plausible checkpoints.
THEOREM NoBlockTwiceTheorem == HistorySpec => []NoBlockTwice
<1>1. Accounting => NoBlockTwice
  BY DEF Accounting
<1> QED
  BY <1>1, AccountingTheorem, PTL
=============================================================================
