----------------------------- MODULE Checkpoint -----------------------------
(***************************************************************************)
(* The checkpoint a receiver thread keeps and reports (Protocol.h), and    *)
(* the constants every module of the transfer shares.                      *)
(***************************************************************************)
EXTENDS Naturals, Sequences, FiniteSets

CONSTANTS
    Threads,       \* ports: a sender thread and a receiver thread on each
    Blocks,        \* seq-ids of the sources; each file is a single block
    BlockSize,     \* bytes of a file
    MaxNumBlocks,  \* bound on the block count a checkpoint can carry
    None           \* no source, no checkpoint, no thread

ASSUME BlocksAssumption == Blocks \subseteq Nat /\ IsFiniteSet(Blocks)
ASSUME SizesAssumption == BlockSize \in Nat \ {0} /\ MaxNumBlocks \in Nat

\* A checkpoint without details of a partial block: resetLastBlockDetails
\* leaves the three fields at 0.
NoPartialBlock(n) ==
    [numBlocks |-> n, seqId |-> 0, offset |-> 0, receivedBytes |-> 0]

\* setLastBlockDetails: k bytes of the block of b that starts at o arrived.
PartialBlock(n, b, o, k) ==
    [numBlocks |-> n, seqId |-> b, offset |-> o, receivedBytes |-> k]

CheckpointRecords == [numBlocks : Nat, seqId : Nat, offset : Nat, receivedBytes : Nat]

\* The ones about the blocks of this transfer.
Checkpoints ==
    {NoPartialBlock(n) : n \in 0..MaxNumBlocks}
    \cup {PartialBlock(n, b, o, k) :
            n \in 0..MaxNumBlocks, b \in Blocks, o \in 0..BlockSize, k \in 0..BlockSize}

\* Those of them that do not claim bytes past the end of the block.
PlausibleCheckpoints == {c \in Checkpoints : c.offset + c.receivedBytes <= BlockSize}

ASSUME NoneAssumption == /\ None \notin Blocks
                         /\ None \notin Threads
                         /\ None \notin Checkpoints
=============================================================================
