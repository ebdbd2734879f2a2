----------------------------- MODULE FileChunks -----------------------------
(***************************************************************************)
(* FileChunksInfo: the parts of a file that an earlier transfer left, as   *)
(* intervals of bytes, and what remains to be sent.                        *)
(***************************************************************************)
EXTENDS Integers, Sequences, SequencesExt

Interval(from, to) == [start |-> from, end |-> to]

\* The bytes of a sequence of intervals.
Bytes(chunks) == UNION {i.start..(i.end - 1) : i \in ToSet(chunks)}

StartsBefore(c, d) == c.start < d.start

\* FileChunksInfo::mergeChunks, one chunk after another in the order of starts.
MergeOne(merged, c) ==
    LET n == Len(merged) IN
    IF n = 0 \/ c.start > merged[n].end THEN Append(merged, c)
    ELSE [merged EXCEPT ![n].end = IF c.end > @ THEN c.end ELSE @]

mergeChunks(chunks) == FoldLeft(MergeOne, <<>>, SortSeq(chunks, StartsBefore))

\* FileChunksInfo::getRemainingChunks, for chunks that are merged.
RemainOne(acc, c) ==
    [from |-> c.end,
     rest |-> IF c.start > acc.from THEN Append(acc.rest, Interval(acc.from, c.start)) ELSE acc.rest]

\* Mutation of getRemainingChunks: what follows the last chunk is forgotten.
getRemainingChunksBefore(chunks, fileSize) ==
    FoldLeft(RemainOne, [from |-> 0, rest |-> <<>>], chunks).rest

getRemainingChunks(chunks, fileSize) ==
    LET acc == FoldLeft(RemainOne, [from |-> 0, rest |-> <<>>], chunks) IN
    IF acc.from < fileSize THEN Append(acc.rest, Interval(acc.from, fileSize)) ELSE acc.rest

getTotalChunkSize(chunks) == FoldLeft(LAMBDA n, c : n + c.end - c.start, 0, chunks)
=============================================================================
