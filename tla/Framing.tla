------------------------------ MODULE Framing ------------------------------
(***************************************************************************)
(* The receiver's buffer, byte by byte.  A connection carries SETTINGS,    *)
(* SIZE, then blocks (a FILE header, data, perhaps a footer) and DONE; the *)
(* bytes are numbered and the buffer holds such numbers, so that it can be *)
(* told whether the bytes that are decoded, and those that are written to  *)
(* the file, are the ones the sender meant.  TCP hands over what has       *)
(* arrived in pieces of any size.                                          *)
(***************************************************************************)
EXTENDS Naturals, Sequences, SequencesExt

CONSTANTS
    BufSize,       \* bufSize_
    MinBufLength,  \* kMinBufLength
    MaxHeader,     \* kMaxHeader
    SettingsLens,  \* lengths of a SETTINGS command
    SizeLen,       \* length of a SIZE command
    HeaderLens,    \* lengths of a FILE header
    DataSizes,     \* sizes of a block
    FooterLen,     \* length of a footer
    Footers,       \* footerType_ is CHECKSUM_FOOTER
    SendChunks,    \* the sender resumes, and waits for the list of chunks
    Blocks,        \* number of blocks
    MaxBreaks      \* bound on broken connections

FramingAssumption ==
    /\ MinBufLength <= MaxHeader /\ MaxHeader <= BufSize
    /\ FooterLen <= MinBufLength /\ SizeLen <= MinBufLength

Commands(settings, blocks) ==
    <<[cmd |-> "SETTINGS", len |-> settings, data |-> 0], [cmd |-> "SIZE", len |-> SizeLen, data |-> 0]>>
      \o blocks \o <<[cmd |-> "DONE", len |-> MinBufLength, data |-> 0]>>

VARIABLES
    script,        \* the commands of a connection
    sent,          \* commands written by the sender
    conn,          \* number of the connection
    taken,         \* bytes the receiver has read from the connection
    buf,           \* buf_: <<connection, number of the byte>>, or <<0, 0>>
    off, oldOffset, numRead,
    call,          \* arguments of the readAtLeast that is running, and what follows it
    next,          \* the command that is processed
    written,       \* writer.getTotalWritten()
    remaining,     \* remainingData
    pc

senderVars == <<script, sent>>
vars == <<script, sent, conn, taken, buf, off, oldOffset, numRead, call, next, written, remaining, pc>>

NoCall == [base |-> 0, max |-> 0, atLeast |-> 0, len |-> 0, then |-> "none"]

Init ==
    /\ script \in {Commands(s, b) : s \in SettingsLens,
                      b \in [1..Blocks -> [cmd : {"FILE"}, len : HeaderLens, data : DataSizes]]}
    /\ sent = 0 /\ conn = 1 /\ taken = 0
    /\ buf = [i \in 0..(BufSize - 1) |-> <<0, 0>>]
    /\ off = 0 /\ oldOffset = 0 /\ numRead = 0
    /\ call = NoCall /\ next = 1 /\ written = 0 /\ remaining = 0
    /\ pc = "READ_NEXT_CMD"
-----------------------------------------------------------------------------
\* What the sender writes for a command: sendSettings pads to kMinBufLength when it waits
\* for the list of chunks, and sendDoneCmd always.
wireLength(c) ==
    CASE c.cmd = "SETTINGS" -> IF SendChunks THEN MinBufLength ELSE c.len
      [] c.cmd = "FILE" -> c.len + c.data + (IF Footers THEN FooterLen ELSE 0)
      [] OTHER -> c.len

\* Bytes of the first n commands.
BytesOf(n) == FoldLeft(LAMBDA sum, c : sum + wireLength(c), 0, SubSeq(script, 1, n))

\* The sender writes its next command; after SETTINGS it may wait for the list of chunks.
send ==
    /\ sent < Len(script)
    /\ SendChunks /\ sent = 1 => next > 1
    /\ sent' = sent + 1
    /\ UNCHANGED <<script, conn, taken, buf, off, oldOffset, numRead, call, next, written,
                   remaining, pc>>

\* n bytes from the connection are placed in the buffer from index i on.
place(i, n) ==
    /\ buf' = [j \in DOMAIN buf |-> IF j \in i..(i + n - 1)
                                    THEN <<conn, taken + 1 + j - i>> ELSE buf[j]]
    /\ taken' = taken + n

\* The bytes from index i on are n bytes of this connection, from number p on.
Holds(i, n, p) == \A j \in 0..(n - 1) : i + j < BufSize /\ buf[i + j] = <<conn, p + j>>

\* readAtLeast is called; its check is that the bytes fit.
readAtLeast(base, max, atLeast, len, then) ==
    IF atLeast > max THEN pc' = "failed" /\ UNCHANGED call
    ELSE /\ call' = [base |-> base, max |-> max, atLeast |-> atLeast, len |-> len, then |-> then]
         /\ pc' = "reading"

\* One read of readAtLeast.
readMore ==
    /\ pc = "reading" /\ call.len < call.atLeast
    /\ \E n \in 1..(call.max - call.len) :
          /\ n <= BytesOf(sent) - taken
          /\ place(call.base + call.len, n)
          /\ call' = [call EXCEPT !.len = @ + n]
    /\ UNCHANGED <<senderVars, conn, off, oldOffset, numRead, next, written, remaining, pc>>

\* readAtLeast returns.
readReturns ==
    /\ pc = "reading" /\ call.len >= call.atLeast
    /\ numRead' = call.len
    /\ pc' = call.then /\ call' = NoCall
    /\ UNCHANGED <<senderVars, conn, taken, buf, off, oldOffset, next, written, remaining>>

\* READ_NEXT_CMD.
readNextCmd ==
    /\ pc = "READ_NEXT_CMD"
    /\ oldOffset' = off
    /\ readAtLeast(off, BufSize - off, MinBufLength, numRead, "command")
    /\ UNCHANGED <<senderVars, conn, taken, buf, off, numRead, next, written, remaining>>

\* The command is decoded: it is that command whose bytes are there.
Current == script[next]
decodes(n) == Holds(oldOffset, n, BytesOf(next - 1) + 1)

garble == pc' = "garbled" /\ UNCHANGED <<off, numRead, next, call>>

\* Mutation of consumed: the length of the message is not subtracted.
consumedKeeps(n) ==
    /\ off' = oldOffset + n
    /\ UNCHANGED numRead

\* off_ is behind the message, of length n, and numRead_ what follows it.
consumed(n) ==
    /\ off' = oldOffset + n
    /\ numRead' = numRead - n

\* PROCESS_SETTINGS_CMD; a sender that resumes has sent nothing else.
processSettingsCmd ==
    /\ pc = "command" /\ Current.cmd = "SETTINGS"
    /\ IF ~decodes(Current.len) THEN garble
       ELSE /\ IF SendChunks THEN numRead' = 0 /\ off' = 0 ELSE consumed(Current.len)
            /\ next' = next + 1 /\ pc' = "READ_NEXT_CMD" /\ UNCHANGED call
    /\ UNCHANGED <<senderVars, conn, taken, buf, oldOffset, written, remaining>>

\* PROCESS_SIZE_CMD.
processSizeCmd ==
    /\ pc = "command" /\ Current.cmd = "SIZE"
    /\ IF ~decodes(Current.len) THEN garble
       ELSE consumed(Current.len) /\ next' = next + 1 /\ pc' = "READ_NEXT_CMD" /\ UNCHANGED call
    /\ UNCHANGED <<senderVars, conn, taken, buf, oldOffset, written, remaining>>

\* PROCESS_DONE_CMD: nothing but the padded command may have been read.
processDoneCmd ==
    /\ pc = "command" /\ Current.cmd = "DONE"
    /\ IF numRead # MinBufLength \/ ~decodes(1) THEN garble
       ELSE pc' = "done" /\ UNCHANGED <<off, numRead, next, call>>
    /\ UNCHANGED <<senderVars, conn, taken, buf, oldOffset, written, remaining>>

\* The rest of a header is read: behind the bytes read, into the room behind them.
readHeader ==
    LET end == oldOffset + numRead IN
    readAtLeast(end, BufSize - end, Current.len, numRead, "header")

\* PROCESS_FILE_CMD: the length of the header is decoded.
processFileCmd ==
    /\ pc = "command" /\ Current.cmd = "FILE"
    /\ IF ~decodes(1) THEN garble
       ELSE /\ IF Current.len > numRead THEN readHeader ELSE pc' = "header" /\ UNCHANGED call
            /\ UNCHANGED <<off, numRead, next>>
    /\ UNCHANGED <<senderVars, conn, taken, buf, oldOffset, written, remaining>>

\* The header is decoded and the data already in the buffer are written.
DataStart == BytesOf(next - 1) + Current.len + 1
writeBuffered ==
    LET start == oldOffset + Current.len
        left == numRead + oldOffset - start
        toWrite == IF left >= Current.data THEN Current.data ELSE left
    IN
    /\ pc = "header"
    /\ IF ~decodes(Current.len) \/ ~Holds(start, toWrite, DataStart) THEN
          garble /\ UNCHANGED <<written, remaining>>
       ELSE /\ off' = start + toWrite
            /\ written' = toWrite /\ remaining' = left - toWrite
            /\ pc' = "data" /\ UNCHANGED <<numRead, next, call>>
    /\ UNCHANGED <<senderVars, conn, taken, buf, oldOffset>>

\* readAtMost and a write: the data are read to the start of the buffer.
writeMore ==
    /\ pc = "data" /\ written < Current.data
    /\ \E n \in 1..(Current.data - written) :
          /\ n <= BufSize /\ n <= BytesOf(sent) - taken
          /\ place(0, n)
          /\ IF taken + 1 # DataStart + written THEN garble /\ UNCHANGED written
             ELSE written' = written + n /\ UNCHANGED <<off, numRead, next, call, pc>>
    /\ UNCHANGED <<senderVars, conn, oldOffset, remaining>>

\* What was read behind the block stays, moved to the start when little room is left.
leftover ==
    IF remaining = 0 THEN numRead' = 0 /\ off' = 0 /\ UNCHANGED buf
    ELSE /\ numRead' = remaining
         /\ IF remaining < MaxHeader /\ off > BufSize \div 2 THEN
               /\ buf' = [j \in DOMAIN buf |-> IF j < remaining THEN buf[off + j] ELSE buf[j]]
               /\ off' = 0
            ELSE UNCHANGED <<off, buf>>

\* The block is complete.
blockReceived ==
    /\ pc = "data" /\ written = Current.data
    /\ leftover
    /\ remaining' = 0 /\ written' = 0
    /\ pc' = IF Footers THEN "FOOTER" ELSE "READ_NEXT_CMD"
    /\ next' = IF Footers THEN next ELSE next + 1
    /\ UNCHANGED <<senderVars, conn, taken, oldOffset, call>>

\* The footer is read and decoded.
readFooter ==
    /\ pc = "FOOTER"
    /\ oldOffset' = off
    /\ readAtLeast(off, BufSize - off, MinBufLength, numRead, "footer")
    /\ UNCHANGED <<senderVars, conn, taken, buf, off, numRead, next, written, remaining>>

processFooter ==
    /\ pc = "footer"
    /\ IF ~Holds(oldOffset, FooterLen, BytesOf(next) - FooterLen + 1) THEN garble
       ELSE consumed(FooterLen) /\ next' = next + 1 /\ pc' = "READ_NEXT_CMD" /\ UNCHANGED call
    /\ UNCHANGED <<senderVars, conn, taken, buf, oldOffset, written, remaining>>

\* A read fails and the receiver accepts a new connection, on which the sender starts again.
acceptWithTimeout ==
    /\ pc \in {"reading", "data"} /\ conn <= MaxBreaks
    /\ conn' = conn + 1 /\ sent' = 0 /\ taken' = 0 /\ next' = 1
    /\ off' = 0 /\ numRead' = 0
    /\ written' = 0 /\ remaining' = 0 /\ call' = NoCall
    /\ pc' = "READ_NEXT_CMD"
    /\ UNCHANGED <<script, buf, oldOffset>>

receive ==
    \/ readNextCmd \/ readMore \/ readReturns
    \/ processSettingsCmd \/ processSizeCmd \/ processDoneCmd \/ processFileCmd
    \/ writeBuffered \/ writeMore \/ blockReceived \/ readFooter \/ processFooter

Next == send \/ receive \/ acceptWithTimeout

Spec == Init /\ [][Next]_vars

\* The sender goes on writing and the receiver reading.
FairSpec == Spec /\ WF_vars(send) /\ WF_vars(receive)
-----------------------------------------------------------------------------
\* The receiver stays in step with the stream: whatever the pieces in which the bytes
\* arrive, the bytes it decodes as a command are those of the next command, the data it
\* writes are those of the block, and DONE is found alone.
InSync == pc # "garbled"

\* readAtLeast never places a byte behind the end of the buffer.
ReadsFit == pc = "reading" => call.len <= call.max /\ call.base + call.max <= BufSize

\* The check in readAtLeast never fails: there is room for what it must read.
ChecksHold == pc # "failed"

\* The receiver is never left waiting for kMinBufLength bytes that are not sent: every
\* connection that stays up is received up to DONE.
DoneIsReceived == <>(pc = "done")
=============================================================================
