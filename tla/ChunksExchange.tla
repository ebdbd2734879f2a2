--------------------------- MODULE ChunksExchange ---------------------------
(***************************************************************************)
(* How a transfer begins when the receiver can resume: the receiver        *)
(* threads send the list of what an earlier transfer left (one of them, a  *)
(* funnel holds the others), the sender threads rebuild their queue from   *)
(* it, and the header of the transfer log is written.  A sender that does  *)
(* not resume goes straight to the blocks, and the first FILE command      *)
(* writes the header.  Connections break and are made again.               *)
(***************************************************************************)
EXTENDS ThreadsController, Sequences, SequencesExt

CONSTANTS
    Lengths,     \* maximal encoded lengths a file of the list may have
    Slack,       \* what an encoding may be shorter by
    MaxFiles,    \* bound: files in the list
    BufSize,     \* bufSize_
    Prefix,      \* bytes of a frame taken by its length
    MaxRetries,  \* max_transfer_retries
    MaxBreaks,   \* bound: connections broken, or made by a stranger
    Cap          \* bound: messages that fit in a socket

ChunksAssumption ==
    /\ Slack \in Nat /\ MaxFiles \in Nat /\ BufSize \in Nat /\ Prefix \in Nat
    /\ \A n \in Lengths : n \in Nat /\ n > Slack
    /\ MaxRetries \in Nat /\ MaxBreaks \in Nat /\ Cap \in Nat \ {0}

VARIABLES
    files,       \* getFileChunksInfo() of the receiver, as the lengths of its entries
    resuming,    \* isSendFileChunks() of the sender
    s,           \* s[t]: the sender thread
    r,           \* r[t]: the receiver thread
    link,        \* link[t]: the connection between them
    received,    \* fileChunksReceived_
    applied,     \* the list given to the source queue
    dequeued,    \* numBlocksDequeued_ > 0
    headers,     \* log headers written
    invalidated, \* the directory was invalidated
    early,       \* a block was taken in before the log had its header
    breaks

exchangeVars == <<files, resuming, s, r, link, received, applied, dequeued, headers,
                  invalidated, early, breaks>>
vars == <<controllerVars, exchangeVars>>

NoLink == [up |-> FALSE, toS |-> <<>>, toR |-> <<>>]

Init ==
    /\ ControllerInit
    /\ files \in UNION {[1..n -> Lengths] : n \in 0..MaxFiles}
    /\ resuming \in BOOLEAN
    /\ s = [t \in Threads |-> [pc |-> "connect", err |-> FALSE, list |-> <<>>, expect |-> 0,
                               last |-> -1, retries |-> 0, bad |-> FALSE]]
    /\ r = [t \in Threads |-> [pc |-> "listen", err |-> FALSE, sent |-> 0, blocks |-> 0]]
    /\ link = [t \in Threads |-> NoLink]
    /\ received = FALSE /\ applied = <<>> /\ dequeued = FALSE
    /\ headers = 0 /\ invalidated = FALSE /\ early = FALSE
    /\ breaks = 0
-----------------------------------------------------------------------------
\* encodeFileChunksInfoList: what one frame holds, from entry start + 1 on.
EncodeOne(acc, i) ==
    IF acc.full \/ files[i] + Prefix > BufSize THEN acc
    ELSE IF files[i] + acc.off >= BufSize THEN [acc EXCEPT !.full = TRUE]
    ELSE [off |-> acc.off + files[i] - Slack, ents |-> Append(acc.ents, i), full |-> FALSE]

\* Mutation of Encoded: every frame begins with the first entry.
EncodedAgain(start) ==
    FoldLeft(EncodeOne, [off |-> Prefix, ents |-> <<>>, full |-> FALSE], [i \in 1..Len(files) |-> i])

Encoded(start) ==
    FoldLeft(EncodeOne, [off |-> Prefix, ents |-> <<>>, full |-> FALSE],
             [i \in 1..(Len(files) - start) |-> start + i])

Message(cmd, n, ents) == [cmd |-> cmd, n |-> n, ents |-> ents]
Simple(cmd) == Message(cmd, 0, <<>>)

writeToS(t, m) ==
    /\ link[t].up /\ Len(link[t].toS) < Cap
    /\ link' = [link EXCEPT ![t].toS = Append(@, m)]
writeToR(t, m) ==
    /\ link[t].up /\ Len(link[t].toR) < Cap
    /\ link' = [link EXCEPT ![t].toR = Append(@, m)]
readFromR(t, cmds) ==
    /\ link[t].toS # <<>> /\ Head(link[t].toS).cmd \in cmds
    /\ link' = [link EXCEPT ![t].toS = Tail(@)]
readFromS(t, cmds) ==
    /\ link[t].toR # <<>> /\ Head(link[t].toR).cmd \in cmds
    /\ link' = [link EXCEPT ![t].toR = Tail(@)]

senderGoes(t, p) == s' = [s EXCEPT ![t].pc = p]
receiverGoes(t, p) == r' = [r EXCEPT ![t].pc = p]
\* ACCEPT_WITH_TIMEOUT with an error; CONNECT with an error.
receiverFails(t) == r' = [r EXCEPT ![t].pc = "accept", ![t].err = TRUE]
senderFails(t) ==
    s' = [s EXCEPT ![t].pc = "connect", ![t].err = TRUE,
                   ![t].retries = IF s[t].pc = "lcp" THEN @ + 1 ELSE @]
protocolError(t) == s' = [s EXCEPT ![t].pc = "end", ![t].bad = TRUE]
-----------------------------------------------------------------------------
listen(t) ==
    /\ r[t].pc = "listen"
    /\ receiverGoes(t, "first")
    /\ UNCHANGED <<controllerVars, files, resuming, s, link, received, applied, dequeued, headers,
                   invalidated, early, breaks>>

\* acceptFirstConnection: another thread already has a connection.
hasNewTransferStarted(t) ==
    /\ r[t].pc = "first"
    /\ startHits > 0
    /\ receiverGoes(t, "accept")
    /\ UNCHANGED <<controllerVars, files, resuming, s, link, received, applied, dequeued, headers,
                   invalidated, early, breaks>>

\* A connection is accepted: acceptFirstConnection or acceptWithTimeout.
accepted(t, next) ==
    /\ r[t].pc \in {"first", "accept"}
    /\ IF r[t].pc = "first" THEN \E runs \in BOOLEAN : executeAtStart(runs)
       ELSE UNCHANGED startHits
    /\ r' = [r EXCEPT ![t].err = next.err, ![t].pc = next.pc]

\* SenderThread::connect, the receiver accepting.
connect(t) ==
    /\ s[t].pc = "connect"
    /\ s[t].retries < MaxRetries
    /\ accepted(t, [err |-> FALSE, pc |-> IF r[t].err THEN "lcp" ELSE "read"])
    /\ s' = [s EXCEPT ![t].pc = IF s[t].err THEN "lcp" ELSE "settings",
                      ![t].err = FALSE]
    /\ link' = [link EXCEPT ![t] = [NoLink EXCEPT !.up = TRUE]]
    /\ UNCHANGED <<threadState, barrier, funnel, endHits, checkFailed, files, resuming, received,
                   applied, dequeued, headers, invalidated, early, breaks>>

\* Somebody else connects and goes: the read of the receiver fails.
strangerConnects(t) ==
    /\ breaks < MaxBreaks
    /\ breaks' = breaks + 1
    /\ accepted(t, [err |-> TRUE, pc |-> "accept"])
    /\ UNCHANGED <<threadState, barrier, funnel, endHits, checkFailed, files, resuming, s, link,
                   received, applied, dequeued, headers, invalidated, early>>

\* connect gives up; the receiver then accepts in vain.
noProgress(t) ==
    /\ s[t].pc = "connect"
    /\ s[t].retries >= MaxRetries
    /\ senderGoes(t, "end")
    /\ UNCHANGED <<controllerVars, files, resuming, r, link, received, applied, dequeued, headers,
                   invalidated, early, breaks>>

acceptTimesOut(t) ==
    /\ r[t].pc = "accept"
    /\ s[t].pc = "end"
    /\ receiverGoes(t, "end")
    /\ deRegisterThread(t)
    /\ UNCHANGED <<funnel, startHits, endHits, files, resuming, s, link, received, applied,
                   dequeued, headers, invalidated, early, breaks>>

\* The connection is gone; some of what was written can still be read.
breakLink(t) ==
    /\ link[t].up
    /\ breaks < MaxBreaks
    /\ breaks' = breaks + 1
    /\ \E i \in 0..Len(link[t].toS), j \in 0..Len(link[t].toR) :
          link' = [link EXCEPT ![t] = [up |-> FALSE, toS |-> SubSeq(@.toS, 1, i),
                                       toR |-> SubSeq(@.toR, 1, j)]]
    /\ UNCHANGED <<controllerVars, files, resuming, s, r, received, applied, dequeued, headers,
                   invalidated, early>>
-----------------------------------------------------------------------------
\* The sender thread.  A read fails when nothing is left, a write at once.
senderReads == {"lcp", "chunks", "list"}
senderBroken(t) ==
    /\ ~link[t].up
    /\ \/ s[t].pc \in senderReads /\ link[t].toS = <<>>
       \/ s[t].pc \in {"settings", "ack", "blocks", "sent"}
    /\ ~(s[t].pc = "list" /\ Len(s[t].list) >= s[t].expect)
    /\ senderFails(t)
    /\ UNCHANGED <<controllerVars, files, resuming, r, link, received, applied, dequeued, headers,
                   invalidated, early, breaks>>

readLocalCheckPoint(t) ==
    /\ s[t].pc = "lcp"
    /\ readFromR(t, {"LCP"})
    /\ LET n == Head(link[t].toS).n IN
       s' = [s EXCEPT ![t].pc = "settings", ![t].last = n,
                      ![t].retries = IF n = s[t].last THEN @ + 1 ELSE 0]
    /\ UNCHANGED <<controllerVars, files, resuming, r, received, applied, dequeued, headers,
                   invalidated, early, breaks>>

sendSettings(t) ==
    /\ s[t].pc = "settings"
    /\ writeToR(t, Simple("SETTINGS"))
    /\ senderGoes(t, IF resuming THEN "chunks" ELSE "blocks")
    /\ UNCHANGED <<controllerVars, files, resuming, r, received, applied, dequeued, headers,
                   invalidated, early, breaks>>

\* readAndVerifySpuriousCheckpoint: only an empty checkpoint is ignored.
spuriousCheckpoint(t, m) ==
    IF m.n = 0 THEN UNCHANGED s ELSE protocolError(t)

\* readFileChunks, by the command that comes.
readFileChunks(t) ==
    /\ s[t].pc = "chunks"
    /\ readFromR(t, {"WAIT", "ACK", "LCP", "CHUNKS"})
    /\ LET m == Head(link[t].toS) IN
       \/ m.cmd = "WAIT" /\ UNCHANGED s
       \/ m.cmd = "ACK" /\ IF received THEN senderGoes(t, "blocks") ELSE protocolError(t)
       \/ m.cmd = "LCP" /\ spuriousCheckpoint(t, m)
       \/ m.cmd = "CHUNKS" /\ s' = [s EXCEPT ![t].pc = "list", ![t].expect = m.n, ![t].list = <<>>]
    /\ UNCHANGED <<controllerVars, files, resuming, r, received, applied, dequeued, headers,
                   invalidated, early, breaks>>

readFrame(t) ==
    /\ s[t].pc = "list"
    /\ Len(s[t].list) < s[t].expect
    /\ readFromR(t, {"LIST"})
    /\ LET all == s[t].list \o Head(link[t].toS).ents IN
       IF Len(all) > s[t].expect THEN protocolError(t) ELSE s' = [s EXCEPT ![t].list = all]
    /\ UNCHANGED <<controllerVars, files, resuming, r, received, applied, dequeued, headers,
                   invalidated, early, breaks>>

\* Sender::setFileChunksInfo, with the check of setPreviouslyReceivedChunks.
setFileChunksInfo(list) ==
    IF received THEN UNCHANGED <<received, applied, checkFailed>>
    ELSE /\ received' = TRUE
         /\ applied' = list
         /\ checkFailed' = (checkFailed \/ dequeued)

listComplete(t) ==
    /\ s[t].pc = "list"
    /\ Len(s[t].list) = s[t].expect
    /\ setFileChunksInfo(s[t].list)
    /\ senderGoes(t, "ack")
    /\ UNCHANGED <<threadState, barrier, funnel, startHits, endHits, files, resuming, r, link,
                   dequeued, headers, invalidated, early, breaks>>

sendAck(t) ==
    /\ s[t].pc = "ack"
    /\ writeToR(t, Simple("ACK"))
    /\ senderGoes(t, "blocks")
    /\ UNCHANGED <<controllerVars, files, resuming, r, received, applied, dequeued, headers,
                   invalidated, early, breaks>>

\* SEND_BLOCKS: a block is taken from the queue and sent.
sendBlock(t) ==
    /\ s[t].pc = "blocks"
    /\ writeToR(t, Simple("FILE"))
    /\ dequeued' = TRUE
    /\ senderGoes(t, "sent")
    /\ UNCHANGED <<controllerVars, files, resuming, r, received, applied, headers, invalidated,
                   early, breaks>>
-----------------------------------------------------------------------------
\* The receiver thread, outside the funnel.
receiverBroken(t) ==
    /\ ~link[t].up
    /\ \/ r[t].pc = "lcp"
       \/ r[t].pc = "read" /\ link[t].toR = <<>>
    /\ receiverFails(t)
    /\ UNCHANGED <<controllerVars, files, resuming, s, link, received, applied, dequeued, headers,
                   invalidated, early, breaks>>

sendLocalCheckpoint(t) ==
    /\ r[t].pc = "lcp"
    /\ writeToS(t, Message("LCP", r[t].blocks, <<>>))
    /\ receiverGoes(t, "read")
    /\ UNCHANGED <<controllerVars, files, resuming, s, received, applied, dequeued, headers,
                   invalidated, early, breaks>>

readNextCmd(t) ==
    /\ r[t].pc = "read"
    /\ readFromS(t, {"SETTINGS", "FILE"})
    /\ receiverGoes(t, IF Head(link[t].toR).cmd = "FILE" THEN "file"
                       ELSE IF resuming THEN "funnel" ELSE "read")
    /\ UNCHANGED <<controllerVars, files, resuming, s, received, applied, dequeued, headers,
                   invalidated, early, breaks>>

blockReceived(t) == r' = [r EXCEPT ![t].pc = "read", ![t].blocks = 1]

\* The beginning of processFileCmd; the thread that starts the funnel goes on
\* to write the header.
processFileCmd(t) ==
    /\ r[t].pc = "file"
    /\ IF r[t].blocks > 0 THEN blockReceived(t) /\ UNCHANGED <<funnel, early>>
       ELSE \E st \in {"START", "PROGRESS", "END"} :
              /\ funnelStatus(st)
              /\ IF st = "START" THEN receiverGoes(t, "header") /\ UNCHANGED early
                 ELSE blockReceived(t) /\ early' = (early \/ headers = 0)
    /\ UNCHANGED <<threadState, barrier, startHits, endHits, checkFailed, files, resuming, s, link,
                   received, applied, dequeued, headers, invalidated, breaks>>

\* Receiver::addTransferLogHeader.
addTransferLogHeader(senderResuming) ==
    /\ invalidated' = (invalidated \/ ~senderResuming)
    /\ headers' = headers + 1

notResuming(t) ==
    /\ r[t].pc = "header"
    /\ addTransferLogHeader(FALSE)
    /\ notifySuccess
    /\ blockReceived(t)
    /\ UNCHANGED <<threadState, barrier, startHits, endHits, checkFailed, files, resuming, s, link,
                   received, applied, dequeued, early, breaks>>
-----------------------------------------------------------------------------
\* sendFileChunks: the list was sent by somebody ...
funnelEnd(t) ==
    /\ r[t].pc = "funnel"
    /\ funnelStatus("END")
    /\ \/ writeToS(t, Simple("ACK")) /\ receiverGoes(t, "read")
       \/ ~link[t].up /\ receiverFails(t) /\ UNCHANGED link
    /\ UNCHANGED <<threadState, barrier, startHits, endHits, checkFailed, files, resuming, s,
                   received, applied, dequeued, headers, invalidated, early, breaks>>

\* ... or is being sent: the sender is told to wait ...
funnelProgress(t) ==
    /\ r[t].pc = "funnel"
    /\ funnelStatus("PROGRESS")
    /\ \/ writeToS(t, Simple("WAIT")) /\ receiverGoes(t, "wait")
       \/ ~link[t].up /\ receiverFails(t) /\ UNCHANGED link
    /\ UNCHANGED <<threadState, barrier, startHits, endHits, checkFailed, files, resuming, s,
                   received, applied, dequeued, headers, invalidated, early, breaks>>

waitInFunnel(t) ==
    /\ r[t].pc = "wait"
    /\ funnelWait(t)
    /\ receiverGoes(t, "waiting")
    /\ UNCHANGED <<threadState, barrier, startHits, endHits, checkFailed, files, resuming, s, link,
                   received, applied, dequeued, headers, invalidated, early, breaks>>

\* The wait ends when notified or after waitingTimeMillis.
awake(t) ==
    /\ r[t].pc = "waiting"
    /\ \/ funnelAwake(t) /\ UNCHANGED funnel
       \/ funnelSpurious(t)
    /\ receiverGoes(t, "funnel")
    /\ UNCHANGED <<threadState, barrier, startHits, endHits, checkFailed, files, resuming, s, link,
                   received, applied, dequeued, headers, invalidated, early, breaks>>

\* ... or this thread sends it: CHUNKS_CMD, the frames, the answer.
funnelStart(t) ==
    /\ r[t].pc = "funnel"
    /\ funnel.status = "START"
    /\ \/ /\ writeToS(t, Message("CHUNKS", Len(files), <<>>))
          /\ funnelStatus("START")
          /\ r' = [r EXCEPT ![t].pc = "write", ![t].sent = 0]
       \/ ~link[t].up /\ notifyFail /\ receiverFails(t) /\ UNCHANGED link
    /\ UNCHANGED <<threadState, barrier, startHits, endHits, checkFailed, files, resuming, s,
                   received, applied, dequeued, headers, invalidated, early, breaks>>

writeFrame(t) ==
    /\ r[t].pc = "write"
    /\ r[t].sent < Len(files)
    /\ LET e == Encoded(r[t].sent) IN
       \/ /\ writeToS(t, Message("LIST", 0, e.ents))
          /\ r' = [r EXCEPT ![t].sent = @ + Len(e.ents)]
          /\ UNCHANGED funnel
       \/ ~link[t].up /\ notifyFail /\ receiverFails(t) /\ UNCHANGED link
    /\ UNCHANGED <<threadState, barrier, startHits, endHits, checkFailed, files, resuming, s,
                   received, applied, dequeued, headers, invalidated, early, breaks>>

readAck(t) ==
    /\ r[t].pc = "write"
    /\ r[t].sent = Len(files)
    /\ \/ /\ readFromS(t, {"ACK"})
          /\ addTransferLogHeader(TRUE)
          /\ notifySuccess
          /\ receiverGoes(t, "read")
       \/ /\ ~link[t].up /\ link[t].toR = <<>>
          /\ notifyFail
          /\ receiverFails(t)
          /\ UNCHANGED <<link, headers, invalidated>>
    /\ UNCHANGED <<threadState, barrier, startHits, endHits, checkFailed, files, resuming, s,
                   received, applied, dequeued, early, breaks>>
-----------------------------------------------------------------------------
receiverStep(t) ==
    \/ listen(t) \/ hasNewTransferStarted(t) \/ acceptTimesOut(t) \/ receiverBroken(t)
    \/ sendLocalCheckpoint(t) \/ readNextCmd(t) \/ processFileCmd(t) \/ notResuming(t)
    \/ funnelEnd(t) \/ funnelProgress(t) \/ waitInFunnel(t) \/ awake(t)
    \/ funnelStart(t) \/ writeFrame(t) \/ readAck(t)
senderStep(t) ==
    \/ connect(t) \/ noProgress(t) \/ senderBroken(t) \/ readLocalCheckPoint(t)
    \/ sendSettings(t) \/ readFileChunks(t) \/ readFrame(t) \/ listComplete(t)
    \/ sendAck(t) \/ sendBlock(t)

Next == \E t \in Threads :
    receiverStep(t) \/ senderStep(t) \/ strangerConnects(t) \/ breakLink(t)

\* Threads run; breaks and strangers need not happen.
Spec == /\ Init /\ [][Next]_vars
        /\ \A t \in Threads : WF_vars(receiverStep(t)) /\ WF_vars(senderStep(t))
-----------------------------------------------------------------------------
\* What the source queue is rebuilt from (setPreviouslyReceivedChunks) is the
\* list of the receiver, however it was cut into frames and however often a
\* connection broke while it was sent: every entry that fits into the buffer and
\* no other, and when all of them fit, each once and in order.  An entry that
\* does not fit is left out but counted, and others are sent twice for it.
Fits(i) == files[i] + Prefix < BufSize
ListArrivesWhole ==
    received => /\ ToSet(applied) = {i \in 1..Len(files) : Fits(i)}
                /\ (\A i \in 1..Len(files) : Fits(i)) => applied = [i \in 1..Len(files) |-> i]

\* No sender thread ends with PROTOCOL_ERROR, and the queue is not rebuilt once
\* blocks have been taken from it: an ACK comes only when the sender has the
\* list (isFileChunksReceived), a checkpoint that was not expected is empty.
NoProtocolError == ~checkFailed /\ \A t \in Threads : ~s[t].bad

\* When the sender resumes, the log gets one header, only once the sender holds
\* the list, and processFileCmd never takes the sender for one that does not
\* resume (which would invalidate the directory).
HeaderFollowsList == resuming => headers <= (IF received THEN 1 ELSE 0) /\ ~invalidated

\* Every sender thread comes to send blocks or gives up: a thread that fails
\* while it sends the list hands the funnel on (notifyFail), and the others do
\* not wait for ever.
EveryThreadServed == \A t \in Threads : <>[](s[t].pc \in {"sent", "end"})

\* ReceiverThread::processFileCmd says of the header "following block needs to
\* be executed for the first file cmd": no block is taken in before the log has
\* its header.
BlocksFollowHeader == ~early
=============================================================================
