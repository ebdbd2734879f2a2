----------------------------- MODULE Connection -----------------------------
(***************************************************************************)
(* The TCP connection between the sender thread and the receiver thread of *)
(* each port, as the sockets of the two threads use it (WdtSocket,         *)
(* ClientSocket, ServerSocket).  The operating system is external code:    *)
(* what is modelled is what reads and writes can return.                   *)
(*                                                                         *)
(*   "none"     the sender has no socket                                   *)
(*   "pending"  connect() returned, accept() has not taken the connection  *)
(*   "up"       both ends hold the same connection                         *)
(*   "cut"      the sender still holds a connection that no longer works:  *)
(*              it broke, or the receiver closed its end                   *)
(*                                                                         *)
(* What was written before a cut may arrive up to any byte.  A write into  *)
(* a cut connection fails, or succeeds locally and is lost.  A timeout of  *)
(* a read or a write is a cut.                                             *)
(***************************************************************************)
EXTENDS Checkpoint

CONSTANTS
    Verification,  \* how received blocks are verified: not at all, by a checksum
                   \* in the footer, or by the tags of the encryption
    MaxFaults      \* bound on the faults of one transfer

ASSUME VerificationAssumption == Verification \in {"none", "checksum", "tag"}

VARIABLES
    link,       \* link[t]: state of the connection of port t
    toReceiver, \* toReceiver[t]: commands written by the sender and not read
    toSender,   \* toSender[t]: commands written by the receiver and not read
    listening,  \* listening[t]: the receiver thread's port accepts connections
    faults      \* faults so far

linkVars == <<link, toReceiver, toSender, listening, faults>>

Cmd(c) == [cmd |-> c]

\* FILE_CMD: header and data of the block of b that starts at o, k bytes of
\* data; whole says whether that is all the header announced.
FileCmd(b, o, k, whole) ==
    [cmd |-> "FILE", block |-> b, offset |-> o, bytes |-> k, whole |-> whole]

\* A local checkpoint, and ERR_CMD with checkpoints of dead receiver threads.
CheckpointCmd(c) == [cmd |-> "LOCAL_CHECKPOINT", checkpoint |-> c]
ErrCmd(cs) == [cmd |-> "ERR", checkpoints |-> cs]

\* What the reader can make of a command that arrived in part and is not simply
\* missing: a block cut in its header or its data, an ERR or an ABORT whose
\* first byte arrived.
Pieces(m) ==
    CASE m.cmd = "FILE" -> {FileCmd(m.block, m.offset, k, FALSE) :
                                k \in {n \in 0..BlockSize : n < m.bytes}}
                           \cup {Cmd("FILE_HEADER_CUT")}
      [] m.cmd = "ERR" -> {Cmd("ERR_CUT")}
      [] m.cmd = "ABORT" -> {Cmd("ABORT_CUT")}
      [] OTHER -> {}

\* What is left of the commands s when the bytes after some point are lost.
Remains(s) ==
    {SubSeq(s, 1, n) : n \in 0..Len(s)}
    \cup UNION {{Append(SubSeq(s, 1, n - 1), p) : p \in Pieces(s[n])} : n \in 1..Len(s)}

LinkInit ==
    /\ link = [t \in Threads |-> "none"]
    /\ toReceiver = [t \in Threads |-> <<>>]
    /\ toSender = [t \in Threads |-> <<>>]
    /\ listening = [t \in Threads |-> TRUE]
    /\ faults = 0

Fault == faults < MaxFaults /\ faults' = faults + 1

\* The connection breaks.
Break(t) ==
    /\ link[t] = "up"
    /\ Fault
    /\ link' = [link EXCEPT ![t] = "cut"]
    /\ \E s \in Remains(toReceiver[t]) : toReceiver' = [toReceiver EXCEPT ![t] = s]
    /\ \E s \in Remains(toSender[t]) : toSender' = [toSender EXCEPT ![t] = s]
    /\ UNCHANGED listening

----------------------------------------------------------------------------
(* The sender's end *)

\* connect() succeeds: the listening socket queues the connection.  Whatever
\* the receiver has not read yet stays in its old socket.
SenderConnects(t) ==
    /\ listening[t]
    /\ link' = [link EXCEPT ![t] = "pending"]
    /\ toSender' = [toSender EXCEPT ![t] = <<>>]
    /\ UNCHANGED <<toReceiver, listening, faults>>

\* connect() fails: nobody listens any more, or the network is down.
SenderRefused(t) ==
    /\ \/ ~ listening[t] /\ UNCHANGED faults
       \/ listening[t] /\ Fault
    /\ link' = [link EXCEPT ![t] = "none"]
    /\ toSender' = [toSender EXCEPT ![t] = <<>>]
    /\ UNCHANGED <<toReceiver, listening>>

SenderWrites(t, m) ==
    /\ toReceiver' = IF link[t] = "cut" THEN toReceiver
                     ELSE [toReceiver EXCEPT ![t] = Append(@, m)]
    /\ UNCHANGED <<link, toSender, listening, faults>>

SenderWriteFails(t) == link[t] = "cut" /\ UNCHANGED linkVars

\* The write of m is given up half-way.
SenderWritesPart(t, m) ==
    /\ \E p \in Pieces(m) :
          toReceiver' = IF link[t] = "cut" THEN toReceiver
                        ELSE [toReceiver EXCEPT ![t] = Append(@, p)]
    /\ UNCHANGED <<link, toSender, listening>>

SenderReads(t, m) ==
    /\ toSender[t] # <<>>
    /\ m = Head(toSender[t])
    /\ toSender' = [toSender EXCEPT ![t] = Tail(@)]
    /\ UNCHANGED <<link, toReceiver, listening, faults>>

SenderReadFails(t) == toSender[t] = <<>> /\ link[t] = "cut" /\ UNCHANGED linkVars

SenderHangsUp(t) ==
    /\ link' = [link EXCEPT ![t] = "none"]
    /\ toSender' = [toSender EXCEPT ![t] = <<>>]
    /\ toReceiver' = IF link[t] = "pending" THEN [toReceiver EXCEPT ![t] = <<>>]
                     ELSE toReceiver
    /\ UNCHANGED <<listening, faults>>

----------------------------------------------------------------------------
(* The receiver's end *)

ReceiverAccepts(t) ==
    /\ link[t] = "pending"
    /\ link' = [link EXCEPT ![t] = "up"]
    /\ UNCHANGED <<toReceiver, toSender, listening, faults>>

ReceiverWrites(t, m) ==
    /\ toSender' = IF link[t] = "up" THEN [toSender EXCEPT ![t] = Append(@, m)]
                   ELSE toSender
    /\ UNCHANGED <<link, toReceiver, listening, faults>>

ReceiverWriteFails(t) == link[t] # "up"

ReceiverReads(t, m) ==
    /\ toReceiver[t] # <<>>
    /\ m = Head(toReceiver[t])
    /\ toReceiver' = [toReceiver EXCEPT ![t] = Tail(@)]
    /\ UNCHANGED <<link, toSender, listening>>

ReceiverReadFails(t) == toReceiver[t] = <<>> /\ link[t] # "up"

\* closeNoCheck: a connection the sender still uses is cut, one that waits to
\* be accepted is not touched.
ReceiverHangsUp(t) ==
    /\ link' = [link EXCEPT ![t] = IF @ = "up" THEN "cut" ELSE @]
    /\ toReceiver' = [toReceiver EXCEPT ![t] = <<>>]
    /\ UNCHANGED <<toSender, listening, faults>>

\* closeAllNoCheck: the listening socket goes too.
ReceiverStopsListening(t) ==
    /\ listening' = [listening EXCEPT ![t] = FALSE]
    /\ link' = [link EXCEPT ![t] = IF @ = "none" THEN @ ELSE "cut"]
    /\ toReceiver' = [toReceiver EXCEPT ![t] = <<>>]
    /\ UNCHANGED <<toSender, faults>>
=============================================================================
