----------------------------- MODULE Resumption -----------------------------
(***************************************************************************)
(* Download resumption over several sessions: the receiver opens and       *)
(* parses the transfer log, the sender compares the list with its files    *)
(* and sends what is missing, the receiver writes files and log, and the   *)
(* process or the machine may crash at any time.  Between two sessions the *)
(* files of the sender may change their sizes, the options may change, and *)
(* another sender may come.  Byte i of a file is the same in all its       *)
(* versions, so what matters of a file is its size and which bytes hold    *)
(* their data.                                                             *)
(***************************************************************************)
EXTENDS TransferLog

CONSTANTS
    NumFiles,      \* the files are 1..NumFiles, discovered in this order
    MaxSize,       \* bound: size of a file of the sender
    BlockSize,     \* block_size_mbytes, in bytes
    Configs,       \* sets of options, of {"plain", "prealloc", "tree"}
    BlockModes,    \* whether senders use blocks: a subset of BOOLEAN
    Ips,           \* senders
    Resumes,       \* whether a sender asks for the list: a subset of BOOLEAN
    Changes,       \* how sizes change between sessions: "none", "grow", "shrink", "any"
    Deletes,       \* whether files may vanish at the sender (delete_extra_files)
    MachineCrash,  \* whether the machine, not only the process, may crash
    Compaction,    \* enable_transfer_log_compaction
    KeepLog,       \* keep_transfer_log
    MaxSessions    \* bound

Files == 1..NumFiles

ResumptionAssumption ==
    /\ NumFiles \in Nat \ {0} /\ MaxSize \in Nat /\ BlockSize \in Nat \ {0} /\ MaxSessions \in Nat
    /\ Configs \subseteq {"plain", "prealloc", "tree"}
    /\ Changes \in {"none", "grow", "shrink", "any"}
    /\ Resumes \subseteq BOOLEAN /\ BlockModes \subseteq BOOLEAN
    /\ {Deletes, MachineCrash, Compaction, KeepLog, LogFaults} \subseteq BOOLEAN

VARIABLES
    phase,       \* down, up, ready, run, done
    config,      \* options of the session
    resumes,     \* isSendFileChunks() of the sender
    blockMode,   \* isBlockMode_
    src,         \* src[f]: size at the sender, -1 if it is not there
    peer,        \* address of the sender
    disk,        \* disk[f]: what the receiver finds
    safe,        \* safe[f]: what a crash of the machine leaves
    fresh,       \* files whose directory entry may still be lost
    claims,      \* fileChunksInfo_
    plan,        \* plan[f]: how the sender has the file opened
    todo,        \* blocks not yet written, as <<file, offset, length>>
    written,     \* blocks written and not yet logged
    opened,      \* files the FileCreator has allocated
    bad,         \* the log was found invalid, and no transfer succeeded since
    sessions

sessionVars == <<phase, config, resumes, blockMode, src, peer, disk, safe, fresh, claims, plan, todo,
                 written, opened, bad, sessions>>
vars == <<logVars, sessionVars>>

Absent == [size |-> -1, good |-> {}]
NoPlan == [seq |-> 0, prev |-> 0, status |-> "NONE"]

\* The options that matter.
Options(name) == [prealloc |-> name = "prealloc", tree |-> name = "tree"]

Init ==
    /\ LogInit
    /\ phase = "down"
    /\ config = [prealloc |-> FALSE, tree |-> FALSE]
    /\ resumes = TRUE /\ blockMode = TRUE
    /\ src \in [Files -> 0..MaxSize]
    /\ peer = ""
    /\ disk = [f \in Files |-> Absent] /\ safe = disk /\ fresh = {}
    /\ claims = {}
    /\ plan = [f \in Files |-> NoPlan]
    /\ todo = {} /\ written = {} /\ opened = {}
    /\ bad = FALSE
    /\ sessions = 0

DiskSizes == [f \in Files |-> disk[f].size]
-----------------------------------------------------------------------------
\* How the files of the sender may be when a session starts.
Changed(old, new) ==
    CASE Changes = "none" -> new = old
      [] Changes = "grow" -> \A f \in Files : new[f] >= old[f]
      [] Changes = "shrink" -> \A f \in Files : new[f] <= old[f]
      [] Changes = "any" -> TRUE

\* traverseDestinationDir: in size based resumption all that is there.
traverseDestinationDir ==
    {[seq |-> f - 1, f |-> f, size |-> disk[f].size, chunks |-> <<Interval(0, disk[f].size)>>] :
        f \in {g \in Files : disk[g].size >= 0}}

\* Receiver::init, with the options of this session.
init ==
    /\ phase \in {"down", "done"}
    /\ sessions < MaxSessions
    /\ sessions' = sessions + 1
    /\ \E c \in Configs : config' = Options(c)
    /\ resumes' \in Resumes
    /\ blockMode' \in BlockModes
    /\ src' \in [Files -> (IF Deletes /\ sessions > 0 THEN -1 ELSE 0)..MaxSize]
    /\ sessions > 0 => Changed(src, src')
    /\ peer' \in Ips
    /\ LET acc == parseLog(log, config', DiskSizes) IN
       /\ openAndParse(acc)
       /\ claims' = IF config'.tree /\ acc.status = "OK" THEN traverseDestinationDir
                    ELSE ParsedChunks(acc)
    /\ bad' = (bad \/ resumptionStatus' = "INVALID_LOG")
    /\ phase' = IF checkFailed' THEN "down" ELSE "up"
    /\ plan' = [f \in Files |-> NoPlan]
    /\ todo' = {} /\ written' = {} /\ opened' = {}
    /\ UNCHANGED <<disk, safe, fresh>>

\* Receiver::startNewGlobalSession, when the first connection comes.
startNewGlobalSession ==
    /\ phase = "up"
    /\ verifySenderIp(config, peer)
    /\ phase' = IF checkFailed' THEN "down" ELSE "ready"
    /\ claims' = IF senderIpVerified(peer) THEN claims ELSE {}
    /\ UNCHANGED <<config, resumes, blockMode, src, peer, disk, safe, fresh, plan, todo, written, opened,
                   bad, sessions>>
-----------------------------------------------------------------------------
(* DirectorySourceQueue::createIntoQueueInternal and                         *)
(* enqueueFilesToBeDeleted, for the list of the receiver.                    *)

ClaimsFor(list, f) == {c \in list : c.f = f}

\* A file is new, or greater at the receiver, and gets a new sequence id.
NeedsNewSeq(list, f) ==
    src[f] >= 0 /\ \A c \in ClaimsFor(list, f) : c.size > src[f]
nextSeqId(list) == IF list = {} THEN 0 ELSE CHOOSE n \in {c.seq + 1 : c \in list} :
                                              \A c \in list : c.seq < n

allocationStatus(list, f) ==
    LET c == ClaimsFor(list, f) IN
    IF src[f] < 0 THEN IF c = {} \/ ~Deletes THEN "NONE" ELSE "TO_BE_DELETED"
    ELSE IF c = {} THEN "NOT_EXISTS"
    ELSE LET size == (CHOOSE x \in c : TRUE).size IN
         IF size > src[f] THEN "EXISTS_TOO_LARGE"
         ELSE IF size < src[f] THEN "EXISTS_TOO_SMALL" ELSE "EXISTS_CORRECT_SIZE"

PlanFor(list, f) ==
    LET new == {g \in Files : g < f /\ NeedsNewSeq(list, g)}
        old == IF ClaimsFor(list, f) = {} THEN 0 ELSE (CHOOSE x \in ClaimsFor(list, f) : TRUE).seq IN
    [seq |-> IF NeedsNewSeq(list, f) THEN nextSeqId(list) + Cardinality(new) ELSE old,
     prev |-> old, status |-> allocationStatus(list, f)]

RemainingChunks(list, f) ==
    IF src[f] < 0 THEN <<>>
    ELSE IF NeedsNewSeq(list, f) THEN <<Interval(0, src[f])>>
    ELSE getRemainingChunks((CHOOSE x \in ClaimsFor(list, f) : TRUE).chunks, src[f])

\* A chunk is cut into blocks; without blocks it is one.
BlocksOf(f, c) ==
    LET size == IF blockMode THEN BlockSize ELSE MaxSize + 1
        last == IF c.end = c.start THEN 0 ELSE (c.end - c.start - 1) \div size IN
    {<<f, c.start + i * size,
       IF c.end - c.start - i * size < size THEN c.end - c.start - i * size ELSE size>> : i \in 0..last}

BlocksFor(list) ==
    UNION {BlocksOf(f, c) : <<f, c>> \in
             UNION {{<<f, c>> : c \in ToSet(RemainingChunks(list, f))} : f \in Files}}
      \cup {<<f, 0, 0>> : f \in {g \in Files : allocationStatus(list, g) = "TO_BE_DELETED"}}

setPlan(list) ==
    /\ plan' = [f \in Files |-> PlanFor(list, f)]
    /\ todo' = BlocksFor(list)

\* The list goes to the sender, its answer has the log header written.
sendFileChunks ==
    /\ phase = "ready"
    /\ resumes
    /\ setPlan(claims)
    /\ addTransferLogHeader(config, TRUE, blockMode)
    /\ phase' = IF checkFailed' THEN "down" ELSE "run"
    /\ UNCHANGED <<config, resumes, blockMode, src, peer, disk, safe, fresh, claims, written, opened, bad,
                   sessions>>

\* The sender does not ask for it and just starts.
noFileChunks ==
    /\ phase = "ready"
    /\ ~resumes
    /\ setPlan({})
    /\ phase' = "first"
    /\ UNCHANGED <<logVars, config, resumes, blockMode, src, peer, disk, safe, fresh, claims, written,
                   opened, bad, sessions>>

\* The first FILE command of such a sender has the header written.
firstFileCmd ==
    /\ phase = "first"
    /\ todo # {}
    /\ addTransferLogHeader(config, FALSE, blockMode)
    /\ phase' = IF checkFailed' THEN "down" ELSE "run"
    /\ UNCHANGED <<config, resumes, blockMode, src, peer, disk, safe, fresh, claims, plan, todo, written,
                   opened, bad, sessions>>
-----------------------------------------------------------------------------
\* FileCreator::setFileSize, for a file of this size.
setFileSize(d, size) ==
    LET cut == IF d.size > size THEN (IF config.prealloc THEN size ELSE 0) ELSE d.size
        final == IF config.prealloc /\ cut < size THEN size ELSE cut IN
    [size |-> final, good |-> d.good \cap 0..(cut - 1)]

\* FileCreator::openAndSetSize: the file, then the entries of the log.
openFile(f) ==
    /\ phase = "run"
    /\ f \notin opened
    /\ plan[f].status # "TO_BE_DELETED"
    /\ \E b \in todo : b[1] = f
    /\ opened' = opened \cup {f}
    /\ LET st == plan[f].status
           d == IF st = "NOT_EXISTS" THEN [size |-> 0, good |-> {}] ELSE disk[f] IN
       /\ disk' = [disk EXCEPT ![f] = IF st = "EXISTS_CORRECT_SIZE" THEN d ELSE setFileSize(d, src[f])]
       /\ fresh' = IF disk[f].size < 0 THEN fresh \cup {f} ELSE fresh
       /\ IF config.tree \/ st = "EXISTS_CORRECT_SIZE" THEN UNCHANGED entries
          ELSE addEntries(
                 (IF st = "EXISTS_TOO_LARGE" THEN <<FileInvalidation(plan[f].prev)>> ELSE <<>>)
                 \o IF st = "EXISTS_TOO_SMALL" THEN <<FileResize(plan[f].seq, src[f])>>
                    ELSE <<FileCreation(f, plan[f].seq, src[f])>>)
    /\ UNCHANGED <<log, synced, taken, writer, fd, resumptionStatus, headerWritten, senderIp,
                   checkFailed, phase, config, resumes, blockMode, src, peer, safe, claims, plan, todo,
                   written, bad, sessions>>

\* FileWriter::write: a block, or with a crash in between only part of it.
WriteTo(d, b, n) ==
    [size |-> IF n > 0 /\ b[2] + n > d.size THEN b[2] + n ELSE d.size,
     good |-> d.good \cup b[2]..(b[2] + n - 1)]

writeBlock(b) ==
    /\ phase = "run"
    /\ b \in todo /\ b[1] \in opened
    /\ disk' = [disk EXCEPT ![b[1]] = WriteTo(@, b, b[3])]
    /\ todo' = todo \ {b}
    /\ written' = written \cup {b}
    /\ UNCHANGED <<logVars, phase, config, resumes, blockMode, src, peer, safe, fresh, claims, plan, opened, bad,
                   sessions>>

writePart(b) ==
    /\ phase = "run"
    /\ b \in todo /\ b[1] \in opened
    /\ \E n \in 1..(b[3] - 1) : disk' = [disk EXCEPT ![b[1]] = WriteTo(@, b, n)]
    /\ disk' # disk
    /\ UNCHANGED <<logVars, phase, config, resumes, blockMode, src, peer, safe, fresh, claims, plan, todo,
                   written, opened, bad, sessions>>

\* Mutation of markBlockVerified: the entry goes to the log, the data are not synced.
markBlockVerifiedUnsynced(b) ==
    /\ b \in written
    /\ written' = written \ {b}
    /\ UNCHANGED safe
    /\ IF config.tree THEN UNCHANGED entries ELSE addEntries(<<BlockWrite(plan[b[1]].seq, b[2], b[3])>>)
    /\ UNCHANGED <<log, synced, taken, writer, fd, resumptionStatus, headerWritten, senderIp,
                   checkFailed, phase, config, resumes, blockMode, src, peer, disk, fresh, claims, plan, todo,
                   opened, bad, sessions>>

\* FileWriter::sync, then markBlockVerified.
markBlockVerified(b) ==
    /\ b \in written
    /\ written' = written \ {b}
    /\ safe' = IF config.tree THEN safe ELSE [safe EXCEPT ![b[1]] = disk[b[1]]]
    /\ IF config.tree THEN UNCHANGED entries ELSE addEntries(<<BlockWrite(plan[b[1]].seq, b[2], b[3])>>)
    /\ UNCHANGED <<log, synced, taken, writer, fd, resumptionStatus, headerWritten, senderIp,
                   checkFailed, phase, config, resumes, blockMode, src, peer, disk, fresh, claims, plan, todo,
                   opened, bad, sessions>>

\* A file that the sender does not have is deleted and invalidated.
deleteFile(f) ==
    /\ phase = "run"
    /\ <<f, 0, 0>> \in todo /\ plan[f].status = "TO_BE_DELETED"
    /\ todo' = todo \ {<<f, 0, 0>>}
    /\ disk' = [disk EXCEPT ![f] = Absent]
    /\ IF config.tree THEN UNCHANGED entries ELSE addEntries(<<FileInvalidation(plan[f].seq)>>)
    /\ UNCHANGED <<log, synced, taken, writer, fd, resumptionStatus, headerWritten, senderIp,
                   checkFailed, phase, config, resumes, blockMode, src, peer, safe, fresh, claims, plan,
                   written, opened, bad, sessions>>

writeLog ==
    /\ takeEntries \/ writeEntriesToDisk \/ writeEntriesFails
    /\ UNCHANGED sessionVars
-----------------------------------------------------------------------------
\* fixAndCloseTransferLog after a transfer that succeeded.
finish ==
    /\ phase \in {"run", "first"}
    /\ todo = {} /\ written = {}
    /\ LET inconsistent == resumptionStatus = "INCONSISTENT_DIRECTORY"
           invalid == resumptionStatus = "INVALID_LOG"
           header == <<Header(config, senderIp)>> IN
       IF inconsistent /\ ~config.tree
         THEN /\ checkFails
              /\ phase' = "down"
              /\ UNCHANGED <<log, synced, headerWritten, senderIp, bad>>
       ELSE /\ phase' = "done"
            /\ bad' = FALSE
            /\ UNCHANGED checkFailed
            /\ IF invalid \/ ~KeepLog THEN closeLog(<<>>, 0)
               ELSE IF inconsistent /\ fd
                 THEN \/ closeLog(FlushedLog \o header, Len(FlushedLog) + 1)
                      \/ \E p \in Partial(header) : closeLog(FlushedLog \o p, synced)
               ELSE IF Compaction /\ ~config.tree /\ fd
                 THEN \E l \in compactLog(config, DiskSizes) : closeLog(l.log, l.synced)
               ELSE closeLog(FlushedLog, synced)
    /\ UNCHANGED <<resumptionStatus, config, resumes, blockMode, src, peer, disk, safe, fresh, claims, plan,
                   todo, written, opened, sessions>>

\* ... and after one that failed: the entries that are buffered are written.
finishWithError ==
    /\ phase \in {"up", "ready", "first", "run"}
    /\ phase' = "down"
    /\ closeLog(FlushedLog, synced)
    /\ UNCHANGED <<resumptionStatus, checkFailed, config, resumes, blockMode, src, peer, disk, safe, fresh,
                   claims, plan, todo, written, opened, bad, sessions>>

gone ==
    /\ phase' = "down"
    /\ entries' = <<>> /\ taken' = <<>> /\ writer' = FALSE /\ fd' = FALSE
    /\ UNCHANGED <<resumptionStatus, headerWritten, senderIp, checkFailed, config, resumes, blockMode, src,
                   peer, claims, plan, todo, written, opened, bad, sessions>>

\* The process crashes, perhaps while the writer thread writes.
processCrash ==
    /\ phase \in {"up", "ready", "first", "run"}
    /\ \E n \in 0..Len(taken), torn \in BOOLEAN :
          /\ torn => n < Len(taken)
          /\ log' = log \o Cut(taken, n, torn)
    /\ gone
    /\ UNCHANGED <<synced, disk, safe, fresh>>

\* What may be left of a file after the machine crashed: what was there, what
\* was synced, the new size without new data, or nothing at all.
Leftovers(f) ==
    {disk[f], safe[f], [disk[f] EXCEPT !.good = @ \cap safe[f].good]}
      \cup (IF f \in fresh THEN {Absent} ELSE {})

machineCrash ==
    /\ MachineCrash
    /\ phase # "down" \/ Len(log) > synced \/ disk # safe
    /\ LET all == log \o taken IN
       \E n \in synced..Len(all), torn \in BOOLEAN :
          /\ torn => n < Len(all)
          /\ log' = Cut(all, n, torn)
          /\ synced' = Len(log')
    /\ disk' \in {d \in [Files -> UNION {Leftovers(f) : f \in Files}] :
                    \A f \in Files : d[f] \in Leftovers(f)}
    /\ safe' = disk'
    /\ fresh' = {}
    /\ gone
-----------------------------------------------------------------------------
Next ==
    \/ init \/ startNewGlobalSession \/ sendFileChunks \/ noFileChunks \/ firstFileCmd
    \/ \E f \in Files : openFile(f) \/ deleteFile(f)
    \/ \E b \in todo : writeBlock(b) \/ writePart(b)
    \/ \E b \in written : markBlockVerified(b)
    \/ writeLog
    \/ finish \/ finishWithError \/ processCrash \/ machineCrash

Spec == Init /\ [][Next]_vars /\ WF_vars(writeLog)
-----------------------------------------------------------------------------
\* Every byte that the parsed log says was received is in the file: the sender
\* will not send it again ("sends only the missing portions").
ClaimsAreOnDisk ==
    phase = "up" => \A c \in claims : Bytes(c.chunks) \subseteq disk[c.f].good

\* A transfer that succeeds leaves every file of the sender whole, whatever the
\* earlier sessions left and however they ended.
SuccessIsComplete ==
    phase = "done" => \A f \in Files : src[f] >= 0 =>
        disk[f].size = src[f] /\ disk[f].good = 0..(src[f] - 1)


\* parseVerifyAndFix: "Keeping the invalid log ensures that the directory
\* remains invalid": until a transfer succeeds nothing is claimed again.
InvalidStaysInvalid == phase = "up" /\ bad => claims = {}

\* No WDT_CHECK of the log fails (fixAndCloseTransferLog, fsyncLog).
ChecksHold == ~checkFailed

\* Entries do not stay in the buffer: with writes that succeed the thread gets
\* them to the file while the session lasts ("WDT writes all important events
\* ... to .wdt.log").
EntriesReachTheLog == entries # <<>> ~> (entries = <<>>)
=============================================================================
