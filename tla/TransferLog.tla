---------------------------- MODULE TransferLog ----------------------------
(***************************************************************************)
(* TransferLogManager and LogParser: the log that a receiver keeps in the  *)
(* destination directory.  Header and directory invalidation are written   *)
(* at once and synced; the other entries are buffered and written by a     *)
(* thread.  A log is a sequence of entries, a partly written one is TORN;  *)
(* no log at all is the empty log.  Writes to the log may fail.            *)
(***************************************************************************)
EXTENDS FileChunks, FiniteSets

CONSTANT LogFaults  \* whether writes to the log may fail or be short

VARIABLES
    log,            \* the entries in the file
    synced,         \* how many of them are on the disk for sure
    entries,        \* entries_
    taken,          \* what the writer thread has taken and not yet written
    writer,         \* the writer thread is running
    fd,             \* fd_ >= 0
    resumptionStatus,
    headerWritten,
    senderIp,       \* senderIp_, "" if none
    checkFailed     \* a WDT_CHECK failed: the process is gone

logVars == <<log, synced, entries, taken, writer, fd, resumptionStatus, headerWritten,
             senderIp, checkFailed>>

Header(config, ip) == [type |-> "HEADER", config |-> config, ip |-> ip]
FileCreation(f, seq, size) == [type |-> "FILE_CREATION", f |-> f, seq |-> seq, size |-> size]
BlockWrite(seq, off, len) == [type |-> "BLOCK_WRITE", seq |-> seq, off |-> off, len |-> len]
FileResize(seq, size) == [type |-> "FILE_RESIZE", seq |-> seq, size |-> size]
FileInvalidation(seq) == [type |-> "FILE_INVALIDATION", seq |-> seq]
DirectoryInvalidation == [type |-> "DIRECTORY_INVALIDATION"]
Torn == [type |-> "TORN"]

\* The first n entries of l, the next one torn.
Cut(l, n, torn) == SubSeq(l, 1, n) \o IF torn THEN <<Torn>> ELSE <<>>

\* What a write of the entries es that fails or is short may leave of them.
Partial(es) ==
    IF LogFaults THEN {Cut(es, n, torn) : n \in 0..(Len(es) - 1), torn \in BOOLEAN} ELSE {}

LogInit ==
    /\ log = <<>> /\ synced = 0
    /\ entries = <<>> /\ taken = <<>> /\ writer = FALSE
    /\ fd = FALSE
    /\ resumptionStatus = "OK"
    /\ headerWritten = FALSE
    /\ senderIp = ""
    /\ checkFailed = FALSE
-----------------------------------------------------------------------------
(* The parser.  acc holds its members: files is fileInfoMap_, sizes is       *)
(* seqIdToSizeMap_, invalid is invalidSeqIds_; disk[f] is the size that      *)
(* stat() finds, -1 if there is no such file.                                *)

clearParsedData(acc) == [acc EXCEPT !.files = <<>>, !.sizes = <<>>, !.invalid = {}]
Without(map, seq) == [k \in DOMAIN map \ {seq} |-> map[k]]
\* std::map::emplace leaves an element that is there.
Emplace(map, seq, v) == [k \in DOMAIN map \cup {seq} |-> IF k \in DOMAIN map THEN map[k] ELSE v]
InvalidLog(acc) == [acc EXCEPT !.status = "INVALID_LOG"]

processHeaderEntry(acc, e, config) ==
    IF e.config # config
      THEN clearParsedData([acc EXCEPT !.ip = e.ip, !.status = "INCONSISTENT_DIRECTORY"])
    ELSE [acc EXCEPT !.ip = e.ip, !.status = "OK", !.header = TRUE]

processFileCreationEntry(acc, e, config, disk) ==
    IF ~acc.header \/ config.tree \/ e.seq \in DOMAIN acc.files \cup acc.invalid THEN InvalidLog(acc)
    ELSE IF disk[e.f] >= IF config.prealloc THEN e.size ELSE 0
      THEN [acc EXCEPT !.files = Emplace(@, e.seq, [f |-> e.f, size |-> disk[e.f], chunks |-> <<>>]),
                       !.sizes = Emplace(@, e.seq, e.size)]
    ELSE [acc EXCEPT !.invalid = @ \cup {e.seq}]

processFileResizeEntry(acc, e, config) ==
    IF \/ ~acc.header \/ config.tree \/ e.seq \notin DOMAIN acc.files
       \/ e.size < acc.sizes[e.seq]
       \/ config.prealloc /\ e.size > acc.files[e.seq].size
      THEN InvalidLog(acc)
    ELSE [acc EXCEPT !.sizes[e.seq] = e.size]

processBlockWriteEntry(acc, e, config) ==
    IF ~acc.header \/ config.tree THEN InvalidLog(acc)
    ELSE IF e.seq \in acc.invalid THEN acc
    ELSE IF e.seq \notin DOMAIN acc.files \/ e.off + e.len > acc.files[e.seq].size THEN InvalidLog(acc)
    ELSE [acc EXCEPT !.files[e.seq].chunks = Append(@, Interval(e.off, e.off + e.len))]

processFileInvalidationEntry(acc, e, config) ==
    IF ~acc.header \/ config.tree \/ e.seq \notin DOMAIN acc.files \cup acc.invalid THEN InvalidLog(acc)
    ELSE [acc EXCEPT !.files = Without(@, e.seq), !.invalid = @ \ {e.seq}]

processDirectoryInvalidationEntry(acc) ==
    clearParsedData([acc EXCEPT !.header = FALSE, !.status = "INCONSISTENT_DIRECTORY"])

\* One round of the loop of parseLog.  A partial entry is read as the end of the
\* log; what follows one makes no sense.
parseEntry(acc, e, config, disk) ==
    IF acc.status = "INVALID_LOG" THEN acc
    ELSE IF acc.torn THEN InvalidLog(acc)
    ELSE IF e.type = "TORN" THEN [acc EXCEPT !.torn = TRUE]
    ELSE IF acc.status = "INCONSISTENT_DIRECTORY" /\ e.type # "HEADER" THEN acc
    ELSE CASE e.type = "HEADER" -> processHeaderEntry(acc, e, config)
           [] e.type = "FILE_CREATION" -> processFileCreationEntry(acc, e, config, disk)
           [] e.type = "FILE_RESIZE" -> processFileResizeEntry(acc, e, config)
           [] e.type = "BLOCK_WRITE" -> processBlockWriteEntry(acc, e, config)
           [] e.type = "FILE_INVALIDATION" -> processFileInvalidationEntry(acc, e, config)
           [] e.type = "DIRECTORY_INVALIDATION" -> processDirectoryInvalidationEntry(acc)

parseLog(l, config, disk) ==
    FoldLeft(LAMBDA acc, e : parseEntry(acc, e, config, disk),
             [status |-> "OK", header |-> FALSE, files |-> <<>>, sizes |-> <<>>, invalid |-> {},
              ip |-> "", torn |-> FALSE], l)

\* The list handed to the sender: the files of the map with merged chunks.
ParsedChunks(acc) ==
    IF acc.status = "OK"
      THEN {[seq |-> k, f |-> acc.files[k].f, size |-> acc.files[k].size,
             chunks |-> mergeChunks(acc.files[k].chunks)] : k \in DOMAIN acc.files}
    ELSE {}


truncateExtraBytesAtEnd(l) == SelectSeq(l, LAMBDA e : e.type # "TORN")
Ascending(S) == SetToSortSeq(S, <)

\* What parseLog and parseVerifyAndFix write to the log: files that failed the
\* verification are invalidated, and so is a directory that is inconsistent.
Repairs(acc) ==
    CASE acc.status = "INVALID_LOG" -> <<>>
      [] acc.status = "INCONSISTENT_DIRECTORY" -> <<DirectoryInvalidation>>
      [] OTHER -> [i \in 1..Cardinality(acc.invalid) |-> FileInvalidation(Ascending(acc.invalid)[i])]

\* ... and what they leave in it: a partial entry is cut off first.
FixedLog(l, acc) ==
    IF acc.status = "INVALID_LOG" THEN l ELSE truncateExtraBytesAtEnd(l) \o Repairs(acc)

\* Shorter logs are never more durable than they are long.
Durable(n, l) == IF n <= Len(l) THEN n ELSE Len(l)

\* openLog, then parseAndMatch with acc what parseLog returns.  If the
\* invalidation of a file cannot be written the log is taken as invalid; if that
\* of the directory cannot, the log is closed and fsyncLog then fails its
\* WDT_CHECK.
openAndParse(acc) ==
    /\ ~fd
    /\ LET kept == Durable(synced, truncateExtraBytesAtEnd(log)) IN
       \/ /\ log' = FixedLog(log, acc)
          /\ synced' = IF acc.status = "INCONSISTENT_DIRECTORY" THEN Len(log') ELSE kept
          /\ fd' = (acc.status # "INVALID_LOG")
          /\ resumptionStatus' = acc.status
          /\ checkFailed' = FALSE
       \/ /\ \E p \in Partial(Repairs(acc)) : log' = truncateExtraBytesAtEnd(log) \o p
          /\ synced' = kept
          /\ fd' = FALSE
          /\ checkFailed' = (acc.status = "INCONSISTENT_DIRECTORY")
          /\ resumptionStatus' = IF checkFailed' THEN acc.status ELSE "INVALID_LOG"
    /\ senderIp' = acc.ip
    /\ headerWritten' = FALSE
    /\ entries' = <<>> /\ taken' = <<>> /\ writer' = FALSE
-----------------------------------------------------------------------------
startThread(config) == writer' = (~config.tree /\ resumptionStatus = "OK")

\* A write to the log that is synced at once; l is what was there.
writeSynced(l, e) == log' = Append(l, e) /\ synced' = Len(l) + 1

\* A WDT_CHECK fails: what the process has not yet written is lost.
checkFails ==
    /\ checkFailed' = TRUE
    /\ fd' = FALSE /\ writer' = FALSE
    /\ entries' = <<>> /\ taken' = <<>>

\* invalidateDirectory whose write fails: closeLog, and fsyncLog fails its check.
invalidateDirectoryFails ==
    /\ \E p \in Partial(<<DirectoryInvalidation>>) : log' = log \o p
    /\ resumptionStatus' = "INCONSISTENT_DIRECTORY"
    /\ checkFails
    /\ UNCHANGED <<synced, headerWritten, senderIp>>

\* startThread and verifySenderIp, as Receiver::startNewGlobalSession calls them;
\* with another sender the directory is invalidated.
senderIpVerified(ip) == fd /\ senderIp \in {"", ip}
verifySenderIp(config, ip) ==
    \/ /\ startThread(config)
       /\ senderIp' = IF fd THEN ip ELSE senderIp
       /\ IF fd /\ ~senderIpVerified(ip)
            THEN /\ writeSynced(log, DirectoryInvalidation)
                 /\ resumptionStatus' = "INCONSISTENT_DIRECTORY"
          ELSE UNCHANGED <<log, synced, resumptionStatus>>
       /\ UNCHANGED <<entries, taken, fd, headerWritten, checkFailed>>
    \/ fd /\ ~senderIpVerified(ip) /\ invalidateDirectoryFails

\* invalidateDirectory (if asked to) and writeLogHeader (if it is to be
\* written), as Receiver::addTransferLogHeader calls them.  If the header cannot
\* be written the log is closed and the session goes on without; nothing is
\* buffered yet.
addTransferLogHeader(config, senderResuming, blockMode) ==
    LET invalidate == fd /\ (~senderResuming \/ (config.tree /\ blockMode))
        status == IF invalidate THEN "INCONSISTENT_DIRECTORY" ELSE resumptionStatus
        cleared == IF invalidate THEN Append(log, DirectoryInvalidation) ELSE log
        clearedSynced == IF invalidate THEN Len(cleared) ELSE synced
        header == fd /\ (~config.tree \/ status # "INCONSISTENT_DIRECTORY") IN
    \/ /\ IF header THEN writeSynced(cleared, Header(config, senderIp))
          ELSE log' = cleared /\ synced' = clearedSynced
       /\ resumptionStatus' = IF header THEN "OK" ELSE status
       /\ headerWritten' = (headerWritten \/ header)
       /\ UNCHANGED <<entries, taken, writer, fd, senderIp, checkFailed>>
    \/ /\ header
       /\ \E p \in Partial(<<Header(config, senderIp)>>) : log' = cleared \o p
       /\ synced' = clearedSynced
       /\ resumptionStatus' = status
       /\ fd' = FALSE /\ writer' = FALSE
       /\ UNCHANGED <<entries, taken, headerWritten, senderIp, checkFailed>>
    \/ invalidate /\ invalidateDirectoryFails

\* The entries that are buffered: all but invalidations need the header.
Accepted(es) == IF ~fd THEN <<>>
                ELSE IF headerWritten THEN es
                ELSE SelectSeq(es, LAMBDA e : e.type = "FILE_INVALIDATION")
addEntries(es) == entries' = entries \o Accepted(es)

\* threadProcWriteEntriesToDisk: the entries are taken, then written.
takeEntries ==
    /\ writer /\ taken = <<>> /\ entries # <<>>
    /\ taken' = entries
    /\ entries' = <<>>
    /\ UNCHANGED <<log, synced, writer, fd, resumptionStatus, headerWritten, senderIp, checkFailed>>

writeEntriesToDisk ==
    /\ writer /\ taken # <<>>
    /\ log' = log \o taken
    /\ taken' = <<>>
    /\ UNCHANGED <<synced, entries, writer, fd, resumptionStatus, headerWritten, senderIp, checkFailed>>

\* The write fails: the thread ends, and what is buffered stays there.
writeEntriesFails ==
    /\ writer
    /\ \E p \in Partial(taken) : log' = log \o p
    /\ taken' = <<>>
    /\ writer' = FALSE
    /\ UNCHANGED <<synced, entries, fd, resumptionStatus, headerWritten, senderIp, checkFailed>>

\* What is in the log once the writer thread was shut down, if its last writes
\* do not fail (those that do are writeEntriesFails before), and what is still
\* buffered if it ended or was never started.
FlushedLog == IF writer THEN log \o taken \o entries ELSE log
LeftOver == IF writer THEN <<>> ELSE entries

\* compactLog: a log whose files are all whole is written anew.
Compactable(acc) ==
    /\ acc.status = "OK"
    /\ \A c \in ParsedChunks(acc) : Len(c.chunks) = 1 /\ getTotalChunkSize(c.chunks) = c.size
CompactedEntries(acc) ==
    LET c == SetToSortSeq(ParsedChunks(acc), LAMBDA x, y : x.seq < y.seq) IN
    FlattenSeq([i \in 1..Len(c) |->
        <<FileCreation(c[i].f, c[i].seq, c[i].size), BlockWrite(c[i].seq, 0, c[i].size)>>])

\* What it may leave, and how much of that is on the disk for sure.  What is
\* still buffered comes first.  The log has a header of this session, or was found
\* consistent by it, so the only repairs are invalidations of files.
compactLog(config, disk) ==
    LET acc == parseLog(FlushedLog, config, disk)
        flushed == truncateExtraBytesAtEnd(FlushedLog)
        header == <<Header(config, senderIp)>>
        rest == LeftOver \o CompactedEntries(acc) IN
    (IF Compactable(acc)
       THEN {[log |-> header \o rest, synced |-> 1]}
              \cup {[log |-> header \o p, synced |-> 1] : p \in Partial(rest)}
              \cup {[log |-> p, synced |-> 0] : p \in Partial(header)}
     ELSE {[log |-> FixedLog(FlushedLog, acc), synced |-> Len(flushed)]})
    \cup {[log |-> flushed \o p, synced |-> Len(flushed)] : p \in Partial(Repairs(acc))}

\* closeLog: the writer thread is shut down first; l is what the log then is
\* and n of its entries are on the disk for sure.
closeLog(l, n) ==
    /\ log' = l
    /\ synced' = n
    /\ fd' = FALSE
    /\ writer' = FALSE
    /\ entries' = <<>> /\ taken' = <<>>
    /\ UNCHANGED <<headerWritten, senderIp>>
=============================================================================
