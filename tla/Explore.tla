------------------------------ MODULE Explore ------------------------------
(***************************************************************************)
(* How the sender finds the files under its directory.  A path is a        *)
(* sequence of names; `tree' says what is at each real path, and a link    *)
(* holds the real path it resolves to.  A directory is read entry by entry *)
(* in an order nobody promises, its sub-directories are queued under the   *)
(* name by which they were met, and with follow_symlinks a directory is    *)
(* entered once per full path, where the path of a link is its target.     *)
(***************************************************************************)
EXTENDS Naturals, Sequences, FiniteSets, SequencesExt

CONSTANTS
    Names,            \* names of entries
    Depth,            \* length of the longest real path
    Trees,            \* which trees are explored: "plain", "links" or "all"
    FollowSymlinks,   \* follow_symlinks
    KnowsTypes,       \* d_type is set, rather than DT_UNKNOWN for everything
    Included,         \* last names that include_regex matches, {} without a pattern
    Excluded, Pruned, \* last names that exclude_regex and prune_dir_regex match
    MayAbort,         \* the transfer may be aborted
    MaxFaults         \* bound on failing system calls

Root == <<>>
RealPaths == UNION {[1..n -> Names] : n \in 1..Depth}

Nothing == [kind |-> "none", target |-> Root]
File == [kind |-> "file", target |-> Root]
Directory == [kind |-> "dir", target |-> Root]
LinksTo(paths) == {[kind |-> "link", target |-> p] : p \in paths}
Dangling == [kind |-> "dangling", target |-> Root]
Device == [kind |-> "device", target |-> Root]

Entries ==
    {Nothing, File, Directory}
      \cup (IF Trees = "plain" THEN {} ELSE LinksTo({Root} \cup RealPaths))
      \cup (IF Trees = "all" THEN {Dangling, Device} ELSE {})

\* Every entry is in a directory, and what a link resolves to exists.
IsTree(f) ==
    \A p \in RealPaths :
       /\ f[p].kind # "none" /\ Len(p) > 1 => f[Front(p)].kind = "dir"
       /\ f[p].kind = "link" /\ f[p].target # Root => f[f[p].target].kind \in {"dir", "file"}

VARIABLES
    tree,               \* what is at each real path
    todo,               \* todoList: relative paths of directories to read
    reading, unread,    \* the directory that is read, the names not read yet
    visited,            \* full paths of the directories met
    queued,             \* relative paths of the files queued
    failedDirectories, hasError,
    aborted,            \* what the abort checker answers
    pc, faults

vars == <<tree, todo, reading, unread, visited, queued, failedDirectories, hasError,
          aborted, pc, faults>>

Init ==
    /\ tree \in {f \in [RealPaths -> Entries] : IsTree(f)}
    /\ todo = <<Root>>
    /\ reading = Root /\ unread = {}
    /\ visited = {} /\ queued = <<>>
    /\ failedDirectories = {} /\ hasError = FALSE
    /\ aborted = FALSE /\ pc = "next" /\ faults = 0
-----------------------------------------------------------------------------
KindAt(p) == IF p = Root THEN "dir" ELSE tree[p].kind

\* resolvePath, and what open and stat do with a path: the real path of p.
Step(p, name) ==
    LET q == Append(p, name) IN
    IF q \in RealPaths /\ tree[q].kind = "link" THEN tree[q].target ELSE q
resolvePath(p) == FoldLeft(Step, Root, p)

NamesIn(p) == {name \in Names : Append(p, name) \in RealPaths
                                   /\ tree[Append(p, name)].kind # "none"}

fails == faults < MaxFaults /\ faults' = faults + 1

\* The next directory is opened.
opendir ==
    /\ pc = "next" /\ todo # <<>> /\ ~aborted
    /\ todo' = Tail(todo)
    /\ \/ /\ reading' = Head(todo)
          /\ unread' = NamesIn(resolvePath(Head(todo)))
          /\ pc' = "read"
          /\ UNCHANGED <<failedDirectories, hasError, faults>>
       \/ /\ fails
          /\ failedDirectories' = failedDirectories \cup {Head(todo)}
          /\ hasError' = TRUE
          /\ UNCHANGED <<reading, unread, pc>>
    /\ UNCHANGED <<tree, visited, queued, aborted>>

\* The directory was read to its end, readdir failed, or the transfer is aborted.
closedir ==
    /\ pc = "read"
    /\ \/ unread = {} /\ UNCHANGED <<hasError, faults>>
       \/ unread # {} /\ ~aborted /\ fails /\ hasError' = TRUE
       \/ unread # {} /\ aborted /\ UNCHANGED <<hasError, faults>>
    /\ pc' = "next" /\ reading' = Root /\ unread' = {}
    /\ UNCHANGED <<tree, todo, visited, queued, failedDirectories, aborted>>

\* An entry that is left alone, with an error or without.
skip(error) ==
    /\ hasError' = (hasError \/ error)
    /\ UNCHANGED <<todo, visited, queued>>

\* A regular file goes into the queue unless a pattern leaves it out.
fileFound(rel) ==
    IF Last(rel) \in Excluded \/ (Included # {} /\ Last(rel) \notin Included) THEN skip(FALSE)
    ELSE /\ queued' = Append(queued, rel)
         /\ UNCHANGED <<todo, visited, hasError>>

\* Mutation of directoryFound: a directory met again is no error.
directoryFoundQuietly(rel, full) ==
    IF FollowSymlinks /\ full \in visited THEN skip(FALSE)
    ELSE /\ visited' = IF FollowSymlinks THEN visited \cup {full} ELSE visited
         /\ todo' = IF Last(rel) \in Pruned THEN todo ELSE Append(todo, rel)
         /\ UNCHANGED <<queued, hasError>>

\* A directory is to be read unless its full path was met or it is pruned.
directoryFound(rel, full) ==
    IF FollowSymlinks /\ full \in visited THEN skip(TRUE)
    ELSE /\ visited' = IF FollowSymlinks THEN visited \cup {full} ELSE visited
         /\ todo' = IF Last(rel) \in Pruned THEN todo ELSE Append(todo, rel)
         /\ UNCHANGED <<queued, hasError>>

\* readdir returns an entry.  Without its type, and for all but directories, lstat
\* and stat tell what it is; links are followed or left alone.
readdir(name) ==
    LET rel == Append(reading, name)
        entry == tree[Append(resolvePath(reading), name)]
        kind == entry.kind
    IN
    /\ pc = "read" /\ name \in unread /\ ~aborted
    /\ unread' = unread \ {name}
    /\ \/ /\ ~(KnowsTypes /\ kind = "dir")
          /\ kind \in {"link", "dangling"} /\ KnowsTypes => FollowSymlinks
          /\ kind = "device" => ~KnowsTypes
          /\ fails /\ skip(TRUE)
       \/ /\ UNCHANGED faults
          /\ CASE kind = "file" -> fileFound(rel)
               [] kind = "dir" -> directoryFound(rel, rel)
               [] kind = "device" -> skip(FALSE)
               [] kind \in {"link", "dangling"} /\ ~FollowSymlinks -> skip(FALSE)
               [] kind = "dangling" /\ FollowSymlinks -> skip(TRUE)
               [] kind = "link" /\ FollowSymlinks ->
                     IF KindAt(entry.target) = "file" THEN fileFound(rel)
                     ELSE directoryFound(rel, entry.target)
    /\ UNCHANGED <<tree, reading, failedDirectories, aborted, pc>>

\* The transfer is aborted at any time.
abort ==
    /\ MayAbort /\ ~aborted /\ pc # "done"
    /\ aborted' = TRUE
    /\ UNCHANGED <<tree, todo, reading, unread, visited, queued, failedDirectories, hasError, pc,
                   faults>>

\* No directory is left; directories that an abort leaves unread are an error.
explored ==
    /\ pc = "next" /\ (todo = <<>> \/ aborted)
    /\ hasError' = (hasError \/ todo # <<>>)
    /\ pc' = "done"
    /\ UNCHANGED <<tree, todo, reading, unread, visited, queued, failedDirectories, aborted,
                   faults>>

Next == opendir \/ closedir \/ (\E name \in Names : readdir(name)) \/ abort \/ explored

Spec == Init /\ [][Next]_vars
-----------------------------------------------------------------------------
FilesIn(s) == {s[k] : k \in DOMAIN s}
LinkPaths == {p \in RealPaths : tree[p].kind = "link"}
MaxLength == Depth * (Cardinality(LinkPaths) + 1)
Paths == UNION {[1..n -> Names] : n \in 1..MaxLength}

\* The names of a path all lead on: a link only where links are followed.
Leads(p, k) ==
    LET from == resolvePath(SubSeq(p, 1, k - 1)) q == Append(from, p[k]) IN
    /\ q \in RealPaths
    /\ tree[q].kind \in {"file", "dir"} \/ (tree[q].kind = "link" /\ FollowSymlinks)
    /\ k < Len(p) => KindAt(resolvePath(SubSeq(p, 1, k))) = "dir" /\ p[k] \notin Pruned
    /\ k = Len(p) => KindAt(resolvePath(p)) = "file" /\ p[k] \notin Excluded
                         /\ (Included = {} \/ p[k] \in Included)
Expected == {p \in Paths : \A k \in 1..Len(p) : Leads(p, k)}

\* When explore returns true and the transfer was not aborted, the files queued are all
\* those that a path of the tree leads to, by their own names or through links that are
\* followed, less those that a pattern leaves out, whatever the order of the entries: a link
\* that closes a cycle, a directory that could not be read and an entry that could not be
\* examined all make it return false.
CompleteOrError ==
    pc = "done" /\ ~hasError /\ ~aborted => FilesIn(queued) = Expected

\* explore returns true on success and false on error: true means that all files were
\* found, whether or not the transfer was aborted meanwhile.
TrueMeansComplete ==
    pc = "done" /\ ~hasError => FilesIn(queued) = Expected

\* Links cannot make the exploration go on for ever: a directory is never queued under a
\* path longer than one that passes through every link once.
PathsBounded == \A k \in DOMAIN todo : Len(todo[k]) <= MaxLength

\* With follow_symlinks the files that links lead to are sent as well as those of the tree:
\* when no call fails, every file is queued under its own name.
OwnNamesQueued ==
    pc = "done" /\ faults = 0 /\ ~aborted =>
       {p \in RealPaths : tree[p].kind = "file"} \subseteq FilesIn(queued)
=============================================================================
