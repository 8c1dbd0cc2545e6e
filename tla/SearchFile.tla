----------------------------- MODULE SearchFile -----------------------------
(***************************************************************************)
(* How the worker reads one file, capture() and its one retry in           *)
(* search_file() of src/native/worker/src/main.rs, while other processes   *)
(* write to it, truncate it, extend it or put another file at its path.    *)
(*                                                                         *)
(* A file is a sequence of pages; a read() returns the next page, torn     *)
(* from the others by whatever is written in between.  Its stamp stands    *)
(* for mtime and ctime: every change gives it a value it never had, which  *)
(* a kernel with coarse timestamps does not promise within one tick.       *)
(***************************************************************************)
EXTENDS Naturals, Sequences, FiniteSets

CONSTANTS
    Inodes,      \* files that may be at the path
    Pages,       \* what a page may hold
    Binary,      \* the page that is no UTF-8 text or holds a zero byte
    Limit,       \* maxFileBytes, in pages
    MaxPages,    \* bound on the length of a file
    MaxWrites,   \* bound on the changes made by others
    None

ASSUME FileAssumption ==
    /\ Limit \in Nat /\ MaxPages \in Nat /\ MaxWrites \in Nat
    /\ None \notin Inodes \cup {"text", "excluded"}

VARIABLES
    data,      \* per inode: its pages
    kind,      \* per inode: "file" or "other"
    stamp,     \* per inode: its last change
    path,      \* the inode at the path, or None
    writes,    \* changes made so far
    pc,        \* where search_file() is
    attempt,   \* 1 or 2
    fd,        \* the inode the handle in use refers to
    before,    \* the first fstat() of the capture
    buffer,    \* bytes
    revisions, \* history: what fd's inode held since this capture began
    outcome    \* None, "text", "excluded" or the code of the error

disk == <<data, kind, stamp, path, writes>>
reader == <<pc, attempt, fd, before, buffer, outcome>>
vars == <<disk, reader, revisions>>

Codes == {"READ_FAILED", "SOURCE_MUTATED", "DEADLINE"}

Stat(i) == [ino |-> i, size |-> Len(data[i]), stamp |-> stamp[i]]
SameRevisionBySize(a, b) == a.ino = b.ino /\ a.size = b.size
\* same_revision(): device and inode, size, mtime and ctime.
SameRevision(a, b) == a = b

Init ==
    /\ data \in [Inodes -> UNION {[1 .. n -> Pages] : n \in 0 .. MaxPages}]
    /\ kind \in [Inodes -> {"file", "other"}]
    /\ \A i \in Inodes : kind[i] = "other" => data[i] = <<>>
    /\ stamp = [i \in Inodes |-> 0]
    /\ path \in Inodes
    /\ writes = 0
    /\ pc = "inspect" /\ attempt = 1 /\ fd = path
    /\ before = None /\ buffer = <<>> /\ revisions = {data[path]}
    /\ outcome = None

-----------------------------------------------------------------------------
(* capture() and what search_file() makes of its result.                   *)

Stop(result) ==
    /\ pc' = "done" /\ outcome' = result
    /\ UNCHANGED <<attempt, fd>>

\* A capture ends with an error; the first SOURCE_MUTATED is tried again.
Fail(code) ==
    IF code = "SOURCE_MUTATED" /\ attempt = 1
    THEN pc' = "anchor" /\ attempt' = 2 /\ fd' = None /\ UNCHANGED outcome
    ELSE Stop(code)

\* expired() and failing system calls end a capture at any of its steps.
Give ==
    /\ pc # "done"
    /\ \E code \in {"DEADLINE", "READ_FAILED"} : Stop(code)
    /\ UNCHANGED <<disk, before, buffer, revisions>>

AnchorWaiting ==
    /\ pc = "anchor" /\ path # None
    /\ fd' = path /\ pc' = "inspect" /\ revisions' = {data[path]}
    /\ UNCHANGED <<disk, attempt, before, buffer, outcome>>
\* The retry resolves the path again.
Anchor ==
    /\ pc = "anchor"
    /\ IF path = None
         THEN Stop("READ_FAILED") /\ UNCHANGED revisions
         ELSE /\ fd' = path /\ pc' = "inspect" /\ revisions' = {data[path]}
              /\ UNCHANGED <<attempt, outcome>>
    /\ UNCHANGED <<disk, before, buffer>>

\* fstat() of the handle: only a regular file within the limit is read.
Inspect ==
    /\ pc = "inspect"
    /\ before' = Stat(fd) /\ buffer' = <<>>
    /\ IF kind[fd] # "file" \/ Len(data[fd]) > Limit
         THEN Stop("excluded")
         ELSE pc' = "reopen" /\ UNCHANGED <<attempt, fd, outcome>>
    /\ UNCHANGED <<disk, revisions>>

\* The handle is opened for reading and compared.
Reopen ==
    /\ pc = "reopen"
    /\ IF SameRevision(before, Stat(fd))
         THEN pc' = "read" /\ UNCHANGED <<attempt, fd, outcome>>
         ELSE Fail("SOURCE_MUTATED")
    /\ UNCHANGED <<disk, before, buffer, revisions>>

\* One read(): the next page there is, one page past the limit at most.
Read ==
    /\ pc = "read"
    /\ IF Len(buffer) >= Len(data[fd])
         THEN /\ pc' = "compare"
              /\ UNCHANGED <<attempt, fd, buffer, outcome>>
         ELSE /\ buffer' = Append(buffer, data[fd][Len(buffer) + 1])
              /\ IF Len(buffer) + 1 > Limit
                   THEN Fail("SOURCE_MUTATED")
                   ELSE UNCHANGED <<pc, attempt, fd, outcome>>
    /\ UNCHANGED <<disk, before, revisions>>

\* The last fstat(), and the test for text.
Compare ==
    /\ pc = "compare"
    /\ IF ~SameRevision(before, Stat(fd)) THEN Fail("SOURCE_MUTATED")
       ELSE Stop(IF \E k \in DOMAIN buffer : buffer[k] = Binary
                 THEN "excluded" ELSE "text")
    /\ UNCHANGED <<disk, before, buffer, revisions>>

-----------------------------------------------------------------------------
(* Other processes.                                                        *)

Changed(i) ==
    /\ writes < MaxWrites /\ writes' = writes + 1
    /\ stamp' = [stamp EXCEPT ![i] = writes + 1]

\* A page is overwritten or appended, or the file cut short.
Write(i) ==
    /\ kind[i] = "file" /\ Changed(i)
    /\ \/ \E k \in 1 .. MaxPages, p \in Pages :
            /\ k <= Len(data[i]) + 1
            /\ data' = [data EXCEPT ![i] = [j \in (DOMAIN @) \cup {k} |->
                                             IF j = k THEN p ELSE @[j]]]
       \/ \E k \in 0 .. Len(data[i]) : data' = [data EXCEPT ![i] = SubSeq(@, 1, k)]
    /\ revisions' = IF i = fd THEN revisions \cup {data'[i]} ELSE revisions
    /\ UNCHANGED <<kind, path, reader>>

\* Another file is renamed over the path, or the file at it is removed; the link
\* count changes the old file's ctime.
Replace(i) ==
    /\ path # None /\ i # path
    /\ Changed(path)
    /\ path' = i
    /\ UNCHANGED <<data, kind, reader, revisions>>

Returned == pc = "done" /\ UNCHANGED vars

ReaderStep == Anchor \/ Inspect \/ Reopen \/ Read \/ Compare
Next == \/ ReaderStep \/ Give
        \/ \E i \in Inodes : Write(i)
        \/ \E i \in Inodes \cup {None} : Replace(i)
        \/ Returned

Spec == Init /\ [][Next]_vars
FairSpec == Spec /\ WF_vars(ReaderStep)

-----------------------------------------------------------------------------
(* Properties.                                                             *)

\* Every variable has its type, and the buffer holds one page past the limit at
\* most however fast the file grows.
TypeOK ==
    /\ \A i \in Inodes : data[i] \in Seq(Pages) /\ Len(data[i]) <= MaxPages
    /\ kind \in [Inodes -> {"file", "other"}]
    /\ stamp \in [Inodes -> 0 .. MaxWrites]
    /\ path \in Inodes \cup {None} /\ writes \in 0 .. MaxWrites
    /\ pc \in {"anchor", "inspect", "reopen", "read", "compare", "done"}
    /\ attempt \in {1, 2} /\ fd \in Inodes \cup {None}
    /\ buffer \in Seq(Pages) /\ Len(buffer) <= Limit + 1
    /\ outcome \in {None, "text", "excluded"} \cup Codes

\* The bytes that are hashed and matched are one revision: everything the file
\* held at one moment of this capture, never pages of two.
SingleRevision == outcome = "text" => buffer \in revisions

\* Reading ends whatever the writers do, without help from the deadline.
ReadEnds == <>(pc = "done")
=============================================================================
