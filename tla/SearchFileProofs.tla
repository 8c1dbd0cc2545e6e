-------------------------- MODULE SearchFileProofs --------------------------
(***************************************************************************)
(* A capture is one revision, for any files, limits and writers.  While a  *)
(* capture is under way the inode has held the buffer's pages and more of  *)
(* the present ones for as long as its stamp is the one first seen, since  *)
(* every change gives a stamp that was never there.                        *)
(***************************************************************************)
EXTENDS SearchFile, TLAPS

\* The shape of a file and what the reader may hold, without the bounds that
\* only keep TLC's instances small.
Shape ==
    /\ data \in [Inodes -> Seq(Pages)]
    /\ stamp \in [Inodes -> Nat] /\ writes \in Nat
    /\ path \in Inodes \cup {None}
    /\ fd \in Inodes \cup {None}
    /\ buffer \in Seq(Pages)
    /\ pc \in {"anchor", "inspect", "reopen", "read", "compare", "done"}
    /\ pc \in {"inspect", "reopen", "read", "compare"} => fd \in Inodes
    /\ outcome = "text" => pc = "done"

\* No stamp is from the future, so that a change makes a new one.
StampsArePast == \A i \in Inodes : stamp[i] <= writes

\* What the file holds now is one of its revisions.
NowIsRevision == fd # None => data[fd] \in revisions

Unchanged == before = Stat(fd)

\* The first stat is not from the future, and as long as nothing has changed
\* since it, the buffer is the beginning of the file, and all of it at the end.
Prefix ==
    /\ pc \in {"reopen", "read", "compare"} =>
         /\ before \in [ino : Inodes, size : Nat, stamp : Nat]
         /\ before.ino = fd /\ before.stamp <= writes
         /\ Unchanged =>
              /\ Len(buffer) <= Len(data[fd])
              /\ \A k \in 1 .. Len(buffer) : buffer[k] = data[fd][k]
    /\ pc = "reopen" => buffer = <<>>
    /\ pc = "compare" /\ Unchanged => buffer = data[fd]

\* The inductive invariant.
Inv == Shape /\ StampsArePast /\ NowIsRevision /\ Prefix /\ SingleRevision

\* Reading starts with an open handle and an empty buffer.
LEMMA InvInit == Init => Inv
<1> SUFFICES ASSUME Init PROVE Inv
  OBVIOUS
<1>1. data \in [Inodes -> Seq(Pages)]
  <2>1. ASSUME NEW n \in 0 .. MaxPages, NEW f \in [1 .. n -> Pages]
        PROVE  f \in Seq(Pages)
    BY <2>1, FileAssumption
  <2>2. \A f \in UNION {[1 .. n -> Pages] : n \in 0 .. MaxPages} : f \in Seq(Pages)
    BY <2>1
  <2> QED BY <2>2 DEF Init
<1>2. buffer \in Seq(Pages)
  BY DEF Init
<1> QED BY <1>1, <1>2, FileAssumption
        DEF Init, Inv, Shape, StampsArePast, NowIsRevision, Prefix, SingleRevision

\* What it takes to keep the invariant when no file changes and the capture
\* ends, for whatever reason but with a text.
LEMMA StopKeeps ==
    ASSUME Inv, UNCHANGED <<disk, before, revisions>>, pc' = "done",
           fd' \in Inodes \cup {None}, fd' # None => data[fd'] \in revisions,
           buffer' \in Seq(Pages), outcome' = "text" => buffer' \in revisions'
    PROVE  Inv'
BY DEF Inv, Shape, StampsArePast, NowIsRevision, Prefix, SingleRevision, disk

\* What it takes when the capture starts again.
LEMMA RetryKeeps ==
    ASSUME Inv, UNCHANGED <<disk, before, revisions, outcome>>, pc' = "anchor",
           fd' = None, buffer' \in Seq(Pages), pc # "done"
    PROVE  Inv'
BY FileAssumption
   DEF Inv, Shape, StampsArePast, NowIsRevision, Prefix, SingleRevision, disk

\* A failed capture keeps the invariant, whether it is the last or not.
LEMMA FailKeeps ==
    ASSUME Inv, pc # "done", NEW code \in Codes, Fail(code),
           UNCHANGED <<disk, before, revisions>>, buffer' \in Seq(Pages)
    PROVE  Inv'
<1>1. code # "text"
  BY DEF Codes
<1>2. CASE code = "SOURCE_MUTATED" /\ attempt = 1
  BY <1>2, RetryKeeps DEF Fail
<1>3. CASE ~(code = "SOURCE_MUTATED" /\ attempt = 1)
  <2>1. pc' = "done" /\ outcome' = code /\ fd' = fd
    BY <1>3 DEF Fail, Stop
  <2>2. fd \in Inodes \cup {None} /\ (fd # None => data[fd] \in revisions)
    BY DEF Inv, Shape, NowIsRevision
  <2> QED BY <2>1, <2>2, <1>1, StopKeeps
<1> QED BY <1>2, <1>3

\* A step of the reader keeps the invariant: it changes no file.
LEMMA ReaderKeeps ==
    ASSUME Inv, ReaderStep \/ Give
    PROVE  Inv'
<1> USE FileAssumption DEF Inv, Shape
<1>1. CASE Give
  BY <1>1, StopKeeps DEF Give, Stop, NowIsRevision
<1>2. CASE Anchor
  <2>1. CASE path = None
    BY <1>2, <2>1, StopKeeps DEF Anchor, Stop, NowIsRevision
  <2>2. CASE path # None
    BY <1>2, <2>2 DEF Anchor, StampsArePast, NowIsRevision, Prefix, SingleRevision, disk
  <2> QED BY <2>1, <2>2
<1>3. CASE Inspect
  <2>1. CASE kind[fd] # "file" \/ Len(data[fd]) > Limit
    <3>1. pc' = "done" /\ outcome' = "excluded" /\ fd' = fd /\ buffer' = <<>>
          /\ UNCHANGED <<disk, revisions>> /\ fd \in Inodes
      BY <1>3, <2>1 DEF Inspect, Stop
    <3> QED BY <3>1 DEF StampsArePast, NowIsRevision, Prefix, SingleRevision, disk
  <2>2. CASE ~(kind[fd] # "file" \/ Len(data[fd]) > Limit)
    <3>1. /\ pc' = "reopen" /\ buffer' = <<>> /\ before' = Stat(fd)
          /\ UNCHANGED <<disk, revisions, fd, outcome>> /\ fd \in Inodes
          /\ outcome # "text"
      BY <1>3, <2>2 DEF Inspect
    <3>2. before' \in [ino : Inodes, size : Nat, stamp : Nat]
          /\ before'.ino = fd /\ before'.stamp = stamp[fd]
      BY <3>1 DEF Stat
    <3>3. Len(<<>>) <= Len(data[fd]) /\ \A k \in 1 .. Len(<<>>) : <<>>[k] = data[fd][k]
      BY <3>1
    <3> QED BY <3>1, <3>2, <3>3
         DEF StampsArePast, NowIsRevision, Prefix, SingleRevision, disk
  <2> QED BY <2>1, <2>2
<1>4. CASE Reopen
  <2>1. CASE SameRevision(before, Stat(fd))
    BY <1>4, <2>1 DEF Reopen, StampsArePast, NowIsRevision, Prefix, SingleRevision,
                      disk, Unchanged, Stat
  <2>2. CASE ~SameRevision(before, Stat(fd))
    BY <1>4, <2>2, FailKeeps DEF Reopen, Codes
  <2> QED BY <2>1, <2>2
<1>5. CASE Read
  <2>0. pc = "read" /\ fd \in Inodes /\ data[fd] \in Seq(Pages) /\ outcome # "text"
        /\ UNCHANGED <<disk, before, revisions>>
    BY <1>5 DEF Read
  <2>1. CASE Len(buffer) >= Len(data[fd])
    <3>1. pc' = "compare" /\ UNCHANGED <<fd, buffer, outcome>>
      BY <1>5, <2>1 DEF Read
    <3>2. ASSUME Unchanged PROVE buffer = data[fd]
      BY <2>0, <2>1, <3>2 DEF Prefix
    <3> QED BY <2>0, <3>1, <3>2 DEF StampsArePast, NowIsRevision, Prefix,
              SingleRevision, disk, Unchanged, Stat
  <2>2. CASE ~(Len(buffer) >= Len(data[fd]))
    <3> DEFINE page == data[fd][Len(buffer) + 1]
    <3>1. page \in Pages
      BY <2>0, <2>2
    <3>2. buffer' = Append(buffer, page)
      BY <1>5, <2>2 DEF Read
    <3>3. buffer' \in Seq(Pages) /\ Len(buffer') = Len(buffer) + 1
      BY <3>1, <3>2
    <3>4. CASE Len(buffer) + 1 > Limit
      BY <1>5, <2>0, <2>2, <3>3, <3>4, FailKeeps DEF Read, Codes
    <3>5. CASE ~(Len(buffer) + 1 > Limit)
      <4>1. UNCHANGED <<pc, fd, outcome>>
        BY <1>5, <2>2, <3>5 DEF Read
      <4>2. ASSUME Unchanged
            PROVE  Len(buffer') <= Len(data[fd])
                   /\ \A k \in 1 .. Len(buffer') : buffer'[k] = data[fd][k]
        BY <2>0, <2>2, <3>1, <3>2, <3>3, <4>2 DEF Prefix
      <4> QED BY <2>0, <3>3, <4>1, <4>2 DEF StampsArePast, NowIsRevision, Prefix,
                SingleRevision, disk, Unchanged, Stat
    <3> QED BY <3>4, <3>5
  <2> QED BY <2>1, <2>2
<1>6. CASE Compare
  <2>0. pc = "compare" /\ fd \in Inodes /\ UNCHANGED <<disk, before, buffer, revisions>>
    BY <1>6 DEF Compare
  <2>1. CASE ~SameRevision(before, Stat(fd))
    BY <1>6, <2>0, <2>1, FailKeeps DEF Compare, Codes
  <2>2. CASE SameRevision(before, Stat(fd))
    <3>1. buffer \in revisions
      BY <2>0, <2>2 DEF SameRevision, Unchanged, Prefix, NowIsRevision
    <3>2. pc' = "done" /\ fd' = fd
      BY <1>6, <2>2 DEF Compare, Stop
    <3> QED BY <2>0, <3>1, <3>2, StopKeeps DEF NowIsRevision
  <2> QED BY <2>1, <2>2
<1> QED BY <1>1, <1>2, <1>3, <1>4, <1>5, <1>6 DEF ReaderStep

\* A change of another process keeps the invariant: the file the reader has
\* open either stays as it is or gets a stamp no stat has shown.
LEMMA WriterKeeps ==
    ASSUME Inv, NEW i \in Inodes, Changed(i), UNCHANGED <<kind, reader>>,
           path' \in Inodes \cup {None}, data' \in [Inodes -> Seq(Pages)],
           \A j \in Inodes : j # i => data'[j] = data[j],
           revisions' = IF i = fd THEN revisions \cup {data'[i]} ELSE revisions
    PROVE  Inv'
<1>0. /\ stamp \in [Inodes -> Nat] /\ writes \in Nat
      /\ \A j \in Inodes : stamp[j] <= writes
  BY DEF Inv, Shape, StampsArePast
<1>1. /\ stamp' \in [Inodes -> Nat] /\ writes' \in Nat /\ writes' = writes + 1
      /\ stamp'[i] = writes + 1 /\ \A j \in Inodes : j # i => stamp'[j] = stamp[j]
  BY <1>0 DEF Changed
<1>2. StampsArePast'
  <2>1. ASSUME NEW j \in Inodes PROVE stamp'[j] <= writes'
    <3>1. CASE j = i
      BY <1>0, <1>1, <3>1
    <3>2. CASE j # i
      BY <1>0, <1>1, <3>2
    <3> QED BY <3>1, <3>2
  <2> QED BY <2>1 DEF StampsArePast
<1> USE FileAssumption DEF Inv, Shape
<1>3. NowIsRevision'
  BY DEF NowIsRevision, reader
<1>4. SingleRevision'
  BY DEF SingleRevision, reader
<1>5. Shape'
  BY <1>1 DEF reader
<1>6. ASSUME pc \in {"reopen", "read", "compare"}, Unchanged' PROVE i # fd /\ Unchanged
  BY <1>1, <1>6 DEF Unchanged, Stat, Prefix, reader
<1>7. Prefix'
  <2>1. ASSUME pc \in {"reopen", "read", "compare"}
        PROVE  /\ before \in [ino : Inodes, size : Nat, stamp : Nat]
               /\ before.ino = fd /\ before.stamp <= writes + 1
    BY <2>1 DEF Prefix
  <2>2. ASSUME pc \in {"reopen", "read", "compare"}, Unchanged'
        PROVE  /\ Len(buffer) <= Len(data'[fd])
               /\ \A k \in 1 .. Len(buffer) : buffer[k] = data'[fd][k]
               /\ pc = "compare" => buffer = data'[fd]
    BY <2>2, <1>6 DEF Prefix
  <2>3. pc = "reopen" => buffer = <<>>
    BY DEF Prefix
  <2> QED BY <1>1, <2>1, <2>2, <2>3 DEF Prefix, reader
<1> QED BY <1>2, <1>3, <1>4, <1>5, <1>7

\* Every step keeps the invariant.
LEMMA InvNext == Inv /\ [Next]_vars => Inv'
<1> SUFFICES ASSUME Inv, [Next]_vars PROVE Inv'
  OBVIOUS
<1>1. CASE ReaderStep \/ Give
  BY <1>1, ReaderKeeps
<1>2. ASSUME NEW i \in Inodes, Write(i) PROVE Inv'
  <2> DEFINE page(k, p) == [j \in (DOMAIN data[i]) \cup {k} |->
                              IF j = k THEN p ELSE data[i][j]]
  <2>0. data \in [Inodes -> Seq(Pages)]
    BY DEF Inv, Shape
  <2>1. ASSUME NEW k \in 1 .. MaxPages, NEW p \in Pages, k <= Len(data[i]) + 1
        PROVE  page(k, p) \in Seq(Pages)
    <3> DEFINE n == IF k <= Len(data[i]) THEN Len(data[i]) ELSE k
    <3>1. n \in Nat /\ (DOMAIN data[i]) \cup {k} = 1 .. n
      BY <2>0, <2>1, FileAssumption
    <3>2. page(k, p) \in [1 .. n -> Pages]
      BY <2>0, <3>1
    <3> QED BY <3>1, <3>2
  <2>2. ASSUME NEW k \in 0 .. Len(data[i]) PROVE SubSeq(data[i], 1, k) \in Seq(Pages)
    BY <2>0
  <2>3. PICK s \in Seq(Pages) : data' = [data EXCEPT ![i] = s]
    BY <1>2, <2>1, <2>2 DEF Write
  <2>4. data' \in [Inodes -> Seq(Pages)] /\ \A j \in Inodes : j # i => data'[j] = data[j]
    BY <2>0, <2>3
  <2>5. path' \in Inodes \cup {None}
    BY <1>2 DEF Write, Inv, Shape
  <2> QED BY <1>2, <2>4, <2>5, WriterKeeps DEF Write
<1>3. ASSUME NEW i \in Inodes \cup {None}, Replace(i) PROVE Inv'
  <2>1. path \in Inodes /\ Changed(path) /\ UNCHANGED <<data, kind, reader, revisions>>
        /\ path' \in Inodes \cup {None}
    BY <1>3 DEF Replace, Inv, Shape
  <2>2. revisions' = IF path = fd THEN revisions \cup {data'[path]} ELSE revisions
    BY <2>1, FileAssumption DEF Inv, NowIsRevision
  <2>3. data' \in [Inodes -> Seq(Pages)] /\ \A j \in Inodes : data'[j] = data[j]
    BY <2>1 DEF Inv, Shape
  <2> QED BY <2>1, <2>2, <2>3, WriterKeeps
<1>4. CASE UNCHANGED vars
  BY <1>4 DEF vars, disk, reader, Inv, Shape, StampsArePast, NowIsRevision,
              Prefix, Unchanged, Stat, SingleRevision
<1> QED BY <1>1, <1>2, <1>3, <1>4 DEF Next, Returned

\* Whatever other processes do to the file and however large it is, a capture
\* that succeeds holds everything the file held at one moment of the capture.
THEOREM OneRevision == Spec => []SingleRevision
<1>1. Inv => SingleRevision
  BY DEF Inv
<1> QED BY <1>1, InvInit, InvNext, PTL DEF Spec
=============================================================================
