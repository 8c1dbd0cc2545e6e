------------------------------ MODULE Framing -------------------------------
(***************************************************************************)
(* The bytes between a worker and its parent: send() and the 'data'        *)
(* handler of src/src/worker/client.ts, run() and write_frame() of         *)
(* src/native/worker/src/main.rs, and the two pipes between them.          *)
(*                                                                         *)
(* WorkerClient takes frames as they come; this module shows that frames   *)
(* come out of the bytes.  A byte is known by its frame and its place in   *)
(* it; a frame by its number in the session: reply 1 is the hello, reply   *)
(* n + 1 answers request n.  The sessions of one NativeWorker follow each  *)
(* other, and bytes of the last one may still be on their way.  Timers and *)
(* cancellation are the step GiveUp.                                       *)
(***************************************************************************)
EXTENDS Naturals, Sequences

CONSTANTS
    H,             \* length of a header, 4 bytes
    Cap,           \* FRAME_CAP
    RequestSizes,  \* sizes of requests: send() has no cap
    HelloSizes, ReplySizes,    \* sizes of what write_frame() writes
    MaxRequests,   \* bound on the requests of a session
    MaxSessions,   \* bound on the children spawned
    MaxFaults      \* bound on the frames run() would not write

ASSUME SizesAssumption ==
    /\ H \in Nat \ {0} /\ Cap \in Nat \ {0}
    /\ RequestSizes \subseteq Nat \ {0}
    /\ HelloSizes \subseteq 1 .. Cap /\ ReplySizes \subseteq 1 .. Cap
ASSUME BoundsAssumption ==
    MaxRequests \in Nat /\ MaxSessions \in Nat /\ MaxFaults \in Nat

VARIABLES
    parent,    \* "up" or "gone": the process of the client
    child,     \* the last child: "none", "up", "dead", "reaped" or "closed"
    session,   \* its number
    attached,  \* this.child is that child
    retiring,  \* this.retiring
    ready,     \* this.ready
    pending,   \* this.pending is set
    asked,     \* history: requests written in this session
    input,     \* this.input
    stale,     \* bytes of the child before, not delivered yet
    stdin,     \* bytes written by the client, not read yet
    partial,   \* what the child has read of a request
    heard,     \* history: requests the child parsed
    stdout,    \* bytes of replies, in the child or in the pipe
    sent,      \* history: replies written by the child
    received,  \* history: replies the client accepted
    refused,   \* history: the client gave this session up with WORKER_PROTOCOL
    faults     \* frames written that run() would not write

client == <<attached, retiring, ready, pending, asked, input, received, refused>>
server == <<partial, heard, sent, faults>>
vars == <<parent, child, session, client, stale, stdin, stdout, server>>

Byte(s, n, i, size) == [session |-> s, frame |-> n, at |-> i, size |-> size]
\* A header that announces the size, then the body.
Wire(n, size) == [i \in 1 .. H + size |-> Byte(session, n, i, size)]

\* readUInt32BE(0): bytes that are not a header announce nothing that is valid.
Announced(bytes) ==
    IF \A i \in 1 .. H : bytes[i].at = i THEN bytes[1].size ELSE 0
Body(bytes, size) == SubSeq(bytes, H + 1, H + size)
Dropped(bytes, k) == SubSeq(bytes, k + 1, Len(bytes))

Init ==
    /\ parent = "up" /\ child = "none" /\ session = 0
    /\ attached = FALSE /\ retiring = FALSE /\ ready = FALSE /\ pending = FALSE
    /\ asked = <<>> /\ input = <<>> /\ stale = <<>> /\ stdin = <<>>
    /\ partial = <<>> /\ heard = <<>> /\ stdout = <<>>
    /\ sent = <<>> /\ received = <<>> /\ refused = FALSE /\ faults = 0

-----------------------------------------------------------------------------
(* The client.                                                             *)

\* send(): the request in flight is written.
Send(size) ==
    LET frame == Wire(Len(asked) + 1, size)
    IN stdin' = stdin \o frame /\ asked' = Append(asked, Body(frame, size))

\* start(): a new child, with pipes of its own.
Start ==
    /\ session < MaxSessions
    /\ session' = session + 1 /\ child' = "up" /\ attached' = TRUE
    /\ stale' = stdout
    /\ ready' = FALSE /\ asked' = <<>> /\ input' = <<>>
    /\ stdin' = <<>> /\ stdout' = <<>> /\ partial' = <<>>
    /\ heard' = <<>> /\ sent' = <<>> /\ received' = <<>> /\ refused' = FALSE
    /\ UNCHANGED <<parent, retiring, faults>>

\* open() and search() that find no child.
Open ==
    /\ parent = "up" /\ ~attached /\ ~retiring
    /\ Start /\ UNCHANGED pending
SearchFirst ==
    /\ parent = "up" /\ ~attached /\ ~retiring
    /\ Start /\ pending' = TRUE
\* search() that finds an idle worker.
SearchNext ==
    /\ parent = "up" /\ attached /\ ready /\ ~pending /\ Len(asked) < MaxRequests
    /\ pending' = TRUE
    /\ \E size \in RequestSizes : Send(size)
    /\ UNCHANGED <<parent, child, session, attached, retiring, ready, input,
                   received, refused, stale, stdout, server>>

\* What a process has read dies with it, and its stdin.
Dies == child' = "dead" /\ partial' = <<>> /\ stdin' = <<>>

\* fail(): the child is let go, killed if it has not exited, and what it sent is
\* forgotten.  Of a killed child nothing is heard until 'close'.
Fail ==
    /\ attached' = FALSE /\ ready' = FALSE /\ pending' = FALSE /\ input' = <<>>
    /\ IF child \in {"up", "dead"}
       THEN retiring' = TRUE /\ Dies /\ stdout' = <<>>
       ELSE UNCHANGED <<retiring, child, partial, stdin>>

\* A deadline passes or a caller aborts.
GiveUp ==
    /\ parent = "up" /\ attached /\ (pending \/ ~ready)
    /\ Fail /\ (child = "reaped" => UNCHANGED stdout)
    /\ UNCHANGED <<parent, session, asked, received, refused, stale, heard, sent,
                   faults>>

Bytes == [session : Nat, frame : Nat, at : Nat, size : Nat]
\* What the handler has of this.input, this.ready and this.pending, the frames it
\* took and whether it threw.
Handlers == [input : Seq(Bytes), ready : BOOLEAN, pending : BOOLEAN,
             got : Seq(Seq(Bytes)), refused : BOOLEAN]

\* Whether the handler takes a frame: the hello of this child first, then the
\* response to the request in flight.
Expected(s, byte) ==
    /\ byte.session = session
    /\ IF s.ready THEN s.pending /\ byte.frame = Len(asked) + 1 ELSE byte.frame = 1
Refuse(s) == [s EXCEPT !.refused = TRUE]
\* The frame is consumed: a hello leaves the search in flight, a response ends it.
Take(s, length, body) ==
    [s EXCEPT !.input = Dropped(@, length), !.got = Append(@, body),
              !.ready = TRUE, !.pending = IF s.ready THEN FALSE ELSE @]

TurnEager(s) ==
    IF s.refused \/ Len(s.input) < H THEN s
    ELSE LET size == Announced(s.input) IN
         IF size = 0 \/ size > Cap \/ ~Expected(s, s.input[1]) THEN Refuse(s)
         ELSE LET there == IF Len(s.input) < H + size THEN Len(s.input) - H ELSE size
              IN Take(s, H + there, Body(s.input, there))
TurnKeepsHeader(s) ==
    IF s.refused \/ Len(s.input) < H THEN s
    ELSE LET size == Announced(s.input) IN
         IF size = 0 \/ size > Cap THEN Refuse(s)
         ELSE IF Len(s.input) < H + size THEN s
         ELSE IF ~Expected(s, s.input[1]) THEN Refuse(s)
         ELSE Take(s, size, Body(s.input, size))
TurnWaits(s) ==
    IF s.refused \/ Len(s.input) < H THEN s
    ELSE LET size == Announced(s.input) IN
         IF size = 0 \/ size > Cap THEN Refuse(s)
         ELSE IF Len(s.input) <= H + size THEN s
         ELSE IF ~Expected(s, s.input[1]) THEN Refuse(s)
         ELSE Take(s, H + size, Body(s.input, size))
\* One turn of the while loop over this.input.
Turn(s) ==
    IF s.refused \/ Len(s.input) < H THEN s
    ELSE LET size == Announced(s.input) IN
         IF size = 0 \/ size > Cap THEN Refuse(s)
         ELSE IF Len(s.input) < H + size THEN s
         ELSE IF ~Expected(s, s.input[1]) THEN Refuse(s)
         ELSE Take(s, H + size, Body(s.input, size))
LoopOnce(s) == Turn(s)
\* All its turns: each but the last takes a header at least.
Loop(s) ==
    LET turn[t \in Handlers] == Turn(t)
        turns[n \in 0 .. Len(s.input) \div H] == IF n = 0 THEN s ELSE turn[turns[n - 1]]
    IN turns[Len(s.input) \div H]

\* The 'data' event of the current child.  send() of the hello comes at its end, and not
\* between two turns: after a hello only a faulty child has more in the same event.
Data(k) ==
    /\ parent = "up" /\ attached /\ k \in 1 .. Len(stdout)
    /\ \E s \in {Loop([input |-> input \o SubSeq(stdout, 1, k), ready |-> ready,
                       pending |-> pending, got |-> received, refused |-> FALSE])} :
          IF Len(input) + k > Cap + H
          THEN /\ Fail /\ refused' = TRUE
               /\ child = "reaped" => stdout' = Dropped(stdout, k)
               /\ UNCHANGED <<received, asked>>
          ELSE IF s.refused
          THEN /\ Fail /\ refused' = TRUE /\ received' = s.got
               /\ child = "reaped" => stdout' = Dropped(stdout, k)
               /\ UNCHANGED asked
          ELSE /\ input' = s.input /\ ready' = s.ready /\ pending' = s.pending
               /\ received' = s.got /\ stdout' = Dropped(stdout, k)
               /\ IF s.ready /\ ~ready /\ s.pending
                  THEN \E size \in RequestSizes : Send(size)
                  ELSE UNCHANGED <<stdin, asked>>
               /\ UNCHANGED <<child, attached, retiring, refused, partial>>
    /\ UNCHANGED <<parent, session, stale, heard, sent, faults>>

\* The 'data' events of a child that is not this.child any more: together, since
\* each is dropped.
StaleData ==
    /\ parent = "up" /\ stale # <<>>
    /\ stale' = <<>>
    /\ UNCHANGED <<parent, child, session, client, stdin, stdout, server>>

\* The exit is seen; when the pipes are drained as well, 'close' is emitted.
Reap ==
    /\ parent = "up" /\ child = "dead" /\ child' = "reaped"
    /\ UNCHANGED <<parent, session, client, stale, stdin, stdout, server>>
Close ==
    /\ parent = "up" /\ child = "reaped" /\ (attached => stdout = <<>>)
    /\ child' = "closed" /\ stdout' = <<>>
    /\ retiring' = FALSE
    /\ attached' = FALSE /\ ready' = FALSE /\ pending' = FALSE /\ input' = <<>>
    /\ UNCHANGED <<parent, session, asked, received, refused, stale, stdin, server>>

-----------------------------------------------------------------------------
(* The child, one thread: it reads a request, answers it, reads on.        *)

\* write_frame(): how the bytes pass through the pipe is left to Data.
Write(n, size) ==
    LET frame == Wire(n, size)
    IN stdout' = stdout \o frame /\ sent' = Append(sent, Body(frame, size))

Hello ==
    /\ child = "up" /\ sent = <<>>
    /\ \E size \in HelloSizes : Write(1, size)
    /\ UNCHANGED <<parent, child, session, client, stale, stdin, partial, heard, faults>>

Reading == child = "up" /\ sent # <<>>
Whole == Len(partial) >= H /\ Len(partial) = H + partial[1].size
\* How much the read_exact() at hand still wants.
Missing == IF Len(partial) < H THEN H - Len(partial)
           ELSE H + partial[1].size - Len(partial)
TooLong(bytes) == Len(bytes) = H /\ Announced(bytes) \notin 1 .. Cap

\* A read() returns some of it; a header out of bounds ends the child.
Read(k) ==
    /\ Reading /\ ~Whole /\ k \in 1 .. Len(stdin) /\ k <= Missing
    /\ partial' = partial \o SubSeq(stdin, 1, k)
    /\ stdin' = Dropped(stdin, k)
    /\ child' = IF TooLong(partial') THEN "dead" ELSE child
    /\ UNCHANGED <<parent, session, client, stale, stdout, heard, sent, faults>>

\* The request is parsed and served.
Answer ==
    /\ Reading /\ Whole
    /\ heard' = Append(heard, Body(partial, partial[1].size))
    /\ \E size \in ReplySizes : Write(partial[1].frame + 1, size)
    /\ partial' = <<>>
    /\ UNCHANGED <<parent, child, session, client, stale, stdin, faults>>

OrphanedBetween ==
    /\ parent = "gone" /\ child = "up"
    /\ stdout # <<>> \/ (stdin = <<>> /\ partial = <<>>)
    /\ Dies
    /\ UNCHANGED <<parent, session, client, stale, stdout, heard, sent, faults>>
\* The client is gone: the next read() finds the end of stdin, between two
\* requests or inside one, or the next write() fails.
Orphaned ==
    /\ parent = "gone" /\ child = "up"
    /\ stdout # <<>> \/ (stdin = <<>> /\ ~Whole)
    /\ Dies
    /\ UNCHANGED <<parent, session, client, stale, stdout, heard, sent, faults>>

-----------------------------------------------------------------------------
(* What goes wrong.                                                        *)

\* The child is killed from outside; bytes it had not written are lost.
Crash ==
    /\ child = "up" /\ Dies
    /\ \E k \in 0 .. Len(stdout) : stdout' = SubSeq(stdout, 1, k)
    /\ UNCHANGED <<parent, session, client, stale, heard, sent, faults>>

\* The child writes a frame that run() would not: an empty or an overlong one,
\* one that answers nothing, or the last one again.
Misbehave ==
    /\ child = "up" /\ faults < MaxFaults
    /\ faults' = faults + 1
    /\ \E n \in {0, Len(sent)}, size \in {0, 1, Cap + 1} :
         Write(n, size)
    /\ UNCHANGED <<parent, child, session, client, stale, stdin, partial, heard>>

\* The process of the client dies with its memory; of what it wrote, some has
\* left it.
ParentDies ==
    /\ parent = "up" /\ parent' = "gone"
    /\ attached' = FALSE /\ ready' = FALSE /\ pending' = FALSE /\ input' = <<>>
    /\ stale' = <<>>
    /\ \E k \in 0 .. Len(stdin) : stdin' = SubSeq(stdin, 1, k)
    /\ UNCHANGED <<child, session, retiring, asked, received, refused, stdout, server>>

Client == \/ Open \/ SearchFirst \/ SearchNext \/ GiveUp
          \/ \E k \in 1 .. Len(stdout) : Data(k)
          \/ StaleData \/ Reap \/ Close
Child == \/ Hello \/ Answer \/ Orphaned
         \/ \E k \in 1 .. Len(stdin) : Read(k)
Next == Client \/ Child \/ Crash \/ Misbehave \/ ParentDies

Spec == Init /\ [][Next]_vars

\* The child runs on, pipes move their bytes, Node delivers its events: one of
\* these steps is taken as long as one can be.  No caller and no timer is needed.
Progress == Child \/ Reap \/ Close \/ \E k \in 1 .. Len(stdout) : Data(k)
FairSpec == Spec /\ WF_vars(Progress)

-----------------------------------------------------------------------------
(* Properties.                                                             *)

Replies == INSTANCE FrameQueue WITH Frames <- Seq(Bytes)
Requests == INSTANCE FrameQueue WITH
    Frames <- Seq(Bytes), sent <- asked, received <- heard

\* However the bytes are cut up and whatever is killed in the middle of a frame:
\* what both sides parse are the bodies that were written, each once and in order,
\* and nothing of one session reaches the next.
WholeAndInOrder == Replies!Spec /\ Requests!Spec

\* Nobody gives up over bytes that the other side did not send: the client never
\* refuses what run() writes, and the child only refuses requests beyond its cap.
RefusalsAreEarned ==
    /\ refused => faults > 0
    /\ TooLong(partial) => partial[1].at = 1 /\ partial[1].size > Cap

\* After every event the buffer holds less than the one frame it begins with: no
\* frame that has arrived waits for more bytes to come, and nothing beyond the cap
\* is kept.
NoFrameWaits ==
    Len(input) >= H =>
        Announced(input) \in 1 .. Cap /\ Len(input) < H + Announced(input)

\* A search in flight ends without the help of its timer: neither side ever waits
\* for bytes the other does not send.
NoSearchWaits == pending ~> ~pending

\* A child does not outlive its parent.
OrphansEnd == parent = "gone" ~> child # "up"
=============================================================================
