---------------------------- MODULE WorkerClient ----------------------------
(***************************************************************************)
(* The parent's side of one native worker: class NativeWorker of           *)
(* src/src/worker/client.ts, together with the child processes it spawns   *)
(* (run() of src/native/worker/src/main.rs), the two pipes of each child   *)
(* and the events Node delivers about it ('error', 'data', 'close', the    *)
(* timers, the abort listeners).                                           *)
(*                                                                         *)
(* One action is one synchronous run of JavaScript: an API call, a timer,  *)
(* an abort event or one event of a child, with every nested call it makes *)
(* (start, send, fail).  What happens between two of them is up to the     *)
(* kernel, to the child and to the callers.                                *)
(*                                                                         *)
(* A child is named by the call that spawned it: every start() is made by  *)
(* one accepted call and a call spawns at most once.  A chunk of a pipe is *)
(* abstracted to the whole frames in it, one frame per Data step; a frame  *)
(* the checks of the client refuse, for whatever reason, is Garbage.       *)
(***************************************************************************)
EXTENDS Naturals, Sequences

CONSTANTS
    Searches,    \* calls of search()
    Signals,     \* the searches whose caller passes an AbortSignal
    Opens,       \* calls of open()
    Roots,       \* directory identities (device:inode) the root path can name
    None,        \* JavaScript's undefined
    MaxFaults    \* bound: frames a child may send that run() would not

ASSUME CallsAssumption == /\ Searches \cap Opens = {}
                          /\ Signals \subseteq Searches
                          /\ None \notin Searches \cup Opens \cup Roots
ASSUME RootsAssumption == Roots # {}
ASSUME FaultsAssumption == MaxFaults \in Nat

Calls == Searches \cup Opens

VARIABLES
    child,         \* this.child: the current child, None when undefined
    ready,         \* this.ready: its hello has been accepted
    retiring,      \* this.retiring: a killed child has not closed yet
    disposed,      \* this.disposed
    pending,       \* this.pending: the search in flight
    opening,       \* this.opening: the open() in flight
    rootIdentity,  \* this.rootIdentity: the directory the worker is pinned to
    timers,        \* calls whose deadline timer is armed
    listeners,     \* searches whose signal carries our abort listener
    outcome,       \* per call: "idle", "waiting", "ok" or an error code
    clock,         \* per call: the time left, see Phases
    aborted,       \* searches whose signal has been aborted by the caller
    proc,          \* per child: its life, see Lives
    retired,       \* children sent SIGKILL by fail(), which awaits their close
    procRoot,      \* per child: the directory its root handle is open on
    stdin,         \* per child: requests written and not yet read
    stdout,        \* per child: frames sent and not yet delivered
    rootAt,        \* the directory the root path names now
    faults,        \* frames sent that run() would not send
    answeredBy     \* history: the child whose response settled the search

client == <<child, ready, retiring, disposed, pending, opening, rootIdentity>>
callers == <<timers, listeners, outcome, clock, aborted, answeredBy>>
system == <<proc, retired, procRoot, stdin, stdout, rootAt, faults>>
vars == <<client, callers, system>>

-----------------------------------------------------------------------------
(* 0: a whole millisecond or more is left of the deadline; 1: less than    *)
(* one, so that send() finds no budget and the timer may already fire      *)
(* while a response is still in time; 2: the deadline has passed.          *)
Phases == 0 .. 2

(* "starting": spawned, root not opened yet; "serving": hello sent; "dead": *)
(* gone, its exit not seen by Node (exitCode and signalCode are null);      *)
(* "reaped": exit seen, pipes not drained; "closed": 'close' emitted.       *)
Lives == {"none", "starting", "serving", "dead", "reaped", "closed"}
Alive(k) == proc[k] \in {"starting", "serving"}
Unreaped(k) == Alive(k) \/ proc[k] = "dead"

ErrorCodes == {"CANCELLED", "DEADLINE", "WORKER_EXIT", "WORKER_PROTOCOL",
               "WORKER_BUSY", "WORKER_CLOSED", "WORKER_RESTARTING",
               "ROOT_CHANGED", "INVALID_REQUEST"}
Outcomes == {"idle", "waiting", "ok"} \cup ErrorCodes

ASSUME OutcomesAssumption == None \notin Outcomes

Hello(r) == [type |-> "ready", root |-> r]
Response(c) == [type |-> "response", id |-> c]
Garbage == [type |-> "garbage"]
Frames == {Hello(r) : r \in Roots} \cup {Response(c) : c \in Searches}
             \cup {Garbage}

InFlight == {pending, opening} \ {None}

Init ==
    /\ child = None /\ pending = None /\ opening = None
    /\ ready = FALSE /\ retiring = FALSE /\ disposed = FALSE
    /\ rootIdentity \in {None} \cup Roots
    /\ timers = {} /\ listeners = {} /\ aborted = {}
    /\ outcome = [c \in Calls |-> "idle"]
    /\ clock = [c \in Calls |-> 0]
    /\ answeredBy = [c \in Calls |-> None]
    /\ proc = [k \in Calls |-> "none"]
    /\ procRoot = [k \in Calls |-> None]
    /\ stdin = [k \in Calls |-> <<>>]
    /\ stdout = [k \in Calls |-> <<>>]
    /\ retired = {} /\ rootAt \in Roots /\ faults = 0

-----------------------------------------------------------------------------
(* Steps shared by the handlers.                                           *)

\* Variants of the handlers, each with one mistake: no action uses them.  They
\* stand before what they vary, to try the properties against.
SettleKeepsTimers(resolved, rejected, code) ==
    /\ outcome' = [c \in Calls |-> IF c \in resolved THEN "ok"
                                   ELSE IF c \in rejected THEN code
                                   ELSE outcome[c]]
    /\ listeners' = listeners \ (resolved \cup rejected)
    /\ UNCHANGED timers
SettleKeepsListeners(resolved, rejected, code) ==
    /\ outcome' = [c \in Calls |-> IF c \in resolved THEN "ok"
                                   ELSE IF c \in rejected THEN code
                                   ELSE outcome[c]]
    /\ timers' = timers \ (resolved \cup rejected)
    /\ UNCHANGED listeners
AbandonKeepsChild == UNCHANGED <<child, ready, retiring, retired>>
AbandonWithoutKill == child' = None /\ ready' = FALSE /\ UNCHANGED <<retiring, retired>>

\* Promises settled together; their timers are cleared and listeners removed.
Settle(resolved, rejected, code) ==
    /\ outcome' = [c \in Calls |-> IF c \in resolved THEN "ok"
                                   ELSE IF c \in rejected THEN code
                                   ELSE outcome[c]]
    /\ timers' = timers \ (resolved \cup rejected)
    /\ listeners' = listeners \ (resolved \cup rejected)

\* The first half of fail(): the current child is abandoned, and killed
\* unless Node has already seen it exit.
Abandon ==
    /\ child' = None
    /\ ready' = FALSE
    /\ IF child # None /\ Unreaped(child)
         THEN retiring' = TRUE /\ retired' = retired \cup {child}
         ELSE UNCHANGED <<retiring, retired>>

Fail(code) ==
    /\ Abandon
    /\ opening' = None /\ pending' = None
    /\ Settle({}, InFlight, code)

\* start(), made by call c: the child is spawned and becomes the current one.
Start(c) ==
    /\ child' = c
    /\ ready' = FALSE
    /\ proc' = [proc EXCEPT ![c] = "starting"]

\* A frame the client writes: kept for the child whether or not it still reads.
Write(k, c) == stdin' = [stdin EXCEPT ![k] = Append(@, c)]

-----------------------------------------------------------------------------
(* The API.                                                                *)

OpenRefusal ==
    IF disposed THEN "WORKER_CLOSED"
    ELSE IF ready THEN "ok"
    ELSE IF InFlight # {} THEN "WORKER_BUSY"
    ELSE IF retiring THEN "WORKER_RESTARTING"
    ELSE None

SearchRefusalIgnoresRetiring(c) ==
    IF disposed THEN "WORKER_CLOSED" ELSE IF InFlight # {} THEN "WORKER_BUSY"
    ELSE IF c \in aborted THEN "CANCELLED" ELSE None
SearchRefusalIgnoresOpening(c) ==
    IF disposed THEN "WORKER_CLOSED" ELSE IF pending # None THEN "WORKER_BUSY"
    ELSE IF retiring THEN "WORKER_RESTARTING"
    ELSE IF c \in aborted THEN "CANCELLED" ELSE None
SearchRefusal(c) ==
    IF disposed THEN "WORKER_CLOSED"
    ELSE IF InFlight # {} THEN "WORKER_BUSY"
    ELSE IF retiring THEN "WORKER_RESTARTING"
    ELSE IF c \in aborted THEN "CANCELLED"
    ELSE None

\* A promise that is settled before the call returns.
Answer(c, code) ==
    /\ outcome' = [outcome EXCEPT ![c] = code]
    /\ UNCHANGED <<client, timers, listeners, clock, aborted, answeredBy, system>>

OpenAnswered(o) ==
    /\ outcome[o] = "idle"
    /\ OpenRefusal # None
    /\ Answer(o, OpenRefusal)

Open(o) ==
    /\ outcome[o] = "idle"
    /\ OpenRefusal = None
    /\ opening' = o
    /\ timers' = timers \cup {o}
    /\ outcome' = [outcome EXCEPT ![o] = "waiting"]
    /\ Start(o)
    /\ UNCHANGED <<retiring, disposed, pending, rootIdentity, listeners, clock,
                   aborted, answeredBy, retired, procRoot, stdin, stdout,
                   rootAt, faults>>

SearchRefused(c) ==
    /\ outcome[c] = "idle"
    /\ \/ SearchRefusal(c) # None /\ Answer(c, SearchRefusal(c))
       \/ SearchRefusal(c) = None /\ Answer(c, "INVALID_REQUEST")

\* The search becomes the pending one.  It starts a child when there is none
\* and is written to one that is ready; otherwise the hello will send it.
Search(c) ==
    /\ outcome[c] = "idle"
    /\ SearchRefusal(c) = None
    /\ pending' = c
    /\ timers' = timers \cup {c}
    /\ listeners' = listeners \cup ({c} \cap Signals)
    /\ outcome' = [outcome EXCEPT ![c] = "waiting"]
    /\ \/ child = None /\ Start(c) /\ UNCHANGED stdin
       \/ /\ child # None
          /\ IF ready THEN Write(child, c) ELSE UNCHANGED stdin
          /\ UNCHANGED <<child, ready, proc>>
    /\ UNCHANGED <<retiring, disposed, opening, rootIdentity, clock, aborted,
                   answeredBy, retired, procRoot, stdout, rootAt, faults>>

\* The same call with less than a millisecond of budget when it reaches the
\* send() of a ready child: it fails at once, and takes the child with it.
SearchTooLate(c) ==
    /\ outcome[c] = "idle"
    /\ SearchRefusal(c) = None
    /\ child # None /\ ready
    /\ \E t \in Phases \ {0} : clock' = [clock EXCEPT ![c] = t]
    /\ Abandon
    /\ opening' = None /\ pending' = None
    /\ Settle({}, {c}, "DEADLINE")
    /\ UNCHANGED <<disposed, rootIdentity, aborted, answeredBy, proc, procRoot,
                   stdin, stdout, rootAt, faults>>

Close ==
    /\ ~disposed
    /\ disposed' = TRUE
    /\ Fail("WORKER_CLOSED")
    /\ UNCHANGED <<rootIdentity, clock, aborted, answeredBy, proc, procRoot,
                   stdin, stdout, rootAt, faults>>

-----------------------------------------------------------------------------
(* Callbacks: the timers, the abort listeners and the events of a child.   *)

TimeoutWhenReady(c) ==
    /\ c \in timers /\ clock[c] >= 1 /\ ready
    /\ Fail("DEADLINE")
    /\ UNCHANGED <<disposed, rootIdentity, clock, aborted, answeredBy, proc,
                   procRoot, stdin, stdout, rootAt, faults>>
\* The timer of call c fires.  The callback fails whatever is in flight.
Timeout(c) ==
    /\ c \in timers
    /\ clock[c] >= 1
    /\ Fail("DEADLINE")
    /\ UNCHANGED <<disposed, rootIdentity, clock, aborted, answeredBy, proc,
                   procRoot, stdin, stdout, rootAt, faults>>

\* The caller aborts the signal of search c, at any time: the listener, if it
\* is still there, fails whatever is in flight.
Abort(c) ==
    /\ c \notin aborted
    /\ aborted' = aborted \cup {c}
    /\ IF c \in listeners THEN Fail("CANCELLED")
       ELSE UNCHANGED <<client, retired, timers, listeners, outcome>>
    /\ UNCHANGED <<disposed, rootIdentity, clock, answeredBy, proc, procRoot,
                   stdin, stdout, rootAt, faults>>

\* The first frame of the current child, with the code it is refused with.
HelloRefusalUnpinned(frame) ==
    IF frame.type # "ready" THEN "WORKER_PROTOCOL" ELSE None
HelloRefusal(frame) ==
    IF frame.type # "ready" THEN "WORKER_PROTOCOL"
    ELSE IF rootIdentity \notin {None, frame.root} THEN "ROOT_CHANGED"
    ELSE None

\* The hello is accepted: open() resolves, a waiting search is written, and
\* fails at once when less than a millisecond of its budget is left.
OnHello(k) ==
    /\ k = child /\ ~ready
    /\ stdout[k] # <<>>
    /\ HelloRefusal(Head(stdout[k])) = None
    /\ stdout' = [stdout EXCEPT ![k] = Tail(@)]
    /\ rootIdentity' = Head(stdout[k]).root
    /\ opening' = None
    /\ LET late == pending # None /\ clock[pending] >= 1 IN
         \/ /\ late
            /\ Abandon
            /\ pending' = None
            /\ Settle({opening} \ {None}, {pending}, "DEADLINE")
            /\ UNCHANGED stdin
         \/ /\ ~late
            /\ ready' = TRUE
            /\ Settle({opening} \ {None}, {}, None)
            /\ IF pending # None THEN Write(k, pending) ELSE UNCHANGED stdin
            /\ UNCHANGED <<child, pending, retiring, retired>>
    /\ UNCHANGED <<disposed, clock, aborted, answeredBy, proc, procRoot,
                   rootAt, faults>>

\* validateWorkerResponse: the id and every budget of the search in flight.
ValidResponse(frame) == frame = Response(pending)

ResponseRefusalNewCode(frame) ==
    IF pending = None \/ ~ValidResponse(frame) THEN "WORKER_PROTOCOL"
    ELSE IF clock[pending] = 2 THEN "LATE" ELSE None
\* An unsolicited frame, a refused one, or one that is valid and too late.
ResponseRefusal(frame) ==
    IF pending = None \/ ~ValidResponse(frame) THEN "WORKER_PROTOCOL"
    ELSE IF clock[pending] = 2 THEN "DEADLINE"
    ELSE None

OnResponse(k) ==
    /\ k = child /\ ready
    /\ stdout[k] # <<>>
    /\ ResponseRefusal(Head(stdout[k])) = None
    /\ stdout' = [stdout EXCEPT ![k] = Tail(@)]
    /\ Settle({pending}, {}, None)
    /\ answeredBy' = [answeredBy EXCEPT ![pending] = k]
    /\ pending' = None
    /\ UNCHANGED <<child, ready, retiring, disposed, opening, rootIdentity,
                   clock, aborted, proc, retired, procRoot, stdin, rootAt, faults>>

OnBadFrame(k) ==
    /\ k = child
    /\ stdout[k] # <<>>
    /\ LET frame == Head(stdout[k])
           code == IF ready THEN ResponseRefusal(frame) ELSE HelloRefusal(frame)
       IN  code # None /\ Fail(code)
    /\ stdout' = [stdout EXCEPT ![k] = Tail(@)]
    /\ UNCHANGED <<disposed, rootIdentity, clock, aborted, answeredBy, proc,
                   procRoot, stdin, rootAt, faults>>

\* Node learns that the child is gone: exitCode or signalCode is set, and what
\* was not written to stdin yet is given up.
Exit(k) ==
    /\ proc[k] = "dead"
    /\ proc' = [proc EXCEPT ![k] = "reaped"]
    /\ stdin' = [stdin EXCEPT ![k] = <<>>]
    /\ UNCHANGED <<client, callers, retired, procRoot, stdout, rootAt, faults>>

\* The spawn itself failed: exitCode is set, then 'error' is emitted.
SpawnError(k) ==
    /\ proc[k] = "starting"
    /\ stdout[k] = <<>>
    /\ proc' = [proc EXCEPT ![k] = "reaped"]
    /\ IF k = child
         THEN /\ child' = None /\ ready' = FALSE
              /\ opening' = None /\ pending' = None
              /\ Settle({}, InFlight, "WORKER_EXIT")
         ELSE UNCHANGED <<child, ready, opening, pending, outcome, timers, listeners>>
    /\ UNCHANGED <<retiring, retired, disposed, rootIdentity, clock, aborted,
                   answeredBy, procRoot, stdin, stdout, rootAt, faults>>

\* A request met a pipe nobody reads: 'error' on stdin, before the exit is seen.
StdinError(k) ==
    /\ k = child
    /\ proc[k] = "dead" /\ stdin[k] # <<>>
    /\ Fail("WORKER_EXIT")
    /\ UNCHANGED <<disposed, rootIdentity, clock, aborted, answeredBy, proc,
                   procRoot, stdin, stdout, rootAt, faults>>

\* 'close': the exit has been seen and stdout is drained, the frames of a child
\* that is no longer current being dropped as they come.  fail() has added a
\* listener of its own to the children it killed.
ChildClosed(k) ==
    /\ proc[k] = "reaped"
    /\ proc' = [proc EXCEPT ![k] = "closed"]
    /\ stdin' = [stdin EXCEPT ![k] = <<>>]
    /\ stdout' = [stdout EXCEPT ![k] = <<>>]
    /\ \/ /\ k = child
          /\ stdout[k] = <<>>
          /\ Fail("WORKER_EXIT")
       \/ /\ k # child
          /\ retiring' = (retiring /\ k \notin retired)
          /\ UNCHANGED <<child, ready, pending, opening, retired, outcome,
                         timers, listeners>>
    /\ UNCHANGED <<disposed, rootIdentity, clock, aborted, answeredBy, procRoot,
                   rootAt, faults>>

-----------------------------------------------------------------------------
(* The child and the rest of the world.                                    *)

Send(k, frame) == stdout' = [stdout EXCEPT ![k] = Append(@, frame)]

\* run() opens the root, keeps the handle and says which directory it is.
ChildHello(k) ==
    /\ proc[k] = "starting"
    /\ proc' = [proc EXCEPT ![k] = "serving"]
    /\ procRoot' = [procRoot EXCEPT ![k] = rootAt]
    /\ Send(k, Hello(rootAt))
    /\ UNCHANGED <<client, callers, retired, stdin, rootAt, faults>>

\* run() reads one request and answers it under its id, with a result or an
\* error: the client resolves the search with either.
ChildServe(k) ==
    /\ proc[k] = "serving"
    /\ stdin[k] # <<>>
    /\ stdin' = [stdin EXCEPT ![k] = Tail(@)]
    /\ Send(k, Response(Head(stdin[k])))
    /\ UNCHANGED <<client, callers, proc, retired, procRoot, rootAt, faults>>

\* A frame run() would not send: a corrupt, repeated or unsolicited one.  One
\* of a child that is no longer current would be dropped, whatever it is.
ChildFault(k) ==
    /\ k = child /\ Alive(k)
    /\ faults < MaxFaults
    /\ faults' = faults + 1
    /\ \E frame \in Frames : Send(k, frame)
    /\ UNCHANGED <<client, callers, proc, retired, procRoot, stdin, rootAt>>

\* The child dies: the SIGKILL of fail(), a crash, a root it cannot open.
Die(k) ==
    /\ Alive(k)
    /\ proc' = [proc EXCEPT ![k] = "dead"]
    /\ UNCHANGED <<client, callers, retired, procRoot, stdin, stdout, rootAt, faults>>

\* The directory the root path names is replaced by another.
ReplaceRoot(r) ==
    /\ rootAt' = r
    /\ UNCHANGED <<client, callers, proc, retired, procRoot, stdin, stdout, faults>>

\* The deadline of a waiting call comes nearer.
Tick(c) ==
    /\ outcome[c] = "waiting"
    /\ clock[c] < 2
    /\ clock' = [clock EXCEPT ![c] = @ + 1]
    /\ UNCHANGED <<client, timers, listeners, outcome, aborted, answeredBy, system>>

ApiCall == \/ \E o \in Opens : OpenAnswered(o) \/ Open(o)
           \/ \E c \in Searches : SearchRefused(c) \/ Search(c) \/ SearchTooLate(c)
           \/ Close

CallStep(c) == Timeout(c) \/ Tick(c)

ClientStep(k) == \/ OnHello(k) \/ OnResponse(k) \/ OnBadFrame(k)
                 \/ Exit(k) \/ SpawnError(k)
                 \/ StdinError(k) \/ ChildClosed(k)

ChildStep(k) == ChildHello(k) \/ ChildServe(k) \/ ChildFault(k) \/ Die(k)

Next == \/ ApiCall
        \/ \E c \in Signals : Abort(c)
        \/ \E c \in Calls : CallStep(c)
        \/ \E k \in Calls : ClientStep(k) \/ ChildStep(k)
        \/ \E r \in Roots : ReplaceRoot(r)

Spec == Init /\ [][Next]_vars

\* Time passes and Node runs the callbacks that are due; the kernel delivers a
\* SIGKILL, reports the exit and ends the pipes.  Nothing else is assumed: a
\* child may be stopped for ever, a caller may never call or abort.
Fairness ==
    /\ \A c \in Calls : WF_vars(Tick(c)) /\ WF_vars(Timeout(c))
    /\ \A k \in Calls : /\ WF_vars(Exit(k))
                        /\ WF_vars(ChildClosed(k))
                        /\ WF_vars(k \in retired /\ Die(k))

FairSpec == Spec /\ Fairness

-----------------------------------------------------------------------------
(* Properties.                                                             *)

\* What the callers see is a serial server: see SerialWorker.
Serial == INSTANCE SerialWorker WITH restarting <- retiring, closed <- disposed
ClientIsSerial == Serial!Spec

\* Every variable has its type.
TypeOK ==
    /\ child \in Calls \cup {None}
    /\ ready \in BOOLEAN /\ retiring \in BOOLEAN /\ disposed \in BOOLEAN
    /\ pending \in Searches \cup {None}
    /\ opening \in Opens \cup {None}
    /\ rootIdentity \in Roots \cup {None}
    /\ timers \in SUBSET Calls
    /\ listeners \in SUBSET Signals /\ aborted \in SUBSET Signals
    /\ outcome \in [Calls -> Outcomes]
    /\ clock \in [Calls -> Phases]
    /\ proc \in [Calls -> Lives]
    /\ retired \in SUBSET Calls
    /\ procRoot \in [Calls -> Roots \cup {None}]
    /\ stdin \in [Calls -> Seq(Searches)]
    /\ stdout \in [Calls -> Seq(Frames)]
    /\ rootAt \in Roots
    /\ faults \in 0 .. MaxFaults
    /\ answeredBy \in [Calls -> Calls \cup {None}]

\* One worker never has two live processes, whatever kills, exits and restarts
\* do: retiring keeps start() off until the killed child has closed.
AtMostOneAlive ==
    \A k, l \in Calls : Alive(k) /\ Alive(l) => k = l

\* A promise is waiting exactly while its call is in flight, with its timer
\* armed and, where it has a signal, its abort listener in place: no promise hangs and
\* no callback outlives its call to fail a later one.
WaitingIsHeld ==
    /\ \A c \in Calls : outcome[c] = "waiting" <=> c \in InFlight
    /\ timers = InFlight
    /\ listeners = InFlight \cap Signals

\* A call is cancelled only by its own signal and out of time only by its own
\* deadline, though the callbacks fail whatever is in flight.
FailsForCause ==
    \A c \in Calls : /\ outcome[c] = "CANCELLED" => c \in aborted
                     /\ outcome[c] = "DEADLINE" => clock[c] >= 1

\* No search succeeds at or after its deadline, though the response may be
\* delivered before the timer that was due.
NoLateSuccess ==
    \A c \in Searches : outcome[c] = "ok" => clock[c] < 2

\* Whichever callback settles a call, it does so for the call's own reason: its signal,
\* its deadline, or an answer that came in time.
OwnReason == FailsForCause /\ NoLateSuccess

\* With a child that behaves as run() does, a search is answered from the
\* directory the worker is pinned to, whatever the root path names by then.
AnsweredFromPinnedRoot ==
    \A c \in Searches : outcome[c] = "ok" =>
        /\ answeredBy[c] # None
        /\ rootIdentity # None
        /\ procRoot[answeredBy[c]] = rootIdentity

\* With such a child, what is under way in the current child's pipes belongs
\* to the search in flight: nothing a cancelled search left there survives.
CurrentStreamIsPendings ==
    child # None =>
        /\ \A i \in 1 .. Len(stdin[child]) : stdin[child][i] = pending
        /\ \A i \in 1 .. Len(stdout[child]) :
             LET frame == stdout[child][i] IN
               IF ready THEN frame = Response(pending) ELSE frame.type = "ready"
        /\ Len(stdin[child]) + Len(stdout[child]) <= 1

\* A closed worker has no current child and nothing in flight, and so starts
\* none: close() during start-up or retirement included.
DisposedHoldsNothing ==
    disposed => child = None /\ InFlight = {}

\* The identity a worker is pinned to never changes, restarts included.
RootPinned ==
    [][rootIdentity # None => rootIdentity' = rootIdentity]_rootIdentity

\* Every accepted call settles: its own timer bounds it.
EveryCallSettles ==
    \A c \in Calls : outcome[c] = "waiting" ~> outcome[c] # "waiting"

\* A child that is killed goes: the worker does not stay in WORKER_RESTARTING, and
\* after close() no process is left.
KilledChildrenGo ==
    /\ retiring ~> ~retiring
    /\ disposed ~> (\A k \in Calls : ~Alive(k))
=============================================================================
