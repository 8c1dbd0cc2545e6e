------------------------- MODULE WorkerClientProofs -------------------------
(***************************************************************************)
(* Proofs about WorkerClient, for any number of calls, directories and     *)
(* faulty frames.                                                          *)
(***************************************************************************)
EXTENDS WorkerClient, SequenceTheorems, TLAPS

USE DEF Calls

-----------------------------------------------------------------------------
(* Steps that several actions share.                                       *)

\* Settling a set of calls keeps the types of what it changes.
LEMMA SettleType ==
    ASSUME TypeOK, NEW R, NEW S, NEW code, S = {} \/ code \in ErrorCodes,
           Settle(R, S, code)
    PROVE  /\ outcome' \in [Calls -> Outcomes]
           /\ timers' \in SUBSET Calls
           /\ listeners' \in SUBSET Signals
BY DEF TypeOK, Settle, Outcomes

\* So does abandoning the current child.
LEMMA AbandonType ==
    ASSUME TypeOK, Abandon
    PROVE  /\ child' \in Calls \cup {None}
           /\ ready' \in BOOLEAN /\ retiring' \in BOOLEAN
           /\ retired' \in SUBSET Calls
BY DEF TypeOK, Abandon

\* fail() leaves every variable it writes well typed.
LEMMA FailType ==
    ASSUME TypeOK, NEW code \in ErrorCodes, Fail(code)
    PROVE  /\ child' \in Calls \cup {None}
           /\ ready' \in BOOLEAN /\ retiring' \in BOOLEAN
           /\ retired' \in SUBSET Calls
           /\ pending' \in Searches \cup {None}
           /\ opening' \in Opens \cup {None}
           /\ outcome' \in [Calls -> Outcomes]
           /\ timers' \in SUBSET Calls
           /\ listeners' \in SUBSET Signals
<1>1. Abandon /\ Settle({}, InFlight, code) /\ pending' = None /\ opening' = None
  BY DEF Fail
<1> QED BY <1>1, SettleType, AbandonType

\* What the client writes is a request.
LEMMA WriteType ==
    ASSUME TypeOK, NEW k \in Calls, NEW c \in Searches, Write(k, c)
    PROVE  stdin' \in [Calls -> Seq(Searches)]
<1>1. Append(stdin[k], c) \in Seq(Searches)
  BY AppendProperties DEF TypeOK
<1> QED BY <1>1 DEF Write, TypeOK

\* The frame at the head of a pipe is a frame, and what is left is a pipe.
LEMMA HeadFrame ==
    ASSUME TypeOK, NEW k \in Calls, stdout[k] # <<>>
    PROVE  /\ Head(stdout[k]) \in Frames
           /\ Tail(stdout[k]) \in Seq(Frames)
<1>1. stdout[k] \in Seq(Frames)
  BY DEF TypeOK
<1> QED BY <1>1, HeadTailProperties

\* A frame that HelloRefusal lets through is a hello, with a directory in it.
LEMMA HelloHasRoot ==
    ASSUME NEW frame \in Frames, HelloRefusal(frame) = None
    PROVE  frame.root \in Roots /\ rootIdentity \in {None, frame.root}
<1>1. None # "WORKER_PROTOCOL" /\ None # "ROOT_CHANGED"
  BY OutcomesAssumption DEF Outcomes, ErrorCodes
<1>2. frame.type = "ready" /\ rootIdentity \in {None, frame.root}
  BY <1>1 DEF HelloRefusal
<1>3. \E r \in Roots : frame = Hello(r)
  BY <1>2 DEF Frames, Hello, Response, Garbage
<1> QED BY <1>2, <1>3 DEF Hello

-----------------------------------------------------------------------------
(* Type correctness.                                                       *)

\* A worker that was just constructed is type correct.
LEMMA TypeInit == Init => TypeOK
<1> SUFFICES ASSUME Init PROVE TypeOK
  OBVIOUS
<1>1. <<>> \in Seq(Searches) /\ <<>> \in Seq(Frames)
  BY EmptySeq
<1>2. /\ stdin \in [Calls -> Seq(Searches)]
      /\ stdout \in [Calls -> Seq(Frames)]
  BY <1>1 DEF Init
<1>3. /\ clock \in [Calls -> Phases]
      /\ faults \in 0 .. MaxFaults
  BY FaultsAssumption DEF Init, Phases
<1>4. /\ outcome \in [Calls -> Outcomes]
      /\ proc \in [Calls -> Lives]
      /\ procRoot \in [Calls -> Roots \cup {None}]
      /\ answeredBy \in [Calls -> Calls \cup {None}]
  BY DEF Init, Outcomes, Lives
<1> QED BY <1>2, <1>3, <1>4 DEF Init, TypeOK

\* Every handler keeps every variable in its type.
LEMMA TypeNext == TypeOK /\ [Next]_vars => TypeOK'
<1> SUFFICES ASSUME TypeOK, [Next]_vars PROVE TypeOK'
  OBVIOUS
<1> USE FaultsAssumption
<1>1. ASSUME NEW o \in Opens, OpenAnswered(o) PROVE TypeOK'
  <2>1. OpenRefusal \in Outcomes
    BY <1>1 DEF OpenAnswered, OpenRefusal, Outcomes, ErrorCodes
  <2> QED BY <1>1, <2>1 DEF OpenAnswered, Answer, TypeOK, client, system
<1>2. ASSUME NEW o \in Opens, Open(o) PROVE TypeOK'
  BY <1>2 DEF Open, Start, TypeOK, Outcomes, Lives
<1>3. ASSUME NEW c \in Searches, SearchRefused(c) PROVE TypeOK'
  <2>1. PICK code \in Outcomes : Answer(c, code)
    BY <1>3 DEF SearchRefused, SearchRefusal, Outcomes, ErrorCodes
  <2> QED BY <2>1 DEF Answer, TypeOK, client, system
<1>4. ASSUME NEW c \in Searches, Search(c) PROVE TypeOK'
  <2>1. CASE child = None
    BY <1>4, <2>1, CallsAssumption DEF Search, Start, TypeOK, Outcomes, Lives
  <2>2. CASE child # None
    <3>1. stdin' \in [Calls -> Seq(Searches)]
      BY <1>4, <2>2, WriteType DEF Search, TypeOK
    <3> QED BY <1>4, <2>2, <3>1, CallsAssumption DEF Search, TypeOK, Outcomes
  <2> QED BY <2>1, <2>2
<1>5. ASSUME NEW c \in Searches, SearchTooLate(c) PROVE TypeOK'
  <2>1. clock' \in [Calls -> Phases]
    BY <1>5 DEF SearchTooLate, TypeOK
  <2>2. Abandon /\ Settle({}, {c}, "DEADLINE")
    BY <1>5 DEF SearchTooLate
  <2>3. /\ outcome' \in [Calls -> Outcomes]
        /\ timers' \in SUBSET Calls
        /\ listeners' \in SUBSET Signals
    BY <2>2, SettleType DEF ErrorCodes
  <2> QED BY <1>5, <2>1, <2>2, <2>3, AbandonType DEF SearchTooLate, TypeOK
<1>6. CASE Close
  BY <1>6, FailType DEF Close, TypeOK, ErrorCodes
<1>7. ASSUME NEW c \in Signals, Abort(c) PROVE TypeOK'
  <2>1. aborted' \in SUBSET Signals
    BY <1>7 DEF Abort, TypeOK
  <2>2. CASE c \in listeners
    BY <1>7, <2>1, <2>2, FailType DEF Abort, TypeOK, ErrorCodes
  <2>3. CASE c \notin listeners
    BY <1>7, <2>1, <2>3 DEF Abort, TypeOK, client
  <2> QED BY <2>2, <2>3
<1>8. ASSUME NEW c \in Calls, Timeout(c) PROVE TypeOK'
  BY <1>8, FailType DEF Timeout, TypeOK, ErrorCodes
<1>9. ASSUME NEW c \in Calls, Tick(c) PROVE TypeOK'
  <2>1. clock[c] + 1 \in Phases
    <3>1. clock[c] \in Phases
      BY DEF TypeOK
    <3>2. clock[c] < 2
      BY <1>9 DEF Tick
    <3> QED BY ONLY <3>1, <3>2, SMT DEF Phases
  <2>2. clock' \in [Calls -> Phases]
    BY <1>9, <2>1 DEF Tick, TypeOK
  <2> QED BY <1>9, <2>2 DEF Tick, TypeOK, client, system
<1>10. ASSUME NEW k \in Calls, OnHello(k) PROVE TypeOK'
  <2> DEFINE frame == Head(stdout[k])
  <2>1. frame \in Frames /\ Tail(stdout[k]) \in Seq(Frames)
    BY <1>10, HeadFrame DEF OnHello
  <2>2. frame.root \in Roots
    BY <1>10, <2>1, HelloHasRoot DEF OnHello
  <2>3. /\ stdout' \in [Calls -> Seq(Frames)]
        /\ rootIdentity' \in Roots
    BY <1>10, <2>1, <2>2 DEF OnHello, TypeOK
  <2>4. CASE pending # None /\ clock[pending] >= 1
    BY <1>10, <2>3, <2>4, SettleType, AbandonType DEF OnHello, TypeOK, ErrorCodes
  <2>5. CASE ~(pending # None /\ clock[pending] >= 1)
    <3>1. stdin' \in [Calls -> Seq(Searches)]
      <4>1. CASE pending # None
        <5>1. Write(k, pending) /\ pending \in Searches
          BY <1>10, <2>5, <4>1 DEF OnHello, TypeOK
        <5> QED BY <5>1, WriteType
      <4>2. CASE pending = None
        BY <1>10, <2>5, <4>2 DEF OnHello, TypeOK
      <4> QED BY <4>1, <4>2
    <3>2. /\ outcome' \in [Calls -> Outcomes]
          /\ timers' \in SUBSET Calls
          /\ listeners' \in SUBSET Signals
      BY <1>10, <2>5, SettleType DEF OnHello
    <3> QED BY <1>10, <2>3, <2>5, <3>1, <3>2 DEF OnHello, TypeOK
  <2> QED BY <2>4, <2>5
<1>11. ASSUME NEW k \in Calls, OnResponse(k) PROVE TypeOK'
  <2>1. Tail(stdout[k]) \in Seq(Frames)
    BY <1>11, HeadFrame DEF OnResponse
  <2>2. Settle({pending}, {}, None)
    BY <1>11 DEF OnResponse
  <2> QED BY <1>11, <2>1, <2>2, SettleType DEF OnResponse, TypeOK
<1>12. ASSUME NEW k \in Calls, OnBadFrame(k) PROVE TypeOK'
  <2>1. Tail(stdout[k]) \in Seq(Frames)
    BY <1>12, HeadFrame DEF OnBadFrame
  <2>2. PICK code \in ErrorCodes : Fail(code)
    BY <1>12 DEF OnBadFrame, ResponseRefusal, HelloRefusal, ErrorCodes
  <2> QED BY <1>12, <2>1, <2>2, FailType DEF OnBadFrame, TypeOK
<1>13. ASSUME NEW k \in Calls, Exit(k) PROVE TypeOK'
  BY <1>13 DEF Exit, TypeOK, client, callers, Lives
<1>14. ASSUME NEW k \in Calls, SpawnError(k) PROVE TypeOK'
  <2>1. proc' \in [Calls -> Lives]
    BY <1>14 DEF SpawnError, TypeOK, Lives
  <2>2. CASE k = child
    <3>1. Settle({}, InFlight, "WORKER_EXIT")
      BY <1>14, <2>2 DEF SpawnError
    <3> QED BY <1>14, <2>1, <2>2, <3>1, SettleType DEF SpawnError, TypeOK, ErrorCodes
  <2>3. CASE k # child
    BY <1>14, <2>1, <2>3 DEF SpawnError, TypeOK
  <2> QED BY <2>2, <2>3
<1>15. ASSUME NEW k \in Calls, StdinError(k) PROVE TypeOK'
  BY <1>15, FailType DEF StdinError, TypeOK, ErrorCodes
<1>16. ASSUME NEW k \in Calls, ChildClosed(k) PROVE TypeOK'
  <2>1. /\ proc' \in [Calls -> Lives]
        /\ stdin' \in [Calls -> Seq(Searches)]
        /\ stdout' \in [Calls -> Seq(Frames)]
    BY <1>16 DEF ChildClosed, TypeOK, Lives
  <2>2. CASE k = child
    BY <1>16, <2>1, <2>2, FailType DEF ChildClosed, TypeOK, ErrorCodes
  <2>3. CASE k # child
    BY <1>16, <2>1, <2>3 DEF ChildClosed, TypeOK
  <2> QED BY <2>2, <2>3
<1>17. ASSUME NEW k \in Calls, ChildHello(k) PROVE TypeOK'
  <2>1. Hello(rootAt) \in Frames
    BY DEF TypeOK, Frames
  <2>2. stdout' \in [Calls -> Seq(Frames)]
    BY <1>17, <2>1, AppendProperties DEF ChildHello, Send, TypeOK
  <2> QED BY <1>17, <2>2 DEF ChildHello, TypeOK, client, callers, Lives
<1>18. ASSUME NEW k \in Calls, ChildServe(k) PROVE TypeOK'
  <2>1. /\ stdin[k] \in Seq(Searches) /\ stdin[k] # <<>>
    BY <1>18 DEF ChildServe, TypeOK
  <2>2. Head(stdin[k]) \in Searches /\ Tail(stdin[k]) \in Seq(Searches)
    BY <2>1, HeadTailProperties
  <2>3. Response(Head(stdin[k])) \in Frames
    BY <2>2 DEF Frames
  <2>4. /\ stdin' \in [Calls -> Seq(Searches)]
        /\ stdout' \in [Calls -> Seq(Frames)]
    BY <1>18, <2>2, <2>3, AppendProperties DEF ChildServe, Send, TypeOK
  <2> QED BY <1>18, <2>4 DEF ChildServe, TypeOK, client, callers
<1>19. ASSUME NEW k \in Calls, ChildFault(k) PROVE TypeOK'
  <2>1. stdout' \in [Calls -> Seq(Frames)]
    BY <1>19, AppendProperties DEF ChildFault, Send, TypeOK
  <2> QED BY <1>19, <2>1 DEF ChildFault, TypeOK, client, callers
<1>20. ASSUME NEW k \in Calls, Die(k) PROVE TypeOK'
  BY <1>20 DEF Die, TypeOK, client, callers, Lives
<1>21. ASSUME NEW r \in Roots, ReplaceRoot(r) PROVE TypeOK'
  BY <1>21 DEF ReplaceRoot, TypeOK, client, callers
<1>22. CASE UNCHANGED vars
  BY <1>22 DEF vars, TypeOK, client, callers, system
<1> QED
  BY <1>1, <1>2, <1>3, <1>4, <1>5, <1>6, <1>7, <1>8, <1>9, <1>10, <1>11, <1>12,
     <1>13, <1>14, <1>15, <1>16, <1>17, <1>18, <1>19, <1>20, <1>21, <1>22
  DEF Next, ApiCall, CallStep, ClientStep, ChildStep

\* Every variable keeps its type, for any number of calls and children.
THEOREM TypeCorrect == Spec => []TypeOK
BY TypeInit, TypeNext, PTL DEF Spec

-----------------------------------------------------------------------------
(* What a step does to the calls in flight.                                *)

\* The inductive form of WaitingIsHeld: at most one call is in flight.
Held == WaitingIsHeld /\ (pending = None \/ opening = None)

\* A step that leaves the calls and the current child alone.
Quiet == UNCHANGED <<child, ready, pending, opening, outcome, timers, listeners>>

\* fail(), whatever became of the child.
Dropped(code) ==
    /\ child' = None /\ ready' = FALSE
    /\ pending' = None /\ opening' = None
    /\ Settle({}, InFlight, code)

\* The reason fail() is given belongs to a call that is held.
Earned(code) ==
    /\ code = "CANCELLED" => \E c \in listeners : c \in aborted'
    /\ code = "DEADLINE" => \E c \in timers \cup InFlight : clock[c] >= 1

\* fail() leaves no call in flight, and no timer or listener of one.
LEMMA FailDrops ==
    ASSUME NEW code, Fail(code)
    PROVE  Dropped(code)
BY DEF Fail, Abandon, Dropped

\* The callbacks that fail the calls in flight, with a code the caller earned.
LEMMA EventDrops ==
    ASSUME TypeOK, NEW k \in Calls,
           OnBadFrame(k) \/ SpawnError(k) \/ StdinError(k) \/ ChildClosed(k)
    PROVE  Quiet \/ \E code \in ErrorCodes : Dropped(code) /\ Earned(code)
<1>1. CASE OnBadFrame(k)
  <2> DEFINE frame == Head(stdout[k])
             code == IF ready THEN ResponseRefusal(frame) ELSE HelloRefusal(frame)
  <2>1. Fail(code) /\ code # None
    BY <1>1 DEF OnBadFrame
  <2>2. /\ code \in ErrorCodes /\ code # "CANCELLED"
        /\ code = "DEADLINE" => pending # None /\ clock[pending] = 2
    BY <2>1 DEF ResponseRefusal, HelloRefusal, ErrorCodes
  <2>3. Earned(code)
    BY <2>2 DEF Earned, InFlight
  <2> QED BY <2>1, <2>2, <2>3, FailDrops
<1>2. CASE SpawnError(k)
  BY <1>2 DEF SpawnError, Dropped, Quiet, ErrorCodes, Earned
<1>3. CASE StdinError(k)
  <2>1. Fail("WORKER_EXIT")
    BY <1>3 DEF StdinError
  <2> QED BY <2>1, FailDrops DEF ErrorCodes, Earned
<1>4. CASE ChildClosed(k)
  <2>1. CASE k = child
    <3>1. Fail("WORKER_EXIT")
      BY <1>4, <2>1 DEF ChildClosed
    <3> QED BY <3>1, FailDrops DEF ErrorCodes, Earned
  <2>2. CASE k # child
    BY <1>4, <2>2 DEF ChildClosed, Quiet
  <2> QED BY <2>1, <2>2
<1> QED BY <1>1, <1>2, <1>3, <1>4

\* What happens in the children and outside leaves the calls alone.
LEMMA WorldIsQuiet ==
    ASSUME NEW k \in Calls,
           Exit(k) \/ ChildHello(k) \/ ChildServe(k) \/ ChildFault(k) \/ Die(k)
    PROVE  Quiet /\ clock' = clock
BY DEF Exit, ChildHello, ChildServe, ChildFault, Die, Quiet, client, callers

\* Every step is of one of these kinds.
LEMMA StepKinds ==
    ASSUME TypeOK, [Next]_vars
    PROVE  \/ Quiet
           \/ \E c \in Calls, code \in ErrorCodes \cup {"ok"} :
                 /\ outcome[c] = "idle" /\ Answer(c, code)
                 /\ code # "DEADLINE" /\ (code = "CANCELLED" => c \in aborted)
                 /\ code = "ok" => c \in Opens
           \/ \E o \in Opens : Open(o)
           \/ \E c \in Searches : Search(c) \/ SearchTooLate(c)
           \/ \E k \in Calls : OnHello(k) \/ OnResponse(k)
           \/ \E code \in ErrorCodes : Dropped(code) /\ Earned(code)
<1>1. ASSUME NEW o \in Opens, OpenAnswered(o)
      PROVE  \E code \in ErrorCodes \cup {"ok"} :
                 /\ outcome[o] = "idle" /\ Answer(o, code)
                 /\ code # "DEADLINE" /\ code # "CANCELLED"
  BY <1>1 DEF OpenAnswered, OpenRefusal, ErrorCodes
<1>2. ASSUME NEW c \in Searches, SearchRefused(c)
      PROVE  \E code \in ErrorCodes :
                 /\ outcome[c] = "idle" /\ Answer(c, code)
                 /\ code # "DEADLINE" /\ (code = "CANCELLED" => c \in aborted)
  BY <1>2 DEF SearchRefused, SearchRefusal, ErrorCodes
<1>3. CASE Close
  BY <1>3, FailDrops DEF Close, ErrorCodes, Earned
<1>4. ASSUME NEW c \in Signals, Abort(c)
      PROVE  Quiet \/ (Dropped("CANCELLED") /\ Earned("CANCELLED"))
  BY <1>4, FailDrops DEF Abort, Quiet, client, Earned
<1>5. ASSUME NEW c \in Calls, Timeout(c)
      PROVE  Dropped("DEADLINE") /\ Earned("DEADLINE")
  BY <1>5, FailDrops DEF Timeout, Earned
<1>6. ASSUME NEW c \in Calls, Tick(c) PROVE Quiet
  BY <1>6 DEF Tick, Quiet, client
<1>7. ASSUME NEW r \in Roots, ReplaceRoot(r) PROVE Quiet
  BY <1>7 DEF ReplaceRoot, Quiet, client, callers
<1>8. CASE UNCHANGED vars
  BY <1>8 DEF vars, Quiet, client, callers
<1>9. "CANCELLED" \in ErrorCodes /\ "DEADLINE" \in ErrorCodes /\ "ok" \notin ErrorCodes
  BY DEF ErrorCodes
<1>10. CASE ApiCall
  BY <1>1, <1>2, <1>3, <1>9, <1>10 DEF ApiCall
<1>11. CASE \E c \in Calls : CallStep(c)
  BY <1>5, <1>6, <1>9, <1>11 DEF CallStep
<1>12. CASE \E k \in Calls : ClientStep(k) \/ ChildStep(k)
  BY <1>12, EventDrops, WorldIsQuiet DEF ClientStep, ChildStep
<1> QED BY <1>4, <1>7, <1>8, <1>9, <1>10, <1>11, <1>12 DEF Next

\* A new worker holds no timer, listener or call.
LEMMA HeldInit == Init => Held
BY DEF Init, Held, WaitingIsHeld, InFlight

\* Every handler keeps timers and listeners with the calls in flight.
LEMMA HeldNext ==
    ASSUME TypeOK, Held, [Next]_vars
    PROVE  Held'
<1> USE CallsAssumption
<1>1. CASE Quiet
  BY <1>1 DEF Quiet, Held, WaitingIsHeld, InFlight
<1>2. ASSUME NEW c \in Calls, NEW code \in ErrorCodes \cup {"ok"},
             outcome[c] = "idle", Answer(c, code)
      PROVE  Held'
  BY <1>2 DEF Answer, Held, WaitingIsHeld, InFlight, client, TypeOK, ErrorCodes
<1>3. ASSUME NEW o \in Opens, Open(o) PROVE Held'
  <2>1. InFlight = {}
    BY <1>3, OutcomesAssumption DEF Open, OpenRefusal, Outcomes, ErrorCodes
  <2>2. /\ outcome' = [outcome EXCEPT ![o] = "waiting"]
        /\ opening' = o /\ pending' = pending
        /\ timers' = timers \cup {o} /\ listeners' = listeners
    BY <1>3 DEF Open
  <2>3. pending = None /\ InFlight' = {o} /\ o \notin Signals
    BY <2>1, <2>2 DEF InFlight, TypeOK
  <2> QED BY <2>1, <2>2, <2>3 DEF Held, WaitingIsHeld, TypeOK
<1>4. ASSUME NEW c \in Searches, Search(c) PROVE Held'
  <2>1. InFlight = {}
    BY <1>4, OutcomesAssumption DEF Search, SearchRefusal, Outcomes, ErrorCodes
  <2>2. /\ outcome' = [outcome EXCEPT ![c] = "waiting"]
        /\ pending' = c /\ opening' = opening
        /\ timers' = timers \cup {c}
        /\ listeners' = listeners \cup ({c} \cap Signals)
    BY <1>4 DEF Search
  <2>3. opening = None /\ InFlight' = {c}
    BY <2>1, <2>2 DEF InFlight, TypeOK
  <2> QED BY <2>1, <2>2, <2>3 DEF Held, WaitingIsHeld, TypeOK
<1>5. ASSUME NEW c \in Searches, SearchTooLate(c) PROVE Held'
  <2>1. InFlight = {}
    BY <1>5, OutcomesAssumption DEF SearchTooLate, SearchRefusal, Outcomes, ErrorCodes
  <2>2. /\ opening' = None /\ pending' = None
        /\ timers' = timers \ {c} /\ listeners' = listeners \ {c}
        /\ \A o \in Calls : outcome'[o] = IF o = c THEN "DEADLINE" ELSE outcome[o]
    BY <1>5 DEF SearchTooLate, Settle
  <2>3. InFlight' = {}
    BY <2>2 DEF InFlight
  <2> QED BY <2>1, <2>2, <2>3 DEF Held, WaitingIsHeld
<1>6. ASSUME NEW k \in Calls, OnHello(k) PROVE Held'
  <2>1. CASE pending # None /\ clock[pending] >= 1
    <3>1. /\ opening' = None /\ pending' = None
          /\ Settle({opening} \ {None}, {pending}, "DEADLINE")
      BY <1>6, <2>1 DEF OnHello
    <3>2. opening = None
      BY <2>1 DEF Held
    <3> QED BY <3>1, <3>2, <2>1 DEF Settle, Held, WaitingIsHeld, InFlight, TypeOK
  <2>2. CASE ~(pending # None /\ clock[pending] >= 1)
    <3>1. /\ opening' = None /\ pending' = pending
          /\ Settle({opening} \ {None}, {}, None)
      BY <1>6, <2>2 DEF OnHello
    <3>2. InFlight' = InFlight \ ({opening} \ {None})
      BY <3>1 DEF InFlight, Held
    <3>3. /\ outcome' = [c \in Calls |-> IF c \in {opening} \ {None} THEN "ok"
                                         ELSE outcome[c]]
          /\ timers' = timers \ ({opening} \ {None})
          /\ listeners' = listeners \ ({opening} \ {None})
      BY <3>1 DEF Settle
    <3> QED BY <3>1, <3>2, <3>3 DEF Held, WaitingIsHeld, TypeOK
  <2> QED BY <2>1, <2>2
<1>7. ASSUME NEW k \in Calls, OnResponse(k) PROVE Held'
  BY <1>7 DEF OnResponse, Settle, Held, WaitingIsHeld, InFlight, TypeOK
<1>8. ASSUME NEW code \in ErrorCodes, Dropped(code) PROVE Held'
  BY <1>8 DEF Dropped, Settle, Held, WaitingIsHeld, InFlight, TypeOK, ErrorCodes
<1> QED BY <1>1, <1>2, <1>3, <1>4, <1>5, <1>6, <1>7, <1>8, StepKinds

\* No promise hangs and no callback outlives its call.
THEOREM WaitingAlwaysHeld == Spec => []WaitingIsHeld
<1>1. Init => TypeOK /\ Held
  BY TypeInit, HeldInit
<1>2. TypeOK /\ Held /\ [Next]_vars => TypeOK' /\ Held'
  BY TypeNext, HeldNext
<1>3. Held => WaitingIsHeld
  BY DEF Held
<1> QED BY <1>1, <1>2, <1>3, PTL DEF Spec

-----------------------------------------------------------------------------
(* The reasons calls fail with.                                            *)

\* A clock at or past the deadline stays there.
LEMMA LateClock ==
    ASSUME NEW c \in Searches, SearchTooLate(c)
    PROVE  \E t \in {1, 2} : clock' = [clock EXCEPT ![c] = t]
<1>1. Phases \ {0} = {1, 2}
  BY DEF Phases
<1> QED BY <1>1 DEF SearchTooLate

\* A signal stays aborted and a call's time does not come back.
LEMMA TimeIsOneWay ==
    ASSUME TypeOK, [Next]_vars
    PROVE  /\ aborted \subseteq aborted'
           /\ \A c \in Calls : clock[c] >= 1 => clock'[c] >= 1
<1>1. ASSUME NEW c \in Calls, Tick(c)
      PROVE  /\ aborted \subseteq aborted'
             /\ \A d \in Calls : clock[d] >= 1 => clock'[d] >= 1
  <2>1. clock[c] \in 0 .. 2
    BY DEF TypeOK, Phases
  <2> QED BY <1>1, <2>1 DEF Tick, TypeOK
<1>2. ASSUME NEW c \in Searches, SearchTooLate(c)
      PROVE  /\ aborted \subseteq aborted'
             /\ \A d \in Calls : clock[d] >= 1 => clock'[d] >= 1
  <2>1. PICK t \in {1, 2} : clock' = [clock EXCEPT ![c] = t]
    BY <1>2, LateClock
  <2> QED BY <1>2, <2>1 DEF SearchTooLate, TypeOK
<1>3. ASSUME clock' = clock, aborted \subseteq aborted'
      PROVE  /\ aborted \subseteq aborted'
             /\ \A d \in Calls : clock[d] >= 1 => clock'[d] >= 1
  BY <1>3
<1>4. ASSUME NEW c \in Signals, Abort(c)
      PROVE  clock' = clock /\ aborted \subseteq aborted'
  BY <1>4 DEF Abort
<1>5. CASE ApiCall
  BY <1>2, <1>5 DEF ApiCall, OpenAnswered, Answer, Open, SearchRefused, Search, Close
<1>6. ASSUME NEW k \in Calls, ClientStep(k)
      PROVE  clock' = clock /\ aborted' = aborted
  BY <1>6 DEF ClientStep, OnHello, OnResponse, OnBadFrame, Exit, SpawnError,
              StdinError, ChildClosed, callers
<1>7. ASSUME NEW k \in Calls, ChildStep(k)
      PROVE  clock' = clock /\ aborted' = aborted
  BY <1>7 DEF ChildStep, ChildHello, ChildServe, ChildFault, Die, callers
<1>8. ASSUME NEW c \in Calls, Timeout(c)
      PROVE  clock' = clock /\ aborted' = aborted
  BY <1>8 DEF Timeout
<1>9. ASSUME NEW r \in Roots, ReplaceRoot(r)
      PROVE  clock' = clock /\ aborted' = aborted
  BY <1>9 DEF ReplaceRoot, callers
<1>10. CASE UNCHANGED vars
  BY <1>10 DEF vars, callers
<1> QED BY <1>1, <1>3, <1>4, <1>5, <1>6, <1>7, <1>8, <1>9, <1>10 DEF Next, CallStep

\* Every handler fails calls for their own reason only.
LEMMA FailsForCauseNext ==
    ASSUME TypeOK, Held, FailsForCause, [Next]_vars
    PROVE  FailsForCause'
<1> USE CallsAssumption, TimeIsOneWay
<1>1. ASSUME \A c \in Calls : outcome'[c] \in {outcome[c], "ok", "waiting"}
      PROVE  FailsForCause'
  BY <1>1 DEF FailsForCause
<1>2. CASE Quiet
  BY <1>1, <1>2 DEF Quiet
<1>3. ASSUME NEW c \in Calls, NEW code \in ErrorCodes \cup {"ok"}, Answer(c, code),
             code # "DEADLINE", code = "CANCELLED" => c \in aborted
      PROVE  FailsForCause'
  BY <1>3 DEF Answer, FailsForCause, TypeOK
<1>4. ASSUME NEW o \in Opens, Open(o) PROVE FailsForCause'
  BY <1>1, <1>4 DEF Open, TypeOK
<1>5. ASSUME NEW c \in Searches, Search(c) PROVE FailsForCause'
  BY <1>1, <1>5 DEF Search, TypeOK
<1>6. ASSUME NEW c \in Searches, SearchTooLate(c) PROVE FailsForCause'
  <2>1. PICK t \in {1, 2} : clock' = [clock EXCEPT ![c] = t]
    BY <1>6, LateClock
  <2>2. outcome' = [d \in Calls |-> IF d \in {c} THEN "DEADLINE" ELSE outcome[d]]
    BY <1>6 DEF SearchTooLate, Settle
  <2>3. clock'[c] >= 1
    <3>1. clock'[c] = t
      BY <2>1 DEF TypeOK
    <3> QED BY ONLY <3>1, t \in {1, 2}, SMT
  <2> QED BY <2>2, <2>3 DEF FailsForCause
<1>7. ASSUME NEW k \in Calls, OnHello(k) PROVE FailsForCause'
  <2>1. CASE pending # None /\ clock[pending] >= 1
    <3>1. Settle({opening} \ {None}, {pending}, "DEADLINE") /\ pending \in Calls
      BY <1>7, <2>1 DEF OnHello, TypeOK
    <3> QED BY <2>1, <3>1 DEF Settle, FailsForCause
  <2>2. CASE ~(pending # None /\ clock[pending] >= 1)
    <3>1. Settle({opening} \ {None}, {}, None)
      BY <1>7, <2>2 DEF OnHello
    <3> QED BY <1>1, <3>1 DEF Settle
  <2> QED BY <2>1, <2>2
<1>8. ASSUME NEW k \in Calls, OnResponse(k) PROVE FailsForCause'
  BY <1>1, <1>8 DEF OnResponse, Settle
<1>9. ASSUME NEW code \in ErrorCodes, Dropped(code), Earned(code) PROVE FailsForCause'
  <2>1. \A c, d \in InFlight : c = d
    BY DEF Held, InFlight
  <2>2. code = "CANCELLED" => InFlight \subseteq aborted'
    BY <1>9, <2>1 DEF Earned, Held, WaitingIsHeld
  <2>3. code = "DEADLINE" => \A c \in InFlight : clock[c] >= 1
    BY <1>9, <2>1 DEF Earned, Held, WaitingIsHeld
  <2>4. outcome' = [c \in Calls |-> IF c \in InFlight THEN code ELSE outcome[c]]
    BY <1>9 DEF Dropped, Settle
  <2> QED BY <2>2, <2>3, <2>4 DEF FailsForCause
<1> QED BY <1>2, <1>3, <1>4, <1>5, <1>6, <1>7, <1>8, <1>9, StepKinds

\* The clock of a call that has succeeded has stopped.
LEMMA StoppedClock ==
    ASSUME TypeOK, [Next]_vars, NEW c \in Calls, outcome[c] = "ok"
    PROVE  clock'[c] = clock[c]
<1>1. ASSUME clock' = clock PROVE clock'[c] = clock[c]
  BY <1>1
<1>2. ASSUME NEW d \in Calls, Tick(d) PROVE clock'[c] = clock[c]
  BY <1>2 DEF Tick, TypeOK
<1>3. ASSUME NEW d \in Searches, SearchTooLate(d) PROVE clock'[c] = clock[c]
  <2>1. PICK t \in {1, 2} : clock' = [clock EXCEPT ![d] = t]
    BY <1>3, LateClock
  <2>2. d # c
    BY <1>3 DEF SearchTooLate
  <2> QED BY <2>1, <2>2 DEF TypeOK
<1>4. CASE ApiCall
  BY <1>1, <1>3, <1>4
     DEF ApiCall, OpenAnswered, Answer, Open, SearchRefused, Search, Close
<1>5. ASSUME NEW k \in Calls, ClientStep(k) PROVE clock' = clock
  BY <1>5 DEF ClientStep, OnHello, OnResponse, OnBadFrame, Exit, SpawnError,
              StdinError, ChildClosed, callers
<1>6. ASSUME NEW k \in Calls, ChildStep(k) PROVE clock' = clock
  BY <1>6 DEF ChildStep, ChildHello, ChildServe, ChildFault, Die, callers
<1>7. ASSUME NEW d \in Calls, Timeout(d) PROVE clock' = clock
  BY <1>7 DEF Timeout
<1>8. ASSUME NEW d \in Signals, Abort(d) PROVE clock' = clock
  BY <1>8 DEF Abort
<1>9. ASSUME NEW r \in Roots, ReplaceRoot(r) PROVE clock' = clock
  BY <1>9 DEF ReplaceRoot, callers
<1>10. CASE UNCHANGED vars
  BY <1>1, <1>10 DEF vars, callers
<1> QED BY <1>1, <1>2, <1>4, <1>5, <1>6, <1>7, <1>8, <1>9, <1>10 DEF Next, CallStep

\* A search only succeeds by its response, which is dropped at the deadline.
LEMMA NoLateSuccessNext ==
    ASSUME TypeOK, Held, NoLateSuccess, [Next]_vars
    PROVE  NoLateSuccess'
<1> USE CallsAssumption
<1>1. ASSUME \A c \in Searches : outcome'[c] = "ok" => outcome[c] = "ok"
      PROVE  NoLateSuccess'
  BY <1>1, StoppedClock DEF NoLateSuccess
<1>2. CASE Quiet
  BY <1>1, <1>2 DEF Quiet
<1>3. ASSUME NEW c \in Calls, NEW code \in ErrorCodes \cup {"ok"}, Answer(c, code),
             code = "ok" => c \in Opens
      PROVE  NoLateSuccess'
  BY <1>1, <1>3 DEF Answer, TypeOK
<1>4. ASSUME NEW o \in Opens, Open(o) PROVE NoLateSuccess'
  BY <1>1, <1>4 DEF Open, TypeOK
<1>8. ASSUME NEW c \in Searches, Search(c) \/ SearchTooLate(c) PROVE NoLateSuccess'
  BY <1>1, <1>8 DEF Search, SearchTooLate, Settle, TypeOK
<1>5. ASSUME NEW k \in Calls, OnHello(k) PROVE NoLateSuccess'
  <2>1. \E late \in SUBSET Calls : Settle({opening} \ {None}, late, "DEADLINE")
                                  \/ Settle({opening} \ {None}, {}, None)
    BY <1>5 DEF OnHello, TypeOK
  <2>2. \A c \in Searches : c \notin {opening} \ {None}
    BY DEF TypeOK
  <2> QED BY <1>1, <2>1, <2>2, OutcomesAssumption DEF Settle
<1>6. ASSUME NEW k \in Calls, OnResponse(k) PROVE NoLateSuccess'
  <2>1. pending \in Searches /\ clock[pending] # 2
    BY <1>6, OutcomesAssumption
       DEF OnResponse, ResponseRefusal, Outcomes, ErrorCodes, TypeOK
  <2>2. clock[pending] \in 0 .. 2
    BY <2>1 DEF TypeOK, Phases
  <2>3. clock[pending] < 2
    BY <2>1, <2>2
  <2>4. /\ outcome' = [c \in Calls |-> IF c \in {pending} THEN "ok"
                                      ELSE IF c \in {} THEN None ELSE outcome[c]]
        /\ clock' = clock
    BY <1>6 DEF OnResponse, Settle
  <2> QED BY <2>1, <2>3, <2>4 DEF NoLateSuccess
<1>7. ASSUME NEW code \in ErrorCodes, Dropped(code) PROVE NoLateSuccess'
  <2>1. code # "ok"
    BY DEF ErrorCodes
  <2> QED BY <1>1, <1>7, <2>1 DEF Dropped, Settle
<1> QED BY <1>2, <1>3, <1>4, <1>5, <1>6, <1>7, <1>8, StepKinds

\* Whoever's callback settles the calls in flight, a call is cancelled only by its own
\* signal, out of time only by its own deadline, and answered only before it.
THEOREM ReasonIsAlwaysOwn == Spec => []OwnReason
<1>1. Init => TypeOK /\ Held /\ OwnReason
  <2>1. Init => OwnReason
    BY DEF Init, OwnReason, FailsForCause, NoLateSuccess
  <2> QED BY <2>1, TypeInit, HeldInit
<1>2. TypeOK /\ Held /\ OwnReason /\ [Next]_vars => TypeOK' /\ Held' /\ OwnReason'
  BY TypeNext, HeldNext, FailsForCauseNext, NoLateSuccessNext DEF OwnReason
<1> QED BY <1>1, <1>2, PTL DEF Spec
-----------------------------------------------------------------------------
(* The current child.                                                      *)

\* A child is current only with a reason: it is ready, or a call waits for it.
ChildIsClaimed ==
    child # None => ready \/ InFlight # {}

\* What close() and start() rest on.
Owned == DisposedHoldsNothing /\ ChildIsClaimed

\* Only close() disposes of the worker.
LEMMA OnlyCloseDisposes ==
    ASSUME [Next]_vars
    PROVE  disposed' = disposed \/ (child' = None /\ pending' = None /\ opening' = None)
<1>1. CASE ApiCall
  BY <1>1 DEF ApiCall, OpenAnswered, Answer, Open, SearchRefused, Search,
              SearchTooLate, Close, Fail, Abandon, client
<1>2. ASSUME NEW c \in Signals, Abort(c) PROVE disposed' = disposed
  BY <1>2 DEF Abort, client
<1>3. ASSUME NEW c \in Calls, CallStep(c) PROVE disposed' = disposed
  BY <1>3 DEF CallStep, Timeout, Tick, client
<1>4. ASSUME NEW k \in Calls, ClientStep(k) PROVE disposed' = disposed
  BY <1>4 DEF ClientStep, OnHello, OnResponse, OnBadFrame, Exit, SpawnError,
              StdinError, ChildClosed, client
<1>5. ASSUME NEW k \in Calls, ChildStep(k) PROVE disposed' = disposed
  BY <1>5 DEF ChildStep, ChildHello, ChildServe, ChildFault, Die, client
<1>6. ASSUME NEW r \in Roots, ReplaceRoot(r) PROVE disposed' = disposed
  BY <1>6 DEF ReplaceRoot, client
<1>7. CASE UNCHANGED vars
  BY <1>7 DEF vars, client
<1> QED BY <1>1, <1>2, <1>3, <1>4, <1>5, <1>6, <1>7 DEF Next

\* Every handler keeps a current child claimed and a closed worker empty.
LEMMA OwnedNext ==
    ASSUME TypeOK, Held, Owned, [Next]_vars
    PROVE  Owned'
<1>1. CASE child' = None /\ pending' = None /\ opening' = None
  BY <1>1 DEF Owned, DisposedHoldsNothing, ChildIsClaimed, InFlight
<1> SUFFICES ASSUME disposed' = disposed PROVE Owned'
  BY <1>1, OnlyCloseDisposes
<1>2. CASE Quiet
  BY <1>2 DEF Quiet, Owned, DisposedHoldsNothing, ChildIsClaimed, InFlight
<1>3. ASSUME NEW c \in Calls, NEW code, Answer(c, code) PROVE Owned'
  BY <1>3 DEF Answer, client, Owned, DisposedHoldsNothing, ChildIsClaimed, InFlight
<1>4. ASSUME NEW o \in Opens, Open(o) PROVE Owned'
  <2>1. ~disposed
    BY <1>4, OutcomesAssumption DEF Open, OpenRefusal, Outcomes, ErrorCodes
  <2>2. opening' = o /\ o # None
    BY <1>4, CallsAssumption DEF Open
  <2> QED BY <2>1, <2>2 DEF Owned, DisposedHoldsNothing, ChildIsClaimed, InFlight
<1>5. ASSUME NEW c \in Searches, Search(c) PROVE Owned'
  <2>1. ~disposed
    BY <1>5, OutcomesAssumption DEF Search, SearchRefusal, Outcomes, ErrorCodes
  <2>2. pending' = c /\ c # None
    BY <1>5, CallsAssumption DEF Search
  <2> QED BY <2>1, <2>2 DEF Owned, DisposedHoldsNothing, ChildIsClaimed, InFlight
<1>6. ASSUME NEW c \in Searches, SearchTooLate(c) PROVE Owned'
  BY <1>1, <1>6 DEF SearchTooLate, Abandon
<1>7. ASSUME NEW k \in Calls, OnHello(k) PROVE Owned'
  <2>1. ~disposed
    BY <1>7, CallsAssumption DEF OnHello, Owned, DisposedHoldsNothing
  <2>2. child' = None \/ ready'
    BY <1>7 DEF OnHello, Abandon
  <2> QED BY <2>1, <2>2 DEF Owned, DisposedHoldsNothing, ChildIsClaimed
<1>8. ASSUME NEW k \in Calls, OnResponse(k) PROVE Owned'
  <2>1. ~disposed
    BY <1>8, CallsAssumption DEF OnResponse, Owned, DisposedHoldsNothing
  <2> QED BY <1>8, <2>1 DEF OnResponse, Owned, DisposedHoldsNothing, ChildIsClaimed
<1>9. ASSUME NEW code, Dropped(code) PROVE Owned'
  BY <1>1, <1>9 DEF Dropped
<1> QED BY <1>2, <1>3, <1>4, <1>5, <1>6, <1>7, <1>8, <1>9, StepKinds

\* A new worker has no current child.
LEMMA OwnedInit == Init => Owned
BY DEF Init, Owned, DisposedHoldsNothing, ChildIsClaimed, InFlight

\* After close() the worker holds neither a child nor a call, for ever.
THEOREM ClosedIsFinal == Spec => []DisposedHoldsNothing
<1>1. Init => TypeOK /\ Held /\ Owned
  BY TypeInit, HeldInit, OwnedInit
<1>2. TypeOK /\ Held /\ Owned /\ [Next]_vars => TypeOK' /\ Held' /\ Owned'
  BY TypeNext, HeldNext, OwnedNext
<1>3. Owned => DisposedHoldsNothing
  BY DEF Owned
<1> QED BY <1>1, <1>2, <1>3, PTL DEF Spec

\* The directory a worker is pinned to survives every restart: only an accepted
\* hello writes rootIdentity, and it is accepted only with the same directory.
THEOREM RootStaysPinned == Spec => RootPinned
<1>1. TypeOK /\ [Next]_vars
        => [rootIdentity # None => rootIdentity' = rootIdentity]_rootIdentity
  <2> SUFFICES ASSUME TypeOK, [Next]_vars
               PROVE  rootIdentity # None => rootIdentity' = rootIdentity
    OBVIOUS
  <2>1. ASSUME NEW k \in Calls, OnHello(k)
        PROVE  rootIdentity # None => rootIdentity' = rootIdentity
    <3>1. Head(stdout[k]) \in Frames
      BY <2>1, HeadFrame DEF OnHello
    <3>2. HelloRefusal(Head(stdout[k])) = None /\ rootIdentity' = Head(stdout[k]).root
      BY <2>1 DEF OnHello
    <3>3. rootIdentity \in {None, Head(stdout[k]).root}
      BY <3>1, <3>2, HelloHasRoot
    <3> QED BY <3>2, <3>3
  <2>2. ASSUME ~ \E k \in Calls : OnHello(k)
        PROVE  rootIdentity' = rootIdentity
    <3>1. CASE ApiCall
      BY <3>1 DEF ApiCall, OpenAnswered, Answer, Open, SearchRefused, Search,
                  SearchTooLate, Close, client
    <3>2. ASSUME NEW c \in Signals, Abort(c) PROVE rootIdentity' = rootIdentity
      BY <3>2 DEF Abort, Fail, client
    <3>3. ASSUME NEW c \in Calls, CallStep(c) PROVE rootIdentity' = rootIdentity
      BY <3>3 DEF CallStep, Timeout, Tick, client
    <3>4. ASSUME NEW k \in Calls, ClientStep(k) PROVE rootIdentity' = rootIdentity
      BY <2>2, <3>4 DEF ClientStep, OnResponse, OnBadFrame, Exit, SpawnError,
                        StdinError, ChildClosed, client
    <3>5. ASSUME NEW k \in Calls, ChildStep(k) PROVE rootIdentity' = rootIdentity
      BY <3>5 DEF ChildStep, ChildHello, ChildServe, ChildFault, Die, client
    <3>6. ASSUME NEW r \in Roots, ReplaceRoot(r) PROVE rootIdentity' = rootIdentity
      BY <3>6 DEF ReplaceRoot, client
    <3>7. CASE UNCHANGED vars
      BY <3>7 DEF vars, client
    <3> QED BY <3>1, <3>2, <3>3, <3>4, <3>5, <3>6, <3>7 DEF Next
  <2> QED BY <2>1, <2>2
<1> QED BY <1>1, TypeCorrect, PTL DEF Spec, RootPinned
-----------------------------------------------------------------------------
(* At most one live process.                                               *)

\* The inductive form of AtMostOneAlive.  A process Node has not seen exit is
\* the current child or one that fail() killed; while a killed one has not
\* closed the worker is retiring, and while it is retiring it has no child.
OneChild ==
    /\ \A k \in Calls : outcome[k] = "idle" => proc[k] = "none"
    /\ child # None => /\ ~retiring /\ child \notin retired
                       /\ proc[child] \notin {"none", "closed"}
    /\ \A k \in Calls : Unreaped(k) => k = child \/ k \in retired
    /\ \A k \in retired : proc[k] # "none" /\ (proc[k] = "closed" \/ retiring)
    /\ \A k, l \in retired : proc[k] = "closed" \/ proc[l] = "closed" \/ k = l

\* Only one process is neither idle nor dead, hence alive.
LEMMA OneChildImplies == TypeOK /\ OneChild => AtMostOneAlive
<1> SUFFICES ASSUME TypeOK, OneChild, NEW k \in Calls, NEW l \in Calls,
                    Alive(k), Alive(l)
             PROVE  k = l
  BY DEF AtMostOneAlive
<1>1. Unreaped(k) /\ Unreaped(l)
  BY DEF Unreaped
<1>2. proc[k] # "closed" /\ proc[l] # "closed"
  BY DEF Alive
<1>3. (k = child \/ k \in retired) /\ (l = child \/ l \in retired)
  BY <1>1 DEF OneChild
<1>4. k \in retired \/ l \in retired => retiring
  BY <1>2 DEF OneChild
<1>5. k \in retired /\ l \in retired => k = l
  BY <1>2 DEF OneChild
<1>6. child \in Calls => ~retiring
  BY CallsAssumption DEF OneChild
<1> QED BY <1>3, <1>4, <1>5, <1>6

\* No settled call becomes idle again: no call spawns a second child.
LEMMA IdleShrinks ==
    ASSUME TypeOK, Held, [Next]_vars
    PROVE  \A c \in Calls : outcome'[c] = "idle" => outcome[c] = "idle"
<1>1. CASE Quiet
  BY <1>1 DEF Quiet
<1>2. ASSUME NEW c \in Calls, NEW code \in ErrorCodes \cup {"ok"}, Answer(c, code)
      PROVE  \A d \in Calls : outcome'[d] = "idle" => outcome[d] = "idle"
  BY <1>2 DEF Answer, TypeOK, ErrorCodes
<1>3. ASSUME NEW o \in Opens, Open(o)
      PROVE  \A d \in Calls : outcome'[d] = "idle" => outcome[d] = "idle"
  BY <1>3 DEF Open, TypeOK
<1>4. ASSUME NEW c \in Searches, Search(c)
      PROVE  \A d \in Calls : outcome'[d] = "idle" => outcome[d] = "idle"
  BY <1>4 DEF Search, TypeOK
<1>5. ASSUME NEW c \in Searches, SearchTooLate(c)
      PROVE  \A d \in Calls : outcome'[d] = "idle" => outcome[d] = "idle"
  BY <1>5 DEF SearchTooLate, Settle
<1>6. ASSUME NEW k \in Calls, OnHello(k) \/ OnResponse(k)
      PROVE  \A d \in Calls : outcome'[d] = "idle" => outcome[d] = "idle"
  BY <1>6 DEF OnHello, OnResponse, Settle
<1>7. ASSUME NEW code \in ErrorCodes, Dropped(code)
      PROVE  \A d \in Calls : outcome'[d] = "idle" => outcome[d] = "idle"
  BY <1>7 DEF Dropped, Settle, ErrorCodes
<1> QED BY <1>1, <1>2, <1>3, <1>4, <1>5, <1>6, <1>7, StepKinds

\* Abandoning the child keeps the invariant when no process changes.
LEMMA AbandonKeepsOne ==
    ASSUME TypeOK, OneChild, Abandon, UNCHANGED proc,
           \A c \in Calls : outcome'[c] = "idle" => outcome[c] = "idle"
    PROVE  OneChild'
<1> USE CallsAssumption
<1>1. CASE child # None /\ Unreaped(child)
  <2>1. retiring' /\ retired' = retired \cup {child} /\ child' = None
    BY <1>1 DEF Abandon
  <2>2. \A k \in retired : proc[k] = "closed"
    BY <1>1 DEF OneChild
  <2> QED BY <2>1, <2>2, <1>1 DEF OneChild, Unreaped, Alive, TypeOK
<1>2. CASE ~(child # None /\ Unreaped(child))
  <2>1. retiring' = retiring /\ retired' = retired /\ child' = None
    BY <1>2 DEF Abandon
  <2> QED BY <2>1, <1>2 DEF OneChild, Unreaped, Alive, TypeOK
<1> QED BY <1>1, <1>2

\* So does a process moving on, but for its 'close'.
LEMMA ProcessKeepsOne ==
    ASSUME TypeOK, OneChild, NEW k \in Calls, Unreaped(k),
           NEW s \in {"serving", "dead", "reaped"},
           proc' = [proc EXCEPT ![k] = s],
           child' = child \/ (child' = None /\ k = child /\ s = "reaped"),
           UNCHANGED <<retiring, retired>>,
           \A c \in Calls : outcome'[c] = "idle" => outcome[c] = "idle"
    PROVE  OneChild'
<1> USE CallsAssumption
<1>1. \A l \in Calls : proc'[l] = IF l = k THEN s ELSE proc[l]
  BY DEF TypeOK
<1>2. \A l \in Calls : Unreaped(l)' => Unreaped(l)
  BY <1>1 DEF Unreaped, Alive
<1>3. outcome[k] # "idle"
  BY DEF OneChild, Unreaped, Alive
<1>4. \A l \in retired : l \in Calls
  BY DEF TypeOK
<1>5. \A l \in Calls : outcome'[l] = "idle" => proc'[l] = "none"
  BY <1>1, <1>3 DEF OneChild
<1>6. child' # None => /\ ~retiring' /\ child' \notin retired'
                       /\ proc'[child'] \notin {"none", "closed"}
  BY <1>1 DEF OneChild, TypeOK
<1>7. \A l \in Calls : Unreaped(l)' => l = child' \/ l \in retired'
  <2> SUFFICES ASSUME NEW l \in Calls, Unreaped(l)' PROVE l = child' \/ l \in retired'
    OBVIOUS
  <2>1. l = child \/ l \in retired
    BY <1>2 DEF OneChild
  <2>2. k = child /\ s = "reaped" => l # child
    BY <1>1 DEF Unreaped, Alive
  <2> QED BY <2>1, <2>2
<1>8. \A l \in retired' : proc'[l] # "none" /\ (proc'[l] = "closed" \/ retiring')
  BY <1>1, <1>4 DEF OneChild, Unreaped, Alive
<1>9. \A l, m \in retired' : proc'[l] = "closed" \/ proc'[m] = "closed" \/ l = m
  BY <1>1, <1>4 DEF OneChild, Unreaped, Alive
<1> QED BY <1>5, <1>6, <1>7, <1>8, <1>9 DEF OneChild

\* start() is reached only when every killed child has closed.
LEMMA StartKeepsOne ==
    ASSUME TypeOK, OneChild, NEW c \in Calls, Start(c), child = None, ~retiring,
           outcome[c] = "idle", outcome'[c] # "idle",
           \A d \in Calls : outcome'[d] = "idle" => outcome[d] = "idle",
           UNCHANGED <<retiring, retired>>
    PROVE  OneChild'
<1> USE CallsAssumption
<1>1. proc[c] = "none"
  BY DEF OneChild
<1>2. c \notin retired /\ c # None
  BY <1>1 DEF OneChild
<1>3. \A k \in retired : proc[k] = "closed"
  BY DEF OneChild
<1>4. child' = c /\ \A l \in Calls : proc'[l] = IF l = c THEN "starting" ELSE proc[l]
  BY DEF Start, TypeOK
<1>5. \A l \in retired : l \in Calls
  BY DEF TypeOK
<1> QED BY <1>1, <1>2, <1>3, <1>4, <1>5 DEF OneChild, Unreaped, Alive

\* The 'close' of a killed child ends the retirement, when no other is left.
LEMMA CloseKeepsOne ==
    ASSUME TypeOK, OneChild, NEW k \in Calls, ChildClosed(k),
           \A c \in Calls : outcome'[c] = "idle" => outcome[c] = "idle"
    PROVE  OneChild'
<1> USE CallsAssumption
<1>1. /\ proc[k] = "reaped"
      /\ \A l \in Calls : proc'[l] = IF l = k THEN "closed" ELSE proc[l]
  BY DEF ChildClosed, TypeOK
<1>2. \A l \in retired : l \in Calls
  BY DEF TypeOK
<1>3. outcome[k] # "idle"
  BY <1>1 DEF OneChild
<1>4. CASE k = child
  <2>1. child' = None /\ retiring' = retiring /\ retired' = retired
    BY <1>1, <1>4 DEF ChildClosed, Fail, Abandon, Unreaped, Alive
  <2> QED BY <1>1, <1>2, <1>3, <1>4, <2>1 DEF OneChild, Unreaped, Alive
<1>5. CASE k # child
  <2>1. child' = child /\ retired' = retired /\ retiring' = (retiring /\ k \notin retired)
    BY <1>5 DEF ChildClosed
  <2>2. child # None => child \in Calls
    BY DEF TypeOK
  <2>3. k \in retired => \A l \in retired : l = k \/ proc[l] = "closed"
    BY <1>1 DEF OneChild
  <2>4. \A l \in Calls : proc'[l] = proc[l] \/ (l = k /\ proc'[l] = "closed")
    BY <1>1
  <2>5. \A l \in Calls : outcome'[l] = "idle" => proc'[l] = "none"
    BY <1>3, <2>4 DEF OneChild
  <2>6. child' # None => /\ ~retiring' /\ child' \notin retired'
                         /\ proc'[child'] \notin {"none", "closed"}
    BY <1>5, <2>1, <2>2, <2>4 DEF OneChild
  <2>7. \A l \in Calls : Unreaped(l)' => l = child' \/ l \in retired'
    <3> TAKE l \in Calls
    <3>1. CASE l = k
      BY <1>1, <3>1 DEF Unreaped, Alive
    <3>2. CASE l # k
      <4>1. proc'[l] = proc[l] /\ (Unreaped(l) => l = child \/ l \in retired)
        BY <2>4, <3>2 DEF OneChild
      <4> QED BY <2>1, <4>1 DEF Unreaped, Alive
    <3> QED BY <3>1, <3>2
  <2>8. \A l \in retired' : proc'[l] # "none" /\ (proc'[l] = "closed" \/ retiring')
    <3> TAKE l \in retired'
    <3>1. l \in retired /\ l \in Calls
      BY <1>2, <2>1
    <3>2. proc[l] # "none" /\ (proc[l] = "closed" \/ retiring)
      BY <3>1 DEF OneChild
    <3>3. proc'[l] = proc[l] \/ (l = k /\ proc'[l] = "closed")
      BY <2>4, <3>1
    <3>4. CASE k \in retired
      <4>1. l = k \/ proc[l] = "closed"
        BY <2>3, <3>1, <3>4
      <4>2. proc'[l] = "closed"
        BY <1>1, <3>1, <4>1
      <4> QED BY <4>2
    <3>5. CASE k \notin retired
      <4>1. retiring => retiring'
        BY <2>1, <3>5
      <4>2. proc'[l] # "none" /\ (proc[l] = "closed" => proc'[l] = "closed")
        BY <3>2, <3>3
      <4> QED BY <3>2, <4>1, <4>2
    <3> QED BY <3>4, <3>5
  <2>9. \A l, m \in retired' : proc'[l] = "closed" \/ proc'[m] = "closed" \/ l = m
    BY <1>2, <2>1, <2>4 DEF OneChild
  <2> QED BY <2>5, <2>6, <2>7, <2>8, <2>9 DEF OneChild
<1> QED BY <1>4, <1>5

\* A step that touches none of this.
LEMMA NothingKeepsOne ==
    ASSUME TypeOK, OneChild, UNCHANGED <<child, retiring, retired, proc>>,
           \A c \in Calls : outcome'[c] = "idle" => outcome[c] = "idle"
    PROVE  OneChild'
BY DEF OneChild, Unreaped, Alive

\* No process exists at first.
LEMMA OneChildInit == Init => OneChild
BY CallsAssumption DEF Init, OneChild, Unreaped, Alive

\* No handler and no step of a process makes a second one live.
LEMMA OneChildNext ==
    ASSUME TypeOK, Held, Owned, OneChild, [Next]_vars
    PROVE  OneChild'
<1> USE IdleShrinks
<1>1. ASSUME NEW c \in Calls, NEW code, Answer(c, code) PROVE OneChild'
  BY <1>1, NothingKeepsOne DEF Answer, client, system
<1>2. ASSUME NEW o \in Opens, OpenAnswered(o) PROVE OneChild'
  BY <1>1, <1>2 DEF OpenAnswered
<1>3. ASSUME NEW o \in Opens, Open(o) PROVE OneChild'
  <2>1. /\ ~ready /\ InFlight = {} /\ ~retiring /\ outcome[o] = "idle"
    BY <1>3, OutcomesAssumption DEF Open, OpenRefusal, Outcomes, ErrorCodes
  <2>2. child = None
    BY <2>1 DEF Owned, ChildIsClaimed
  <2>3. outcome'[o] # "idle" /\ UNCHANGED <<retiring, retired>> /\ Start(o)
    BY <1>3 DEF Open, TypeOK
  <2> QED BY <2>1, <2>2, <2>3, StartKeepsOne
<1>4. ASSUME NEW c \in Searches, SearchRefused(c) PROVE OneChild'
  BY <1>1, <1>4 DEF SearchRefused
<1>5. ASSUME NEW c \in Searches, Search(c) PROVE OneChild'
  <2>1. ~retiring /\ outcome[c] = "idle"
    BY <1>5, OutcomesAssumption DEF Search, SearchRefusal, Outcomes, ErrorCodes
  <2>2. outcome'[c] # "idle" /\ UNCHANGED <<retiring, retired>>
    BY <1>5 DEF Search, TypeOK
  <2>3. CASE child = None
    <3>1. Start(c)
      BY <1>5, <2>3 DEF Search
    <3> QED BY <2>1, <2>2, <2>3, <3>1, StartKeepsOne
  <2>4. CASE child # None
    BY <1>5, <2>2, <2>4, NothingKeepsOne DEF Search
  <2> QED BY <2>3, <2>4
<1>6. ASSUME NEW c \in Searches, SearchTooLate(c) PROVE OneChild'
  BY <1>6, AbandonKeepsOne DEF SearchTooLate
<1>7. CASE Close
  BY <1>7, AbandonKeepsOne DEF Close, Fail
<1>8. ASSUME NEW c \in Signals, Abort(c) PROVE OneChild'
  <2>1. CASE c \in listeners
    BY <1>8, <2>1, AbandonKeepsOne DEF Abort, Fail
  <2>2. CASE c \notin listeners
    BY <1>8, <2>2, NothingKeepsOne DEF Abort, client
  <2> QED BY <2>1, <2>2
<1>9. ASSUME NEW c \in Calls, Timeout(c) PROVE OneChild'
  BY <1>9, AbandonKeepsOne DEF Timeout, Fail
<1>10. ASSUME NEW c \in Calls, Tick(c) PROVE OneChild'
  BY <1>10, NothingKeepsOne DEF Tick, client, system
<1>11. ASSUME NEW k \in Calls, OnHello(k) PROVE OneChild'
  <2>1. CASE pending # None /\ clock[pending] >= 1
    BY <1>11, <2>1, AbandonKeepsOne DEF OnHello
  <2>2. CASE ~(pending # None /\ clock[pending] >= 1)
    BY <1>11, <2>2, NothingKeepsOne DEF OnHello
  <2> QED BY <2>1, <2>2
<1>12. ASSUME NEW k \in Calls, OnResponse(k) PROVE OneChild'
  BY <1>12, NothingKeepsOne DEF OnResponse
<1>13. ASSUME NEW k \in Calls, OnBadFrame(k) PROVE OneChild'
  BY <1>13, AbandonKeepsOne DEF OnBadFrame, Fail
<1>14. ASSUME NEW k \in Calls, Exit(k) PROVE OneChild'
  <2>1. Unreaped(k) /\ proc' = [proc EXCEPT ![k] = "reaped"]
    BY <1>14 DEF Exit, Unreaped
  <2> QED BY <1>14, <2>1, ProcessKeepsOne DEF Exit, client
<1>15. ASSUME NEW k \in Calls, SpawnError(k) PROVE OneChild'
  <2>1. Unreaped(k) /\ proc' = [proc EXCEPT ![k] = "reaped"]
    BY <1>15 DEF SpawnError, Unreaped, Alive
  <2>2. child' = child \/ (child' = None /\ k = child)
    BY <1>15 DEF SpawnError
  <2> QED BY <1>15, <2>1, <2>2, ProcessKeepsOne DEF SpawnError
<1>16. ASSUME NEW k \in Calls, StdinError(k) PROVE OneChild'
  BY <1>16, AbandonKeepsOne DEF StdinError, Fail
<1>17. ASSUME NEW k \in Calls, ChildClosed(k) PROVE OneChild'
  BY <1>17, CloseKeepsOne
<1>18. ASSUME NEW k \in Calls, ChildHello(k) PROVE OneChild'
  <2>1. Unreaped(k) /\ proc' = [proc EXCEPT ![k] = "serving"]
    BY <1>18 DEF ChildHello, Unreaped, Alive
  <2> QED BY <1>18, <2>1, ProcessKeepsOne DEF ChildHello, client
<1>19. ASSUME NEW k \in Calls, ChildServe(k) \/ ChildFault(k) PROVE OneChild'
  BY <1>19, NothingKeepsOne DEF ChildServe, ChildFault, client
<1>20. ASSUME NEW k \in Calls, Die(k) PROVE OneChild'
  <2>1. Unreaped(k) /\ proc' = [proc EXCEPT ![k] = "dead"]
    BY <1>20 DEF Die, Unreaped
  <2> QED BY <1>20, <2>1, ProcessKeepsOne DEF Die, client
<1>21. ASSUME NEW r \in Roots, ReplaceRoot(r) PROVE OneChild'
  BY <1>21, NothingKeepsOne DEF ReplaceRoot, client
<1>22. CASE UNCHANGED vars
  BY <1>22, NothingKeepsOne DEF vars, client, system
<1> QED
  BY <1>2, <1>3, <1>4, <1>5, <1>6, <1>7, <1>8, <1>9, <1>10, <1>11, <1>12,
     <1>13, <1>14, <1>15, <1>16, <1>17, <1>18, <1>19, <1>20, <1>21, <1>22
  DEF Next, ApiCall, CallStep, ClientStep, ChildStep

\* However calls, kills, exits and restarts interleave, a worker never has two
\* live processes, with any number of calls and children.
THEOREM NeverTwoAlive == Spec => []AtMostOneAlive
<1> DEFINE IInv == TypeOK /\ Held /\ Owned /\ OneChild
<1>1. Init => IInv
  BY TypeInit, HeldInit, OwnedInit, OneChildInit
<1>2. IInv /\ [Next]_vars => IInv'
  BY TypeNext, HeldNext, OwnedNext, OneChildNext
<1>3. IInv => AtMostOneAlive
  BY OneChildImplies
<1> QED BY <1>1, <1>2, <1>3, PTL DEF Spec

-----------------------------------------------------------------------------
(* What the client answers its callers: as the serial server of            *)
(* SerialWorker, and, with children that behave as run() does, from the    *)
(* directory the worker is pinned to.                                      *)

-----------------------------------------------------------------------------
(* The client implements SerialWorker.                                     *)

\* The waiting calls of the serial server are the calls in flight, of which there
\* is one at most.
LEMMA WaitingIsInFlight ==
    ASSUME TypeOK, Held
    PROVE  /\ Serial!Waiting = InFlight
           /\ InFlight = {} \/ \E c \in Calls : InFlight = {c} /\ outcome[c] = "waiting"
<1>1. \A c \in Calls : outcome[c] = "waiting" <=> c \in InFlight
  BY DEF Held, WaitingIsHeld
<1>2. InFlight \subseteq Calls
  BY DEF InFlight, TypeOK
<1>3. Serial!Waiting = InFlight
  BY <1>1, <1>2 DEF Serial!Waiting, Serial!Calls
<1>4. InFlight = {} \/ \E c \in Calls : InFlight = {c}
  BY <1>2 DEF Held, InFlight
<1> QED BY <1>1, <1>3, <1>4

\* Settling the one call in flight is a step of the serial server; with none in
\* flight it is a stutter, or an interruption.
LEMMA SettleRefines ==
    ASSUME TypeOK, Held, NEW code \in Serial!Settling \ {"CANCELLED"},
           Settle({}, InFlight, code),
           retiring' = retiring \/ (retiring' = TRUE /\ code # "ok"),
           UNCHANGED <<aborted, disposed>>
    PROVE  [Serial!Next]_Serial!vars
<1>1. outcome' = [c \in Calls |-> IF c \in InFlight THEN code ELSE outcome[c]]
  BY DEF Settle
<1>2. CASE InFlight = {}
  <2>1. outcome' = outcome
    BY <1>1, <1>2 DEF TypeOK
  <2>2. Serial!Waiting = {}
    BY <1>2, WaitingIsInFlight
  <2> QED BY <2>1, <2>2 DEF Serial!Next, Serial!Interrupt, Serial!vars
<1>3. ASSUME NEW c \in Calls, InFlight = {c}, outcome[c] = "waiting"
      PROVE  [Serial!Next]_Serial!vars
  <2>1. outcome' = [outcome EXCEPT ![c] = code]
    BY <1>1, <1>3 DEF TypeOK
  <2>2. Serial!SettleWith(c, code)
    BY <1>3, <2>1 DEF Serial!SettleWith
  <2>3. Serial!Settle(c)
    BY <2>2 DEF Serial!Settle
  <2> QED BY <2>3 DEF Serial!Next, Serial!Calls
<1> QED BY <1>2, <1>3, WaitingIsInFlight

\* fail() is such a step, whatever it does with the child.
LEMMA FailRefines ==
    ASSUME TypeOK, Held, NEW code \in Serial!Settling \ {"CANCELLED", "ok"}, Fail(code),
           UNCHANGED <<aborted, disposed>>
    PROVE  [Serial!Next]_Serial!vars
<1>1. Settle({}, InFlight, code) /\ (retiring' = retiring \/ retiring' = TRUE)
  BY DEF Fail, Abandon
<1> QED BY <1>1, SettleRefines

\* A call that is refused, is refused for a true reason.
LEMMA RefusalRefines ==
    ASSUME TypeOK, Held, NEW c \in Calls, outcome[c] = "idle",
           NEW code \in Serial!Refusals(c), Answer(c, code)
    PROVE  [Serial!Next]_Serial!vars
<1>1. Serial!Refuse(c)
  BY DEF Serial!Refuse, Answer, client
<1> QED BY <1>1 DEF Serial!Next, Serial!Calls

\* Every step of the client is a step of the serial server, or changes nothing its
\* callers see.
LEMMA StepRefines ==
    ASSUME TypeOK, TypeOK', Held, [Next]_vars
    PROVE  [Serial!Next]_Serial!vars
<1>w. /\ Serial!Waiting = InFlight
      /\ InFlight = {} \/ \E c \in Calls : InFlight = {c} /\ outcome[c] = "waiting"
  BY WaitingIsInFlight
<1>s. {"DEADLINE", "WORKER_EXIT", "WORKER_PROTOCOL", "ROOT_CHANGED"}
        \subseteq Serial!Settling \ {"CANCELLED", "ok"}
  BY DEF Serial!Settling
<1>n. None \notin Outcomes
  BY OutcomesAssumption
<1>1. ASSUME NEW o \in Opens, OpenAnswered(o) PROVE [Serial!Next]_Serial!vars
  <2>1. outcome[o] = "idle" /\ Answer(o, OpenRefusal)
    BY <1>1 DEF OpenAnswered
  <2>2. CASE OpenRefusal = "ok"
    <3>1. ~disposed
      BY <2>2 DEF OpenRefusal
    <3>2. Serial!AlreadyOpen(o)
      BY <2>1, <2>2, <3>1 DEF Answer, client, Serial!AlreadyOpen
    <3> QED BY <3>2 DEF Serial!Next
  <2>3. CASE OpenRefusal # "ok"
    <3>1. OpenRefusal \in Serial!Refusals(o)
      BY <1>1, <1>w, <2>3 DEF OpenAnswered, OpenRefusal, Serial!Refusals
    <3> QED BY <2>1, <3>1, RefusalRefines
  <2> QED BY <2>2, <2>3
<1>2. ASSUME NEW o \in Opens, Open(o) PROVE [Serial!Next]_Serial!vars
  <2>1. ~disposed /\ ~retiring /\ InFlight = {} /\ outcome[o] = "idle"
    BY <1>2, <1>n DEF Open, OpenRefusal, Outcomes, ErrorCodes
  <2>2. Serial!Accept(o)
    BY <1>2, <1>w, <2>1 DEF Open, Serial!Accept
  <2> QED BY <2>2 DEF Serial!Next, Serial!Calls
<1>3. ASSUME NEW c \in Searches, SearchRefused(c) PROVE [Serial!Next]_Serial!vars
  <2>1. outcome[c] = "idle"
    BY <1>3 DEF SearchRefused
  <2>2. CASE SearchRefusal(c) # None /\ Answer(c, SearchRefusal(c))
    <3>1. SearchRefusal(c) \in Serial!Refusals(c)
      BY <1>w, <2>2 DEF SearchRefusal, Serial!Refusals
    <3> QED BY <2>1, <2>2, <3>1, RefusalRefines
  <2>3. CASE SearchRefusal(c) = None /\ Answer(c, "INVALID_REQUEST")
    <3>1. ~disposed
      BY <1>n, <2>3 DEF SearchRefusal, Outcomes, ErrorCodes
    <3>2. "INVALID_REQUEST" \in Serial!Refusals(c)
      BY <3>1 DEF Serial!Refusals
    <3> QED BY <2>1, <2>3, <3>2, RefusalRefines
  <2> QED BY <1>3, <2>2, <2>3 DEF SearchRefused
<1>4. ASSUME NEW c \in Searches, Search(c) PROVE [Serial!Next]_Serial!vars
  <2>1. ~disposed /\ ~retiring /\ InFlight = {} /\ outcome[c] = "idle"
    BY <1>4, <1>n DEF Search, SearchRefusal, Outcomes, ErrorCodes
  <2>2. Serial!Accept(c)
    BY <1>4, <1>w, <2>1 DEF Search, Serial!Accept
  <2> QED BY <2>2 DEF Serial!Next, Serial!Calls
<1>5. ASSUME NEW c \in Searches, SearchTooLate(c) PROVE [Serial!Next]_Serial!vars
  <2>1. ~disposed /\ ~retiring /\ InFlight = {} /\ outcome[c] = "idle"
    BY <1>5, <1>n DEF SearchTooLate, SearchRefusal, Outcomes, ErrorCodes
  <2>2. outcome' = [outcome EXCEPT ![c] = "DEADLINE"]
    BY <1>5 DEF SearchTooLate, Settle, TypeOK
  <2>3. Serial!ExpireAtOnce(c)
    BY <1>5, <1>w, <2>1, <2>2 DEF SearchTooLate, TypeOK, Serial!ExpireAtOnce
  <2> QED BY <2>3 DEF Serial!Next
<1>6. ASSUME Close PROVE [Serial!Next]_Serial!vars
  <2>1. /\ Settle({}, InFlight, "WORKER_CLOSED")
        /\ retiring' = retiring \/ retiring' = TRUE
    BY <1>6 DEF Close, Fail, Abandon
  <2>2. outcome' = [c \in Calls |-> IF c \in Serial!Waiting THEN "WORKER_CLOSED"
                                    ELSE outcome[c]]
    BY <1>w, <2>1 DEF Settle
  <2>3. Serial!Close
    BY <1>6, <2>1, <2>2 DEF Close, Serial!Close, Serial!Calls
  <2> QED BY <2>3 DEF Serial!Next
<1>7. ASSUME NEW c \in Signals, Abort(c) PROVE [Serial!Next]_Serial!vars
  <2>1. aborted' = aborted \cup {c} /\ disposed' = disposed /\ c \in Searches
    BY <1>7, CallsAssumption DEF Abort
  <2>2. CASE c \in listeners
    <3>1. InFlight = {c} /\ outcome[c] = "waiting"
      BY <1>w, <2>2 DEF Held, WaitingIsHeld
    <3>2. /\ Settle({}, InFlight, "CANCELLED")
          /\ retiring' = retiring \/ retiring' = TRUE
      BY <1>7, <2>2 DEF Abort, Fail, Abandon
    <3>3. outcome' = [outcome EXCEPT ![c] = "CANCELLED"]
      BY <3>1, <3>2 DEF Settle, TypeOK
    <3>4. Serial!SettleWith(c, "CANCELLED")
      BY <2>1, <3>1, <3>2, <3>3 DEF Serial!SettleWith
    <3>5. Serial!Abort(c)
      BY <2>1, <3>4 DEF Serial!Abort
    <3> QED BY <2>1, <3>5 DEF Serial!Next
  <2>3. CASE c \notin listeners
    <3>1. Serial!Abort(c)
      BY <1>7, <2>1, <2>3 DEF Abort, client, Serial!Abort
    <3> QED BY <2>1, <3>1 DEF Serial!Next
  <2> QED BY <2>2, <2>3
<1>8. ASSUME NEW c \in Calls, Timeout(c) PROVE [Serial!Next]_Serial!vars
  BY <1>8, <1>s, FailRefines DEF Timeout
<1>9. ASSUME NEW k \in Calls, OnHello(k) PROVE [Serial!Next]_Serial!vars
  <2>1. UNCHANGED <<aborted, disposed>>
    BY <1>9 DEF OnHello
  <2>2. CASE pending # None /\ clock[pending] >= 1
    <3>1. opening = None /\ InFlight = {pending}
      BY <2>2 DEF Held, InFlight
    <3>2. /\ Settle({}, InFlight, "DEADLINE")
          /\ retiring' = retiring \/ retiring' = TRUE
      BY <1>9, <2>2, <3>1 DEF OnHello, Abandon, Settle
    <3> QED BY <1>s, <2>1, <3>2, SettleRefines
  <2>3. CASE ~(pending # None /\ clock[pending] >= 1)
    <3>1. Settle({opening} \ {None}, {}, None) /\ retiring' = retiring
      BY <1>9, <2>3 DEF OnHello
    <3>2. CASE opening = None
      <4>1. outcome' = outcome
        BY <3>1, <3>2 DEF Settle, TypeOK
      <4> QED BY <2>1, <3>1, <4>1 DEF Serial!vars
    <3>3. CASE opening # None
      <4>1. InFlight = {opening}
        BY <3>3 DEF Held, InFlight
      <4>2. outcome' = [outcome EXCEPT ![opening] = "ok"]
        BY <3>1, <3>3 DEF Settle, TypeOK
      <4>3. opening \in Calls /\ outcome[opening] = "waiting"
        BY <1>w, <4>1
      <4>4. Serial!SettleWith(opening, "ok") /\ "ok" \in Serial!Settling \ {"CANCELLED"}
        BY <2>1, <3>1, <4>2, <4>3 DEF Serial!SettleWith, Serial!Settling
      <4>5. Serial!Settle(opening)
        BY <2>1, <4>4 DEF Serial!Settle
      <4> QED BY <4>3, <4>5 DEF Serial!Next, Serial!Calls
    <3> QED BY <3>2, <3>3
  <2> QED BY <2>2, <2>3
<1>10. ASSUME NEW k \in Calls, OnResponse(k) PROVE [Serial!Next]_Serial!vars
  <2>1. pending # None
    BY <1>10, <1>n DEF OnResponse, ResponseRefusal, Outcomes, ErrorCodes
  <2>2. pending \in Calls /\ outcome[pending] = "waiting"
    BY <2>1 DEF Held, WaitingIsHeld, InFlight, TypeOK
  <2>3. outcome' = [outcome EXCEPT ![pending] = "ok"]
    BY <1>10, <2>1 DEF OnResponse, Settle, TypeOK
  <2>4. Serial!SettleWith(pending, "ok") /\ "ok" \in Serial!Settling \ {"CANCELLED"}
    BY <1>10, <2>2, <2>3 DEF OnResponse, Serial!SettleWith, Serial!Settling
  <2>5. Serial!Settle(pending)
    BY <1>10, <2>4 DEF OnResponse, Serial!Settle
  <2> QED BY <2>2, <2>5 DEF Serial!Next, Serial!Calls
<1>11. ASSUME NEW k \in Calls, OnBadFrame(k) PROVE [Serial!Next]_Serial!vars
  <2> DEFINE frame == Head(stdout[k])
             code == IF ready THEN ResponseRefusal(frame) ELSE HelloRefusal(frame)
  <2>1. Fail(code) /\ code # None /\ UNCHANGED <<aborted, disposed>>
    BY <1>11 DEF OnBadFrame
  <2>2. code \in {"WORKER_PROTOCOL", "DEADLINE", "ROOT_CHANGED"}
    BY <2>1 DEF ResponseRefusal, HelloRefusal
  <2> HIDE DEF code
  <2> QED BY <1>s, <2>1, <2>2, FailRefines
<1>12. ASSUME NEW k \in Calls, SpawnError(k) PROVE [Serial!Next]_Serial!vars
  <2>1. UNCHANGED <<aborted, disposed, retiring>>
    BY <1>12 DEF SpawnError
  <2>2. CASE k = child
    BY <1>12, <1>s, <2>1, <2>2, SettleRefines DEF SpawnError
  <2>3. CASE k # child
    BY <1>12, <2>1, <2>3 DEF SpawnError, Serial!vars
  <2> QED BY <2>2, <2>3
<1>13. ASSUME NEW k \in Calls, StdinError(k) PROVE [Serial!Next]_Serial!vars
  BY <1>13, <1>s, FailRefines DEF StdinError
<1>14. ASSUME NEW k \in Calls, ChildClosed(k) PROVE [Serial!Next]_Serial!vars
  <2>1. UNCHANGED <<aborted, disposed>>
    BY <1>14 DEF ChildClosed
  <2>2. CASE k = child
    BY <1>14, <1>s, <2>1, <2>2, FailRefines DEF ChildClosed
  <2>3. CASE k # child
    <3>1. outcome' = outcome /\ (retiring' = retiring \/ retiring' = FALSE)
      BY <1>14, <2>3 DEF ChildClosed, TypeOK
    <3> QED BY <2>1, <3>1 DEF Serial!Next, Serial!Recover, Serial!vars
  <2> QED BY <2>2, <2>3
<1>15. ASSUME \/ \E c \in Calls : Tick(c)
              \/ \E k \in Calls : Exit(k) \/ ChildStep(k)
              \/ \E r \in Roots : ReplaceRoot(r)
              \/ UNCHANGED vars
       PROVE  UNCHANGED Serial!vars
  BY <1>15 DEF Tick, Exit, ChildStep, ChildHello, ChildServe, ChildFault, Die,
               ReplaceRoot, vars, client, callers, Serial!vars
<1> QED
  BY <1>1, <1>2, <1>3, <1>4, <1>5, <1>6, <1>7, <1>8, <1>9, <1>10, <1>11, <1>12, <1>13,
     <1>14, <1>15
  DEF Next, ApiCall, CallStep, ClientStep

\* However children, timers and aborts interleave, callers deal with a serial
\* server: one call at a time, refused only for a true reason, settled once.
THEOREM ImplementsSerial == Spec => ClientIsSerial
<1>1. Init => Serial!Init
  BY DEF Init, Serial!Init, Serial!Calls
<1>2. TypeOK /\ TypeOK' /\ Held /\ [Next]_vars => [Serial!Next]_Serial!vars
  BY StepRefines
<1>3. Init => Held
  BY HeldInit
<1>4. TypeOK /\ Held /\ [Next]_vars => Held'
  BY HeldNext
<1> QED BY <1>1, <1>2, <1>3, <1>4, TypeCorrect, PTL DEF Spec, ClientIsSerial, Serial!Spec
-----------------------------------------------------------------------------
(* Children that behave as run() does: what is in their pipes.             *)

\* A process that has not said hello has opened no root, and nothing was written
\* to it or by it.
SilentBeforeHello ==
    \A k \in Calls : proc[k] \in {"none", "starting"} =>
        procRoot[k] = None /\ stdin[k] = <<>> /\ stdout[k] = <<>>

\* The pipes of the current child hold its hello until that is accepted, and then
\* nothing but the request of the search in flight or the response to it; and
\* the worker is pinned to the directory of the hello it accepted.
StreamOK ==
    child # None =>
      \/ /\ ~ready /\ stdin[child] = <<>>
         /\ \/ stdout[child] = <<>>
            \/ procRoot[child] # None /\ stdout[child] = <<Hello(procRoot[child])>>
      \/ /\ ready /\ procRoot[child] # None /\ rootIdentity = procRoot[child]
         /\ \/ stdin[child] = <<>> /\ stdout[child] = <<>>
            \/ pending # None /\ stdin[child] = <<pending>> /\ stdout[child] = <<>>
            \/ /\ pending # None /\ stdin[child] = <<>>
               /\ stdout[child] = <<Response(pending)>>

Streams == SilentBeforeHello /\ StreamOK

\* Pipes of one frame.
LEMMA OneFrame ==
    ASSUME NEW x
    PROVE  /\ <<x>> # <<>> /\ Append(<<>>, x) = <<x>>
           /\ Head(<<x>>) = x /\ Tail(<<x>>) = <<>>
OBVIOUS

\* A step that abandons the child leaves no current stream.
LEMMA NoChildNoStream == ASSUME child' = None PROVE StreamOK'
BY DEF StreamOK

\* A step that leaves the current child, its pipes and its search alone, keeps the
\* stream.
LEMMA StreamUnchanged ==
    ASSUME StreamOK, UNCHANGED <<child, ready, pending, rootIdentity>>,
           child # None => /\ stdin'[child] = stdin[child]
                           /\ stdout'[child] = stdout[child]
                           /\ procRoot'[child] = procRoot[child]
    PROVE  StreamOK'
BY DEF StreamOK

\* Only a live child that says hello moves from silence, and only a ready one is
\* written to.
LEMMA SilentNext ==
    ASSUME TypeOK, Held, Owned, OneChild, Streams, faults' = 0, [Next]_vars
    PROVE  SilentBeforeHello'
<1>i. SilentBeforeHello /\ StreamOK
  BY DEF Streams
\* A process keeps its silence when nothing is written to it, or by it.
<1>q. ASSUME UNCHANGED <<proc, procRoot, stdin>>,
             \A k \in Calls : stdout'[k] = <<>> \/ stdout'[k] = stdout[k]
                              \/ proc[k] \notin {"none", "starting"}
      PROVE  SilentBeforeHello'
  BY <1>i, <1>q DEF SilentBeforeHello
\* A child the client writes to has said hello.
<1>w. ready /\ child # None => child \in Calls /\ proc[child] \notin {"none", "starting"}
  BY <1>i DEF StreamOK, SilentBeforeHello, TypeOK
<1>1. ASSUME NEW c \in Calls, Start(c), UNCHANGED <<procRoot, stdin, stdout>>,
             outcome[c] = "idle"
      PROVE  SilentBeforeHello'
  BY <1>i, <1>1 DEF Start, SilentBeforeHello, OneChild, TypeOK
<1>2. ASSUME NEW c \in Searches, Search(c) PROVE SilentBeforeHello'
  <2>1. CASE child = None
    BY <1>1, <1>2, <2>1 DEF Search
  <2>2. CASE child # None /\ ~ready
    BY <1>i, <1>2, <2>2 DEF Search, SilentBeforeHello
  <2>3. CASE child # None /\ ready
    <3>1. /\ \A k \in Calls : k # child => stdin'[k] = stdin[k]
          /\ UNCHANGED <<proc, procRoot, stdout>>
      BY <1>2, <1>w, <2>3 DEF Search, Write, TypeOK
    <3> QED BY <1>i, <1>w, <2>3, <3>1 DEF SilentBeforeHello
  <2> QED BY <2>1, <2>2, <2>3
<1>3. ASSUME NEW o \in Opens, Open(o) PROVE SilentBeforeHello'
  BY <1>1, <1>3 DEF Open
<1>4. ASSUME NEW k \in Calls, OnHello(k) PROVE SilentBeforeHello'
  <2>1. proc[k] \notin {"none", "starting"}
    BY <1>i, <1>4 DEF OnHello, SilentBeforeHello
  <2>2. \A l \in Calls : l # k => stdin'[l] = stdin[l] /\ stdout'[l] = stdout[l]
    BY <1>4 DEF OnHello, Write, TypeOK
  <2> QED BY <1>i, <1>4, <2>1, <2>2 DEF OnHello, SilentBeforeHello
<1>5. ASSUME NEW k \in Calls, OnResponse(k) \/ OnBadFrame(k) PROVE SilentBeforeHello'
  <2>1. proc[k] \notin {"none", "starting"}
    BY <1>i, <1>5 DEF OnResponse, OnBadFrame, SilentBeforeHello
  <2>2. \A l \in Calls : l # k => stdout'[l] = stdout[l]
    BY <1>5 DEF OnResponse, OnBadFrame, TypeOK
  <2> QED BY <1>5, <1>q, <2>1, <2>2 DEF OnResponse, OnBadFrame
<1>6. ASSUME NEW k \in Calls, Exit(k) \/ SpawnError(k) \/ ChildClosed(k) \/ Die(k)
      PROVE  SilentBeforeHello'
  <2>1. \A l \in Calls :
          /\ proc'[l] \in {"none", "starting"} => l # k /\ proc'[l] = proc[l]
          /\ l # k => stdin'[l] = stdin[l] /\ stdout'[l] = stdout[l]
    BY <1>6 DEF Exit, SpawnError, ChildClosed, Die, TypeOK
  <2>2. procRoot' = procRoot
    BY <1>6 DEF Exit, SpawnError, ChildClosed, Die
  <2> QED BY <1>i, <2>1, <2>2 DEF SilentBeforeHello
<1>7. ASSUME NEW k \in Calls, ChildHello(k) PROVE SilentBeforeHello'
  <2>1. \A l \in Calls :
          /\ proc'[l] \in {"none", "starting"} => l # k /\ proc'[l] = proc[l]
          /\ l # k => stdout'[l] = stdout[l] /\ procRoot'[l] = procRoot[l]
    BY <1>7 DEF ChildHello, Send, TypeOK
  <2> QED BY <1>i, <1>7, <2>1 DEF ChildHello, SilentBeforeHello
<1>8. ASSUME NEW k \in Calls, ChildServe(k) PROVE SilentBeforeHello'
  <2>1. \A l \in Calls : l # k => stdin'[l] = stdin[l] /\ stdout'[l] = stdout[l]
    BY <1>8 DEF ChildServe, Send, TypeOK
  <2> QED BY <1>i, <1>8, <2>1 DEF ChildServe, SilentBeforeHello
<1>9. ASSUME NEW k \in Calls, ChildFault(k) PROVE FALSE
  BY <1>9 DEF ChildFault, TypeOK
<1>10. ASSUME \/ \E o \in Opens : OpenAnswered(o)
              \/ \E c \in Searches : SearchRefused(c) \/ SearchTooLate(c)
              \/ Close
              \/ \E c \in Signals : Abort(c)
              \/ \E c \in Calls : CallStep(c)
              \/ \E k \in Calls : StdinError(k)
              \/ \E r \in Roots : ReplaceRoot(r)
              \/ UNCHANGED vars
       PROVE  SilentBeforeHello'
  <2>1. UNCHANGED <<proc, procRoot, stdin, stdout>>
    BY <1>10 DEF OpenAnswered, SearchRefused, SearchTooLate, Answer, Close, Abort,
                 CallStep, Timeout, Tick, StdinError, ReplaceRoot, vars, system
  <2> QED BY <1>i, <2>1 DEF SilentBeforeHello
<1> QED
  BY <1>2, <1>3, <1>4, <1>5, <1>6, <1>7, <1>8, <1>9, <1>10
  DEF Next, ApiCall, ClientStep, ChildStep
\* Whatever the client and its child do, the pipes of the current child stay those
\* of its hello, or of the search in flight.
LEMMA StreamNext ==
    ASSUME TypeOK, Held, OneChild, Streams, faults' = 0, [Next]_vars
    PROVE  StreamOK'
<1>i. SilentBeforeHello /\ StreamOK
  BY DEF Streams
<1>n. None \notin Outcomes
  BY OutcomesAssumption
<1>c. child # None => child \in Calls
  BY DEF TypeOK
<1>1. ASSUME NEW c \in Calls, Start(c), UNCHANGED <<stdin, stdout>>, outcome[c] = "idle"
      PROVE  StreamOK'
  <2>1. stdin[c] = <<>> /\ stdout[c] = <<>>
    BY <1>i, <1>1 DEF OneChild, SilentBeforeHello
  <2> QED BY <1>1, <2>1 DEF Start, StreamOK
<1>2. ASSUME NEW o \in Opens, Open(o) PROVE StreamOK'
  BY <1>1, <1>2 DEF Open
<1>3. ASSUME NEW c \in Searches, Search(c) PROVE StreamOK'
  <2>1. CASE child = None
    BY <1>1, <1>3, <2>1 DEF Search
  <2>2. CASE child # None /\ ~ready
    BY <1>i, <1>3, <2>2 DEF Search, StreamOK
  <2>3. CASE child # None /\ ready
    <3>1. pending = None /\ c # None
      BY <1>3, <1>n, CallsAssumption
      DEF Search, SearchRefusal, InFlight, Outcomes, ErrorCodes
    <3>2. stdin[child] = <<>> /\ stdout[child] = <<>>
      BY <1>i, <2>3, <3>1 DEF StreamOK
    <3>3. stdin'[child] = <<c>>
      BY <1>3, <1>c, <2>3, <3>2, OneFrame DEF Search, Write, TypeOK
    <3>4. UNCHANGED <<child, ready, procRoot, stdout, rootIdentity>> /\ pending' = c
      BY <1>3, <2>3 DEF Search
    <3> QED BY <1>i, <2>3, <3>1, <3>2, <3>3, <3>4 DEF StreamOK
  <2> QED BY <2>1, <2>2, <2>3
<1>4. ASSUME NEW k \in Calls, OnHello(k) PROVE StreamOK'
  <2>1. child = k /\ k # None /\ ~ready /\ stdout[k] # <<>>
    BY <1>4, CallsAssumption DEF OnHello
  <2>2. stdin[k] = <<>> /\ procRoot[k] # None /\ stdout[k] = <<Hello(procRoot[k])>>
    BY <1>i, <2>1 DEF StreamOK
  <2>3. stdout'[k] = <<>> /\ rootIdentity' = procRoot[k] /\ procRoot' = procRoot
    BY <1>4, <2>2, OneFrame DEF OnHello, Hello, TypeOK
  <2>4. CASE pending # None /\ clock[pending] >= 1
    BY <1>4, <2>4, NoChildNoStream DEF OnHello, Abandon
  <2>5. CASE ~(pending # None /\ clock[pending] >= 1)
    <3>1. /\ child' = k /\ ready' = TRUE /\ pending' = pending
          /\ IF pending # None THEN Write(k, pending) ELSE UNCHANGED stdin
      BY <1>4, <2>1, <2>5 DEF OnHello
    <3>2. pending # None => stdin'[k] = <<pending>>
      BY <2>2, <3>1, OneFrame DEF Write, TypeOK
    <3>3. pending = None => stdin'[k] = <<>>
      BY <2>2, <3>1
    <3> QED BY <2>2, <2>3, <3>1, <3>2, <3>3 DEF StreamOK
  <2> QED BY <2>4, <2>5
<1>5. ASSUME NEW k \in Calls, OnResponse(k) PROVE StreamOK'
  <2>1. child = k /\ k # None /\ ready /\ stdout[k] # <<>>
    BY <1>5, CallsAssumption DEF OnResponse
  <2>2. /\ procRoot[k] # None /\ rootIdentity = procRoot[k]
        /\ stdin[k] = <<>> /\ stdout[k] = <<Response(pending)>>
    BY <1>i, <2>1 DEF StreamOK
  <2>3. stdout'[k] = <<>>
    BY <1>5, <2>2, OneFrame DEF OnResponse, TypeOK
  <2>4. UNCHANGED <<child, ready, procRoot, stdin, rootIdentity>>
    BY <1>5 DEF OnResponse
  <2> QED BY <2>1, <2>2, <2>3, <2>4 DEF StreamOK
<1>6. ASSUME NEW k \in Calls, Exit(k) PROVE StreamOK'
  <2>1. UNCHANGED <<child, ready, pending, rootIdentity, procRoot, stdout>>
    BY <1>6 DEF Exit, client
  <2>2. \A l \in Calls : stdin'[l] = stdin[l] \/ stdin'[l] = <<>>
    BY <1>6 DEF Exit, TypeOK
  <2> QED BY <1>i, <1>c, <2>1, <2>2 DEF StreamOK
<1>7. ASSUME NEW k \in Calls, SpawnError(k) PROVE StreamOK'
  <2>1. CASE k = child
    BY <1>7, <2>1, NoChildNoStream DEF SpawnError
  <2>2. CASE k # child
    BY <1>i, <1>7, <2>2, StreamUnchanged DEF SpawnError
  <2> QED BY <2>1, <2>2
<1>8. ASSUME NEW k \in Calls, ChildClosed(k) PROVE StreamOK'
  <2>1. CASE k = child
    BY <1>8, <2>1, NoChildNoStream DEF ChildClosed, Fail, Abandon
  <2>2. CASE k # child
    <3>1. UNCHANGED <<child, ready, pending, rootIdentity, procRoot>>
      BY <1>8, <2>2 DEF ChildClosed
    <3>2. \A l \in Calls : l # k => stdin'[l] = stdin[l] /\ stdout'[l] = stdout[l]
      BY <1>8 DEF ChildClosed, TypeOK
    <3> QED BY <1>i, <1>c, <2>2, <3>1, <3>2, StreamUnchanged
  <2> QED BY <2>1, <2>2
<1>9. ASSUME NEW k \in Calls, ChildHello(k) PROVE StreamOK'
  <2>1. UNCHANGED <<child, ready, pending, rootIdentity, stdin>>
    BY <1>9 DEF ChildHello, client
  <2>2. \A l \in Calls : l # k => procRoot'[l] = procRoot[l] /\ stdout'[l] = stdout[l]
    BY <1>9 DEF ChildHello, Send, TypeOK
  <2>3. CASE k = child
    <3>1. k # None /\ proc[k] = "starting"
      BY <1>9, CallsAssumption DEF ChildHello
    <3>2. procRoot[k] = None /\ stdin[k] = <<>> /\ stdout[k] = <<>>
      BY <1>i, <3>1 DEF SilentBeforeHello
    <3>3. ~ready
      BY <1>i, <2>3, <3>1, <3>2 DEF StreamOK
    <3>4. procRoot'[k] = rootAt /\ rootAt # None /\ stdout'[k] = <<Hello(rootAt)>>
      BY <1>9, <3>2, OneFrame, CallsAssumption DEF ChildHello, Send, TypeOK
    <3> QED BY <2>1, <2>3, <3>2, <3>3, <3>4 DEF StreamOK
  <2>4. CASE k # child
    BY <1>i, <1>c, <2>1, <2>2, <2>4, StreamUnchanged
  <2> QED BY <2>3, <2>4
<1>10. ASSUME NEW k \in Calls, ChildServe(k) PROVE StreamOK'
  <2>1. UNCHANGED <<child, ready, pending, rootIdentity, procRoot>>
    BY <1>10 DEF ChildServe, client
  <2>2. \A l \in Calls : l # k => stdin'[l] = stdin[l] /\ stdout'[l] = stdout[l]
    BY <1>10 DEF ChildServe, Send, TypeOK
  <2>3. CASE k = child
    <3>1. k # None /\ stdin[k] # <<>>
      BY <1>10, CallsAssumption DEF ChildServe
    <3>2. /\ ready /\ procRoot[k] # None /\ rootIdentity = procRoot[k]
          /\ pending # None /\ stdin[k] = <<pending>> /\ stdout[k] = <<>>
      BY <1>i, <2>3, <3>1 DEF StreamOK
    <3>3. stdin'[k] = <<>> /\ stdout'[k] = <<Response(pending)>>
      BY <1>10, <3>2, OneFrame DEF ChildServe, Send, TypeOK
    <3> QED BY <2>1, <2>3, <3>2, <3>3 DEF StreamOK
  <2>4. CASE k # child
    BY <1>i, <1>c, <2>1, <2>2, <2>4, StreamUnchanged
  <2> QED BY <2>3, <2>4
<1>11. ASSUME NEW k \in Calls, ChildFault(k) PROVE FALSE
  BY <1>11 DEF ChildFault, TypeOK
<1>12. ASSUME \/ \E c \in Searches : SearchTooLate(c)
              \/ Close
              \/ \E c \in Calls : Timeout(c)
              \/ \E c \in Signals : Abort(c) /\ c \in listeners
              \/ \E k \in Calls : OnBadFrame(k) \/ StdinError(k)
       PROVE  StreamOK'
  <2>1. child' = None
    BY <1>12 DEF SearchTooLate, Close, Timeout, Abort, OnBadFrame, StdinError, Fail,
                 Abandon
  <2> QED BY <2>1, NoChildNoStream
<1>13. ASSUME \/ \E o \in Opens : OpenAnswered(o)
              \/ \E c \in Searches : SearchRefused(c)
              \/ \E c \in Signals : Abort(c) /\ c \notin listeners
              \/ \E c \in Calls : Tick(c)
              \/ \E k \in Calls : Die(k)
              \/ \E r \in Roots : ReplaceRoot(r)
              \/ UNCHANGED vars
       PROVE  StreamOK'
  <2>1. UNCHANGED <<child, ready, pending, rootIdentity, procRoot, stdin, stdout>>
    BY <1>13 DEF OpenAnswered, SearchRefused, Answer, Abort, Tick, Die, ReplaceRoot, vars,
                 client, system
  <2> QED BY <1>i, <2>1 DEF StreamOK
<1> QED
  BY <1>2, <1>3, <1>4, <1>5, <1>6, <1>7, <1>8, <1>9, <1>10, <1>11, <1>12, <1>13
  DEF Next, ApiCall, CallStep, ClientStep, ChildStep

\* A worker that was just constructed has said and been told nothing.
LEMMA StreamsInit == Init => Streams
BY DEF Init, Streams, SilentBeforeHello, StreamOK

\* One frame at most is under way, and it belongs to the search in flight.
LEMMA StreamIsPendings ==
    ASSUME TypeOK, Streams
    PROVE  CurrentStreamIsPendings
<1>1. SUFFICES ASSUME child # None
               PROVE  /\ \A i \in 1 .. Len(stdin[child]) : stdin[child][i] = pending
                      /\ \A i \in 1 .. Len(stdout[child]) :
                           LET frame == stdout[child][i] IN
                             IF ready THEN frame = Response(pending)
                                      ELSE frame.type = "ready"
                      /\ Len(stdin[child]) + Len(stdout[child]) <= 1
  BY DEF CurrentStreamIsPendings
<1>2. StreamOK
  BY DEF Streams
<1>3. \A x : Len(<<x>>) = 1 /\ <<x>>[1] = x /\ \A i \in 1 .. Len(<<x>>) : <<x>>[i] = x
  OBVIOUS
<1>4. Len(<<>>) = 0 /\ 1 .. 0 = {}
  OBVIOUS
<1>5. CASE ~ready
  <2>1. stdin[child] = <<>>
    BY <1>1, <1>2, <1>5 DEF StreamOK
  <2>2. CASE stdout[child] = <<>>
    BY <1>4, <1>5, <2>1, <2>2
  <2>3. CASE stdout[child] = <<Hello(procRoot[child])>>
    BY <1>3, <1>4, <1>5, <2>1, <2>3 DEF Hello
  <2> QED BY <1>1, <1>2, <1>5, <2>2, <2>3 DEF StreamOK
<1>6. CASE ready
  <2>1. CASE stdin[child] = <<>> /\ stdout[child] = <<>>
    BY <1>4, <2>1
  <2>2. CASE stdin[child] = <<pending>> /\ stdout[child] = <<>>
    BY <1>3, <1>4, <2>2
  <2>3. CASE stdin[child] = <<>> /\ stdout[child] = <<Response(pending)>>
    BY <1>3, <1>4, <1>6, <2>3
  <2> QED BY <1>1, <1>2, <1>6, <2>1, <2>2, <2>3 DEF StreamOK
<1> QED BY <1>5, <1>6
\* The frames a child should not have sent are never forgotten.
LEMMA FaultsStay ==
    ASSUME TypeOK, [Next]_vars
    PROVE  faults' = 0 => faults = 0
<1>1. ASSUME NEW k \in Calls, ChildFault(k) PROVE faults' # 0
  BY <1>1 DEF ChildFault, TypeOK
<1>2. ASSUME ~ \E k \in Calls : ChildFault(k) PROVE faults' = faults
  <2>1. CASE ApiCall
    BY <2>1 DEF ApiCall, OpenAnswered, Answer, Open, SearchRefused, Search, SearchTooLate,
                Close, system
  <2>2. CASE \E c \in Signals : Abort(c)
    BY <2>2 DEF Abort
  <2>3. CASE \E c \in Calls : CallStep(c)
    BY <2>3 DEF CallStep, Timeout, Tick, system
  <2>4. CASE \E k \in Calls : ClientStep(k)
    BY <2>4 DEF ClientStep, OnHello, OnResponse, OnBadFrame, Exit, SpawnError, StdinError,
                ChildClosed
  <2>5. CASE \E k \in Calls : ChildStep(k)
    BY <1>2, <2>5 DEF ChildStep, ChildHello, ChildServe, Die
  <2>6. CASE \E r \in Roots : ReplaceRoot(r)
    BY <2>6 DEF ReplaceRoot
  <2>7. CASE UNCHANGED vars
    BY <2>7 DEF vars, system
  <2> QED BY <2>1, <2>2, <2>3, <2>4, <2>5, <2>6, <2>7 DEF Next
<1> QED BY <1>1, <1>2

\* As long as the children sent only what run() sends, nothing a cancelled, failed or
\* earlier search left in the pipes of the current child survives it.
THEOREM CurrentStreamIsClean == Spec => [](faults = 0 => CurrentStreamIsPendings)
<1> DEFINE Honest == faults = 0 => Streams
<1>1. Init => TypeOK /\ Held /\ Owned /\ OneChild /\ Honest
  BY TypeInit, HeldInit, OwnedInit, OneChildInit, StreamsInit
<1>2. TypeOK /\ Held /\ Owned /\ OneChild /\ Honest /\ [Next]_vars
        => TypeOK' /\ Held' /\ Owned' /\ OneChild' /\ Honest'
  BY TypeNext, HeldNext, OwnedNext, OneChildNext, SilentNext, StreamNext, FaultsStay
  DEF Streams
<1>3. TypeOK /\ Honest => (faults = 0 => CurrentStreamIsPendings)
  BY StreamIsPendings
<1> HIDE DEF Honest
<1> QED BY <1>1, <1>2, <1>3, PTL DEF Spec

\* Every search that was answered, was by a process that had opened the directory
\* the worker is pinned to.
PinnedAnswers ==
    \A c \in Searches : outcome[c] = "ok" =>
        /\ answeredBy[c] \in Calls /\ rootIdentity # None
        /\ procRoot[answeredBy[c]] = rootIdentity

\* Only OnResponse answers a search, and it records the child.
LEMMA WhoAnswers ==
    ASSUME TypeOK, Held, [Next]_vars
    PROVE  \/ \E k \in Calls : OnResponse(k)
           \/ /\ answeredBy' = answeredBy
              /\ \A c \in Searches : outcome'[c] = "ok" => outcome[c] = "ok"
<1>1. ASSUME NEW code \in ErrorCodes, Fail(code)
      PROVE  \A c \in Searches : outcome'[c] = "ok" => outcome[c] = "ok"
  BY <1>1 DEF Fail, Settle, ErrorCodes
<1>2. ASSUME NEW o \in Opens, OpenAnswered(o) \/ Open(o)
      PROVE  /\ answeredBy' = answeredBy
             /\ \A c \in Searches : outcome'[c] = "ok" => outcome[c] = "ok"
  <2>1. \A c \in Searches : outcome'[c] = outcome[c]
    BY <1>2, CallsAssumption DEF OpenAnswered, Answer, Open, TypeOK
  <2> QED BY <1>2, <2>1 DEF OpenAnswered, Answer, Open
<1>3. ASSUME NEW c \in Searches, SearchRefused(c)
      PROVE  /\ answeredBy' = answeredBy
             /\ \A d \in Searches : outcome'[d] = "ok" => outcome[d] = "ok"
  <2>1. PICK code \in ErrorCodes \cup {None} : Answer(c, code) /\ code # None
    BY <1>3, OutcomesAssumption DEF SearchRefused, SearchRefusal, ErrorCodes, Outcomes
  <2>2. code # "ok"
    BY <2>1 DEF ErrorCodes
  <2> QED BY <2>1, <2>2 DEF Answer, TypeOK
<1>4. ASSUME NEW c \in Searches, Search(c)
      PROVE  /\ answeredBy' = answeredBy
             /\ \A d \in Searches : outcome'[d] = "ok" => outcome[d] = "ok"
  BY <1>4 DEF Search, TypeOK
<1>5. ASSUME NEW c \in Searches, SearchTooLate(c)
      PROVE  /\ answeredBy' = answeredBy
             /\ \A d \in Searches : outcome'[d] = "ok" => outcome[d] = "ok"
  BY <1>5 DEF SearchTooLate, Settle, TypeOK
<1>6. ASSUME NEW k \in Calls, OnHello(k)
      PROVE  /\ answeredBy' = answeredBy
             /\ \A d \in Searches : outcome'[d] = "ok" => outcome[d] = "ok"
  <2>1. opening \notin Searches
    BY CallsAssumption DEF TypeOK
  <2>2. answeredBy' = answeredBy
    BY <1>6 DEF OnHello
  <2>3. \/ Settle({opening} \ {None}, {pending}, "DEADLINE")
        \/ Settle({opening} \ {None}, {}, None)
    BY <1>6 DEF OnHello
  <2>4. ASSUME NEW d \in Searches, outcome'[d] = "ok" PROVE outcome[d] = "ok"
    BY <2>1, <2>3, <2>4 DEF Settle
  <2> QED BY <2>2, <2>4
<1>7. ASSUME NEW k \in Calls, OnBadFrame(k)
      PROVE  /\ answeredBy' = answeredBy
             /\ \A d \in Searches : outcome'[d] = "ok" => outcome[d] = "ok"
  <2> DEFINE frame == Head(stdout[k])
             code == IF ready THEN ResponseRefusal(frame) ELSE HelloRefusal(frame)
  <2>1. Fail(code) /\ code # None /\ answeredBy' = answeredBy
    BY <1>7 DEF OnBadFrame
  <2>2. code \in ErrorCodes
    BY <2>1 DEF ResponseRefusal, HelloRefusal, ErrorCodes
  <2> HIDE DEF code
  <2> QED BY <1>1, <2>1, <2>2
<1>8. ASSUME NEW k \in Calls, SpawnError(k)
      PROVE  /\ answeredBy' = answeredBy
             /\ \A d \in Searches : outcome'[d] = "ok" => outcome[d] = "ok"
  BY <1>8 DEF SpawnError, Settle
<1>9. ASSUME \/ Close
             \/ \E c \in Calls : Timeout(c)
             \/ \E c \in Signals : Abort(c)
             \/ \E k \in Calls : StdinError(k) \/ ChildClosed(k)
      PROVE  /\ answeredBy' = answeredBy
             /\ \A d \in Searches : outcome'[d] = "ok" => outcome[d] = "ok"
  <2>1. \/ \E code \in ErrorCodes : Fail(code)
        \/ outcome' = outcome
    BY <1>9 DEF Close, Timeout, Abort, StdinError, ChildClosed, ErrorCodes
  <2>2. answeredBy' = answeredBy
    BY <1>9 DEF Close, Timeout, Abort, StdinError, ChildClosed
  <2> QED BY <1>1, <2>1, <2>2
<1>10. ASSUME \/ \E c \in Calls : Tick(c)
              \/ \E k \in Calls : Exit(k) \/ ChildStep(k)
              \/ \E r \in Roots : ReplaceRoot(r)
              \/ UNCHANGED vars
       PROVE  UNCHANGED <<answeredBy, outcome>>
  BY <1>10 DEF Tick, Exit, ChildStep, ChildHello, ChildServe, ChildFault, Die,
               ReplaceRoot, vars, callers
<1> QED
  BY <1>2, <1>3, <1>4, <1>5, <1>6, <1>7, <1>8, <1>9, <1>10
  DEF Next, ApiCall, CallStep, ClientStep

\* A process opens its root once, before it says hello.
LEMMA RootOpenedOnce ==
    ASSUME TypeOK, Streams, [Next]_vars
    PROVE  \A k \in Calls : procRoot[k] # None => procRoot'[k] = procRoot[k]
<1>1. ASSUME NEW k \in Calls, ChildHello(k)
      PROVE  \A l \in Calls : procRoot[l] # None => procRoot'[l] = procRoot[l]
  <2>1. procRoot[k] = None
    BY <1>1 DEF ChildHello, Streams, SilentBeforeHello
  <2> QED BY <1>1, <2>1 DEF ChildHello, TypeOK
<1>2. ASSUME ~ \E k \in Calls : ChildHello(k)
      PROVE  procRoot' = procRoot
  <2>1. CASE ApiCall
    BY <2>1 DEF ApiCall, OpenAnswered, Answer, Open, SearchRefused, Search, SearchTooLate,
                Close, system
  <2>2. CASE \E c \in Signals : Abort(c)
    BY <2>2 DEF Abort
  <2>3. CASE \E c \in Calls : CallStep(c)
    BY <2>3 DEF CallStep, Timeout, Tick, system
  <2>4. CASE \E k \in Calls : ClientStep(k)
    BY <2>4 DEF ClientStep, OnHello, OnResponse, OnBadFrame, Exit, SpawnError, StdinError,
                ChildClosed
  <2>5. CASE \E k \in Calls : ChildStep(k)
    BY <1>2, <2>5 DEF ChildStep, ChildServe, ChildFault, Die
  <2>6. CASE \E r \in Roots : ReplaceRoot(r)
    BY <2>6 DEF ReplaceRoot
  <2>7. CASE UNCHANGED vars
    BY <2>7 DEF vars, system
  <2> QED BY <2>1, <2>2, <2>3, <2>4, <2>5, <2>6, <2>7 DEF Next
<1> QED BY <1>1, <1>2

\* The response in the pipe is that of a child pinned to the worker's directory.
LEMMA PinnedAnswersNext ==
    ASSUME TypeOK, Held, Streams, PinnedAnswers, [Next]_vars,
           rootIdentity # None => rootIdentity' = rootIdentity
    PROVE  PinnedAnswers'
<1>r. \A k \in Calls : procRoot[k] # None => procRoot'[k] = procRoot[k]
  BY RootOpenedOnce
<1>1. ASSUME NEW k \in Calls, OnResponse(k) PROVE PinnedAnswers'
  <2>1. child = k /\ k # None /\ ready /\ stdout[k] # <<>>
    BY <1>1, CallsAssumption DEF OnResponse
  <2>2. procRoot[k] # None /\ rootIdentity = procRoot[k] /\ pending # None
    BY <2>1 DEF Streams, StreamOK
  <2>3. rootIdentity' = rootIdentity /\ procRoot' = procRoot
    BY <1>1 DEF OnResponse
  <2>4. pending \in Searches
    BY <2>2 DEF TypeOK
  <2>5. answeredBy' = [answeredBy EXCEPT ![pending] = k]
    BY <1>1 DEF OnResponse
  <2>6. ASSUME NEW c \in Searches, outcome'[c] = "ok", c # pending
        PROVE  outcome[c] = "ok" /\ answeredBy'[c] = answeredBy[c]
    BY <1>1, <2>6 DEF OnResponse, Settle, TypeOK
  <2>7. answeredBy'[pending] = k
    BY <2>4, <2>5 DEF TypeOK
  <2> QED BY <2>2, <2>3, <2>6, <2>7 DEF PinnedAnswers
<1>2. ASSUME answeredBy' = answeredBy,
             \A c \in Searches : outcome'[c] = "ok" => outcome[c] = "ok"
      PROVE  PinnedAnswers'
  BY <1>2, <1>r DEF PinnedAnswers
<1> QED BY <1>1, <1>2, WhoAnswers

\* As long as the children sent only what run() sends, a search is answered from the
\* directory the worker is pinned to, whatever kills, restarts and replacements of
\* the root came between.
THEOREM AnswersComeFromPinnedRoot == Spec => [](faults = 0 => AnsweredFromPinnedRoot)
<1> DEFINE Honest == faults = 0 => Streams /\ PinnedAnswers
<1>1. Init => TypeOK /\ Held /\ Owned /\ OneChild /\ Honest
  BY TypeInit, HeldInit, OwnedInit, OneChildInit, StreamsInit DEF Init, PinnedAnswers
<1>2. TypeOK /\ Held /\ Owned /\ OneChild /\ [Next]_vars
        => TypeOK' /\ Held' /\ Owned' /\ OneChild'
  BY TypeNext, HeldNext, OwnedNext, OneChildNext
<1>3. /\ TypeOK /\ Held /\ Owned /\ OneChild /\ Honest /\ [Next]_vars
      /\ [rootIdentity # None => rootIdentity' = rootIdentity]_rootIdentity
      => Honest'
  BY SilentNext, StreamNext, PinnedAnswersNext, FaultsStay DEF Streams
<1>4. TypeOK /\ Honest => (faults = 0 => AnsweredFromPinnedRoot)
  BY CallsAssumption DEF PinnedAnswers, AnsweredFromPinnedRoot
<1> HIDE DEF Honest
<1> QED BY <1>1, <1>2, <1>3, <1>4, RootStaysPinned, PTL DEF Spec, RootPinned
=============================================================================
