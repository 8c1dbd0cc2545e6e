---------------------------- MODULE SerialWorker ----------------------------
(***************************************************************************)
(* What NativeWorker promises its callers, without children, pipes or      *)
(* timers: a server of one call at a time that refuses instead of queueing *)
(* (docs/adr/0003: "Each owns one serial worker; concurrent searches fail  *)
(* explicitly rather than queue without a budget"), settles every call it  *)
(* accepts once, names a true reason when it refuses, is unavailable only  *)
(* after an interruption, and accepts nothing once it is closed.           *)
(* WorkerClient implements it: see ClientIsSerial there.                   *)
(***************************************************************************)
CONSTANTS Searches, Opens

VARIABLES
    outcome,      \* per call: "idle", "waiting", "ok" or an error code
    aborted,      \* searches whose signal has been aborted
    restarting,   \* an interrupted worker is not usable yet
    closed

vars == <<outcome, aborted, restarting, closed>>

Calls == Searches \cup Opens

Waiting == {c \in Calls : outcome[c] = "waiting"}
Settling == {"ok", "CANCELLED", "DEADLINE", "WORKER_EXIT", "WORKER_PROTOCOL",
             "ROOT_CHANGED"}

Init ==
    /\ outcome = [c \in Calls |-> "idle"]
    /\ aborted = {}
    /\ restarting = FALSE /\ closed = FALSE

\* The reasons a call may be refused for, each one true at that moment.
Refusals(c) ==
    {code \in {"WORKER_CLOSED", "WORKER_BUSY", "WORKER_RESTARTING",
               "CANCELLED", "INVALID_REQUEST"} :
        /\ code = "WORKER_CLOSED" <=> closed
        /\ code = "WORKER_BUSY" => Waiting # {}
        /\ code = "WORKER_RESTARTING" => restarting
        /\ code = "CANCELLED" => c \in aborted
        /\ code = "INVALID_REQUEST" => c \in Searches}

Refuse(c) ==
    /\ outcome[c] = "idle"
    /\ \E code \in Refusals(c) : outcome' = [outcome EXCEPT ![c] = code]
    /\ UNCHANGED <<aborted, restarting, closed>>

Accept(c) ==
    /\ outcome[c] = "idle"
    /\ ~closed /\ ~restarting /\ Waiting = {}
    /\ outcome' = [outcome EXCEPT ![c] = "waiting"]
    /\ UNCHANGED <<aborted, restarting, closed>>

\* open() of a worker that is up already, even while a search is in flight.
AlreadyOpen(o) ==
    /\ outcome[o] = "idle" /\ ~closed
    /\ outcome' = [outcome EXCEPT ![o] = "ok"]
    /\ UNCHANGED <<aborted, restarting, closed>>

\* A search whose deadline is too short to be sent at all.
ExpireAtOnce(c) ==
    /\ outcome[c] = "idle"
    /\ ~closed /\ ~restarting /\ Waiting = {}
    /\ outcome' = [outcome EXCEPT ![c] = "DEADLINE"]
    /\ restarting' \in BOOLEAN
    /\ UNCHANGED <<aborted, closed>>

\* The call in flight settles; the worker restarts only when it failed.
SettleWith(c, code) ==
    /\ outcome[c] = "waiting"
    /\ code = "CANCELLED" => c \in aborted'
    /\ outcome' = [outcome EXCEPT ![c] = code]
    /\ restarting' \in (IF code = "ok" THEN {restarting} ELSE {restarting, TRUE})
    /\ UNCHANGED closed

Settle(c) ==
    \E code \in Settling \ {"CANCELLED"} :
        SettleWith(c, code) /\ UNCHANGED aborted

\* The caller aborts a signal: at most its own search is cancelled by it.
Abort(c) ==
    /\ aborted' = aborted \cup {c}
    /\ \/ SettleWith(c, "CANCELLED")
       \/ UNCHANGED <<outcome, restarting, closed>>

\* The worker dies while nothing is in flight, or is usable again.
Interrupt ==
    /\ Waiting = {}
    /\ restarting' = TRUE
    /\ UNCHANGED <<outcome, aborted, closed>>

Recover ==
    /\ restarting' = FALSE
    /\ UNCHANGED <<outcome, aborted, closed>>

Close ==
    /\ closed' = TRUE
    /\ outcome' = [c \in Calls |-> IF c \in Waiting THEN "WORKER_CLOSED"
                                   ELSE outcome[c]]
    /\ restarting' \in {restarting, TRUE}
    /\ UNCHANGED aborted

Next == \/ \E c \in Searches : ExpireAtOnce(c) \/ Abort(c)
        \/ \E c \in Calls : Refuse(c) \/ Accept(c) \/ Settle(c)
        \/ \E o \in Opens : AlreadyOpen(o)
        \/ Interrupt \/ Recover \/ Close

Spec == Init /\ [][Next]_vars
=============================================================================
