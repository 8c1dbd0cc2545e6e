---------------------------- MODULE ExactService ----------------------------
(***************************************************************************)
(* ExactService.execute of src/src/service/exact.ts: one request, from its *)
(* validation to its answer.  The code awaits once, in registry.search();  *)
(* before and after it runs to completion, so that only the clock moves    *)
(* under it, while during the await the caller can abort as well.          *)
(*                                                                         *)
(* A response is its matches, its issues, its coverage and how many bytes  *)
(* it takes: bytes[n] for the first n matches, more for each match.        *)
(***************************************************************************)
EXTENDS Integers

CONSTANTS
    MaxMatches,  \* maxMatches of the request
    Ms,          \* moments of the clock per millisecond
    Deadlines,   \* deadlineMs of requests and of the deployment
    Budgets,     \* responseBytes of requests and of the deployment
    Mark,        \* bytes of a BYTE_LIMIT issue and a 'limit' coverage
    Reasons,     \* reasons a worker's answer may give
    Thrown,      \* codes registry.search() may reject with
    Sizes,       \* for every number of matches, the bytes they may take
    Horizon,     \* bound: the clock stops here
    None

\* The reasons search() of the worker gives with status ok, and the codes with
\* which registry.search() rejects.
WorkerReasons == {"READ_FAILED", "SOURCE_MUTATED", "DEADLINE", "LIMIT_REACHED",
                  "BYTE_LIMIT", "ENTRY_LIMIT", "DEPTH_LIMIT", "POLICY_CHANGED"}
WorkerErrors == WorkerReasons \cup {"INVALID_REQUEST", "REGEX_INVALID",
                  "MATCH_ENCODING", "OUT_OF_SCOPE", "REVISION_MISMATCH"}
Rejections == {"INVALID_REQUEST", "OUT_OF_SCOPE", "REGISTRY_CLOSED", "CANCELLED",
               "DEADLINE", "WORKER_EXIT", "WORKER_PROTOCOL", "WORKER_BUSY",
               "WORKER_CLOSED", "WORKER_RESTARTING", "ROOT_CHANGED", "OTHER"}

\* The sizes of a response with its first 0, 1 ... n matches: each takes a byte
\* at least.
Growing(b) == \E n \in 0 .. MaxMatches :
    /\ b \in [0 .. n -> Nat]
    /\ \A i, j \in 0 .. n : i < j => b[i] < b[j]

ASSUME ServiceAssumption ==
    /\ MaxMatches \in Nat /\ Ms \in Nat \ {0} /\ Horizon \in Nat /\ Mark \in Nat
    /\ Deadlines \subseteq Nat \ {0} /\ Budgets \subseteq Nat
    /\ Reasons \subseteq WorkerReasons /\ Thrown \subseteq Rejections

ASSUME SizesAssumption == \A b \in Sizes : Growing(b)

VARIABLES
    pc,        \* where execute() is
    request,   \* operation, deadlineMs and responseBytes of the request
    caps,      \* #caps
    clock,     \* performance.now() - started
    aborted,   \* options.signal.aborted
    answer,    \* what registry.search() settled with
    issues,    \* response.issues, by code
    partial,   \* the reasons of a partial coverage; {} is complete
    kept,      \* matches in the response
    low, high, \* the bounds of the trimming search
    outcome    \* what execute() returned

response == <<issues, partial, kept, low, high>>
vars == <<pc, request, caps, clock, aborted, answer, response, outcome>>

-----------------------------------------------------------------------------
(* Codes, reasons and sizes.                                               *)

IssueCodePassesUnknown(code) ==
    CASE code = "REGEX_INVALID" -> "INVALID_REQUEST"
      [] code = "MATCH_ENCODING" -> "CAPABILITY_UNAVAILABLE"
      [] code \in {"ENTRY_LIMIT", "DEPTH_LIMIT"} -> "LIMIT_REACHED"
      [] OTHER -> code
IssueCodeForgetsEntries(code) ==
    CASE code = "REGEX_INVALID" -> "INVALID_REQUEST"
      [] code = "MATCH_ENCODING" -> "CAPABILITY_UNAVAILABLE"
      [] code = "DEPTH_LIMIT" -> "LIMIT_REACHED"
      [] code \in {"ENTRY_LIMIT", "WORKER_EXIT", "WORKER_PROTOCOL", "WORKER_BUSY",
                   "WORKER_CLOSED", "WORKER_RESTARTING", "ROOT_CHANGED",
                   "REGISTRY_CLOSED", "OTHER"} -> "UNAVAILABLE"
      [] OTHER -> code
\* issue(): the public code of an internal one.
IssueCode(code) ==
    CASE code = "REGEX_INVALID" -> "INVALID_REQUEST"
      [] code = "MATCH_ENCODING" -> "CAPABILITY_UNAVAILABLE"
      [] code \in {"ENTRY_LIMIT", "DEPTH_LIMIT"} -> "LIMIT_REACHED"
      [] code \in {"WORKER_EXIT", "WORKER_PROTOCOL", "WORKER_BUSY", "WORKER_CLOSED",
                   "WORKER_RESTARTING", "ROOT_CHANGED", "REGISTRY_CLOSED", "OTHER"}
           -> "UNAVAILABLE"
      [] OTHER -> code

Issues(codes) == {IssueCode(c) : c \in codes}

\* reasons: the coverage reason of a public code; a reason bears its code here
\* except 'limit', which two codes share.
ReasonOf(code) ==
    CASE code \in {"LIMIT_REACHED", "BYTE_LIMIT"} -> {"limit"}
      [] code \in {"CANCELLED", "READ_FAILED", "DEADLINE", "POLICY_CHANGED",
                   "SOURCE_MUTATED"} -> {code}
      [] OTHER -> {}

PartialReasons(codes) == UNION {ReasonOf(c) : c \in codes}

Least(a, b) == IF a <= b THEN a ELSE b
DeadlineMs == Least(request.deadlineMs, caps.deadlineMs)
ResponseBytes == Least(request.responseBytes, caps.responseBytes)
\* performance.now() - started >= context.deadlineMs
Late == clock >= Ms * DeadlineMs

Matches == CHOOSE n \in 0 .. MaxMatches : DOMAIN answer.bytes = 0 .. n
\* Bytes of the response with its first n matches; trimming adds an issue.
Size(n) == answer.bytes[n] +
    IF "BYTE_LIMIT" \in issues /\ "BYTE_LIMIT" \notin Issues(answer.reasons)
    THEN Mark ELSE 0
FitsNarrowly(n) == Size(n) < ResponseBytes
Fits(n) == Size(n) <= ResponseBytes

\* What parseResponse() requires of a response with status ok: no fatal issue,
\* a partial coverage backed by issues, a complete one contradicted by none.
ContractHolds ==
    /\ issues \cap {"INVALID_REQUEST", "UNSUPPORTED_VERSION"} = {}
    /\ request.operation = "exact" =>
         /\ \A reason \in partial : \E c \in issues : reason \in
              (IF c \in {"LIMIT_REACHED", "BYTE_LIMIT"} THEN {"limit"} ELSE {c})
         /\ partial = {} =>
              /\ issues \cap {"READ_FAILED", "SOURCE_MUTATED", "POLICY_CHANGED",
                              "LIMIT_REACHED", "BYTE_LIMIT", "CANCELLED",
                              "DEADLINE"} = {}
              /\ ~answer.failed

-----------------------------------------------------------------------------
Contexts == [deadlineMs : Deadlines, responseBytes : Budgets]

\* What the input asks for; "other version" and "invalid" do not parse.
Operations == {"exact", "read", "discover", "other version", "invalid"}

Init ==
    /\ pc = "idle"
    /\ \E op \in Operations, c \in Contexts :
         request = [operation |-> op, deadlineMs |-> c.deadlineMs,
                    responseBytes |-> c.responseBytes]
    /\ caps \in Contexts
    /\ clock = 0 /\ aborted = FALSE /\ answer = None
    /\ issues = {} /\ partial = {} /\ kept = 0 /\ low = 0 /\ high = 0
    /\ outcome = None

Return(status, code) ==
    /\ pc' = "done"
    /\ outcome' = [status |-> status, code |-> code]
Error(code) == Return("error", IssueCode(code))

\* The checks before the clock is read for the first time.
Execute ==
    /\ pc = "idle"
    /\ IF request.operation = "other version" THEN Error("UNSUPPORTED_VERSION")
       ELSE IF request.operation = "invalid" THEN Error("INVALID_REQUEST")
       ELSE IF aborted THEN Error("CANCELLED")
       ELSE IF request.operation = "discover"
       THEN Return("error", "CAPABILITY_UNAVAILABLE")
       ELSE pc' = "entered" /\ UNCHANGED outcome
    /\ UNCHANGED <<request, caps, clock, aborted, answer, response>>

\* The whole milliseconds that are left go to registry.search().
Dispatch ==
    /\ pc = "entered"
    /\ IF (Ms * DeadlineMs - clock) \div Ms < 1
         THEN Error("DEADLINE")
         ELSE pc' = "searching" /\ UNCHANGED outcome
    /\ UNCHANGED <<request, caps, clock, aborted, answer, response>>

\* An answer that passed validateWorkerResponse, or a rejection.
Answers ==
    [kind : {"thrown"}, code : Thrown]
      \cup [kind : {"error"}, code : WorkerErrors]
      \cup {a \in [kind : {"ok"}, reasons : SUBSET Reasons, failed : BOOLEAN,
                   bytes : Sizes] : a.reasons = {} => ~a.failed}

\* The codes an answer of execute() may bear: those of the contract.
PublicCodes == (WorkerErrors \cup Rejections \cup {"UNAVAILABLE",
                "CAPABILITY_UNAVAILABLE", "UNSUPPORTED_VERSION"}) \ {"OTHER"}
Outcomes == [status : {"ok", "error"}, code : PublicCodes \cup {None}]

\* Nothing yet is neither an answer nor an outcome nor a code.
ASSUME NoneAssumption == None \notin Answers \cup Outcomes \cup PublicCodes

Answered ==
    /\ pc = "searching" /\ answer = None
    /\ answer' \in Answers
    /\ UNCHANGED <<pc, request, caps, clock, aborted, response, outcome>>

BeginTrimUnmarked ==
    /\ issues' = Issues(answer.reasons) \cup {"BYTE_LIMIT"}
    /\ partial' = PartialReasons(Issues(answer.reasons))
\* A response that is too large is marked before its matches are dropped.
BeginTrim ==
    /\ issues' = Issues(answer.reasons) \cup {"BYTE_LIMIT"}
    /\ partial' = PartialReasons(Issues(answer.reasons)) \cup {"limit"}

\* The response to an exact search, with all matches of the answer.
BuildExact ==
    /\ kept' = Matches /\ low' = 0 /\ high' = Matches
    /\ IF answer.bytes[Matches] > ResponseBytes
         THEN BeginTrim /\ pc' = "trimming"
         ELSE /\ issues' = Issues(answer.reasons)
              /\ partial' = PartialReasons(Issues(answer.reasons))
              /\ pc' = "closing"
    /\ UNCHANGED outcome

\* The response to a read: the answer's only match.
BuildRead ==
    IF Matches = 0
    THEN Error("READ_FAILED") /\ UNCHANGED response
    ELSE /\ kept' = 1 /\ issues' = Issues(answer.reasons) /\ pc' = "closing"
         /\ UNCHANGED <<partial, low, high, outcome>>

Refused(code) == Error(code) /\ UNCHANGED response

\* execute() goes on after the await, or in its catch clause.
Resume ==
    /\ pc = "searching" /\ answer # None
    /\ IF answer.kind = "thrown" THEN Refused(answer.code)
       ELSE IF aborted THEN Refused("CANCELLED")
       ELSE IF Late THEN Refused("DEADLINE")
       ELSE IF answer.kind = "error" THEN Refused(answer.code)
       ELSE IF request.operation = "exact" THEN BuildExact
       ELSE BuildRead
    /\ UNCHANGED <<request, caps, clock, aborted, answer>>

MiddleRoundedDown(a, b) == (a + b) \div 2
Middle(a, b) == (a + b + 1) \div 2

\* One turn of the loop that finds how many matches fit, or its end.
Trim ==
    /\ pc = "trimming"
    /\ \/ /\ low < high /\ Late
          /\ Error("DEADLINE")
          /\ UNCHANGED <<kept, low, high>>
       \/ /\ low < high /\ ~Late
          /\ LET middle == Middle(low, high) IN
               IF Fits(middle) THEN low' = middle /\ UNCHANGED high
                               ELSE high' = middle - 1 /\ UNCHANGED low
          /\ UNCHANGED <<kept, pc, outcome>>
       \/ /\ low >= high
          /\ kept' = low /\ pc' = "closing"
          /\ UNCHANGED <<low, high, outcome>>
    /\ UNCHANGED <<request, caps, clock, aborted, answer, issues, partial>>

FinishAnytime ==
    /\ pc = "closing"
    /\ IF ~Fits(kept) THEN Error("BYTE_LIMIT")
       ELSE IF ~ContractHolds THEN Error("OTHER")
       ELSE Return("ok", None)
    /\ UNCHANGED <<request, caps, clock, aborted, answer, response>>
\* The last checks: the size, the contract and the clock.
Finish ==
    /\ pc = "closing"
    /\ IF ~Fits(kept) THEN Error("BYTE_LIMIT")
       ELSE IF ~ContractHolds THEN Error("OTHER")
       ELSE IF Late THEN Error("DEADLINE")
       ELSE Return("ok", None)
    /\ UNCHANGED <<request, caps, clock, aborted, answer, response>>

-----------------------------------------------------------------------------
\* The clock moves whenever it likes, the caller aborts while the event loop
\* runs: before the call and during the await.
Tick ==
    /\ pc \notin {"idle", "done"} /\ clock < Horizon
    /\ clock' = clock + 1
    /\ UNCHANGED <<pc, request, caps, aborted, answer, response, outcome>>

Abort ==
    /\ pc \in {"idle", "searching"} /\ ~aborted
    /\ aborted' = TRUE
    /\ UNCHANGED <<pc, request, caps, clock, answer, response, outcome>>

Returned == pc = "done" /\ UNCHANGED vars

Step == Execute \/ Dispatch \/ Resume \/ Trim \/ Finish
Next == Step \/ Answered \/ Tick \/ Abort \/ Returned

Spec == Init /\ [][Next]_vars

\* JavaScript runs on, and registry.search() settles (CallsEnd of Registry).
FairSpec == Spec /\ WF_vars(Step) /\ WF_vars(Answered)

-----------------------------------------------------------------------------
(* Properties.                                                             *)

\* Every variable has its type.
TypeOK ==
    /\ pc \in {"idle", "entered", "searching", "trimming", "closing", "done"}
    /\ request \in [operation : Operations,
                    deadlineMs : Deadlines, responseBytes : Budgets]
    /\ caps \in Contexts
    /\ clock \in Nat /\ aborted \in BOOLEAN
    /\ answer \in Answers \cup {None}
    /\ issues \subseteq PublicCodes
    /\ partial \subseteq PublicCodes \cup {"limit"}
    /\ kept \in Nat /\ low \in Nat /\ high \in Int
    /\ outcome \in Outcomes \cup {None}

Succeeded == outcome # None /\ outcome.status = "ok"
ExactSucceeded == Succeeded /\ request.operation = "exact"

\* An exact search that claims complete coverage has every match the worker
\* found, and the worker gave no reason to doubt it: whatever the worker or the
\* trimming left out, the coverage says so.
HonestCoverage ==
    ExactSucceeded /\ partial = {} =>
        /\ answer.reasons = {} /\ ~answer.failed
        /\ kept = Matches

\* The answer fits the smaller of the caller's and the deployment's budget, and
\* trimming drops no match it could have kept.
TrimIsTight ==
    /\ Succeeded => /\ Size(kept) <= request.responseBytes
                    /\ Size(kept) <= caps.responseBytes
    /\ ExactSucceeded /\ kept < Matches => Size(kept + 1) > ResponseBytes

\* The service builds no response that its own contract check refuses: the
\* codes, the coverage reasons and the contract agree on every answer.
OwnContractHolds ==
    outcome # None /\ outcome.code = "UNAVAILABLE" => answer.kind = "thrown"

\* No success is returned once the deadline has passed, wherever the time went, nor to
\* a caller that has cancelled, even when the answer was already there.
OnTime == [][Succeeded' => ~Late /\ ~aborted]_outcome

\* Every call returns.
Settles == pc # "idle" ~> pc = "done"

\* SPEC.md: hitting the time limit returns partial execution; matches in hand
\* are not turned into an error.
DeadlineKeepsMatches ==
    outcome # None /\ outcome.code = "DEADLINE" /\ request.operation = "exact" =>
        answer = None \/ answer.kind # "ok" \/ Matches = 0
=============================================================================
