------------------------- MODULE ExactServiceProofs -------------------------
(***************************************************************************)
(* Proofs about ExactService, for any limits, budgets, deadlines and sizes *)
(* of the matches.                                                         *)
(***************************************************************************)
EXTENDS ExactService, TLAPS

-----------------------------------------------------------------------------
(* The inductive invariant.                                                *)

HasMatches == answer \in Answers /\ answer.kind = "ok"

\* The response to an exact search that fits with all its matches.
Whole ==
    /\ issues = Issues(answer.reasons)
    /\ partial = PartialReasons(Issues(answer.reasons))
    /\ kept = Matches

\* The marks of a response that does not.
Marked ==
    /\ issues = Issues(answer.reasons) \cup {"BYTE_LIMIT"}
    /\ partial = PartialReasons(Issues(answer.reasons)) \cup {"limit"}

\* The trimming search: the first low matches fit, unless there are none, and no
\* more than the first high do.
Bracket ==
    /\ low \in Nat /\ high \in Nat /\ low <= high /\ high <= Matches
    /\ low = 0 \/ Fits(low)
    /\ \A n \in 0 .. Matches : n > high => ~Fits(n)

\* What trimming leaves: one match more would not fit.
Tight ==
    /\ kept \in Nat /\ kept <= Matches
    /\ kept < Matches => ~Fits(kept + 1)

\* The response to a read.
ReadBuilt ==
    /\ Matches >= 1 /\ kept = 1
    /\ issues = Issues(answer.reasons) /\ partial = {}

Built ==
    /\ HasMatches
    /\ \/ request.operation = "exact" /\ (Whole \/ (Marked /\ Tight))
       \/ request.operation = "read" /\ ReadBuilt

Inv ==
    /\ TypeOK
    /\ outcome = None <=> pc # "done"
    /\ pc \notin {"idle", "done"} => request.operation \in {"exact", "read"}
    /\ pc \in {"idle", "entered", "searching"} => partial = {}
    /\ pc = "trimming" => /\ request.operation = "exact" /\ ~aborted
                          /\ HasMatches /\ Marked /\ Bracket
    /\ pc = "closing" => Built /\ ~aborted
    /\ Succeeded => Built /\ Fits(kept)
    /\ OwnContractHolds
-----------------------------------------------------------------------------
(* Codes and reasons.                                                      *)

\* The public codes of the reasons a worker gives.
Doubts == {"READ_FAILED", "SOURCE_MUTATED", "DEADLINE", "LIMIT_REACHED", "BYTE_LIMIT",
           "POLICY_CHANGED"}

\* A reason is shown as a code of the contract, never as a fatal one, and every
\* such code makes the coverage partial, by a reason the code itself backs.
LEMMA ReasonCodes ==
    /\ \A c \in WorkerReasons : IssueCode(c) \in Doubts
    /\ \A c \in Doubts : /\ ReasonOf(c) # {}
                         /\ ReasonOf(c) \subseteq PublicCodes \cup {"limit"}
                         /\ \A reason \in ReasonOf(c) : reason =
                              IF c \in {"LIMIT_REACHED", "BYTE_LIMIT"} THEN "limit" ELSE c
    /\ Doubts \subseteq PublicCodes
<1>1. \A c \in WorkerReasons : IssueCode(c) \in Doubts
  BY DEF WorkerReasons, IssueCode, Doubts
<1>2. ASSUME NEW c \in Doubts
      PROVE  /\ ReasonOf(c) # {}
             /\ \A reason \in ReasonOf(c) : reason =
                  IF c \in {"LIMIT_REACHED", "BYTE_LIMIT"} THEN "limit" ELSE c
  BY DEF ReasonOf, Doubts
<1>3. Doubts \subseteq PublicCodes
  BY DEF Doubts, PublicCodes, WorkerErrors, WorkerReasons
<1>4. ASSUME NEW c \in Doubts PROVE ReasonOf(c) \subseteq PublicCodes \cup {"limit"}
  BY <1>2, <1>3
<1> QED BY <1>1, <1>2, <1>3, <1>4

\* Every code execute() fails with is shown as a code of the contract.
LEMMA ErrorCodes ==
    ASSUME NEW code \in WorkerErrors \cup Rejections \cup {"UNSUPPORTED_VERSION"}
    PROVE  /\ IssueCode(code) \in PublicCodes
           /\ code \in WorkerErrors => IssueCode(code) # "UNAVAILABLE"
BY DEF WorkerErrors, WorkerReasons, Rejections, IssueCode, PublicCodes

\* What an answer with matches holds.
LEMMA MatchesOf ==
    ASSUME HasMatches
    PROVE  /\ Matches \in Nat /\ Matches <= MaxMatches
           /\ answer.bytes \in [0 .. Matches -> Nat]
           /\ \A i, j \in 0 .. Matches : i < j => answer.bytes[i] < answer.bytes[j]
           /\ answer.reasons \subseteq WorkerReasons /\ answer.failed \in BOOLEAN
           /\ answer.reasons = {} => ~answer.failed
<1>1. /\ answer.bytes \in Sizes /\ answer.reasons \subseteq Reasons
      /\ answer.failed \in BOOLEAN
      /\ answer.reasons = {} => ~answer.failed
  BY DEF HasMatches, Answers
<1>2. PICK n \in 0 .. MaxMatches :
        /\ answer.bytes \in [0 .. n -> Nat]
        /\ \A i, j \in 0 .. n : i < j => answer.bytes[i] < answer.bytes[j]
  BY <1>1, SizesAssumption DEF Growing
<1>3. n \in 0 .. MaxMatches /\ DOMAIN answer.bytes = 0 .. n
  BY <1>2
<1>4. Matches \in 0 .. MaxMatches /\ DOMAIN answer.bytes = 0 .. Matches
  BY <1>3, Zenon DEF Matches
<1>5. 0 .. Matches = 0 .. n
  BY <1>2, <1>4
<1> QED BY <1>1, <1>2, <1>4, <1>5, ServiceAssumption

\* Sizes and budgets are numbers.
LEMMA Numbers ==
    ASSUME TypeOK
    PROVE  /\ ResponseBytes \in Nat /\ DeadlineMs \in Nat
           /\ ResponseBytes <= request.responseBytes
           /\ ResponseBytes <= caps.responseBytes
           /\ HasMatches => \A n \in 0 .. Matches : Size(n) \in Nat
<1>1. /\ request.responseBytes \in Nat /\ caps.responseBytes \in Nat
      /\ request.deadlineMs \in Nat /\ caps.deadlineMs \in Nat
  BY ServiceAssumption DEF TypeOK, Contexts
<1>2. HasMatches => \A n \in 0 .. Matches : Size(n) \in Nat
  <2> SUFFICES ASSUME HasMatches, NEW n \in 0 .. Matches PROVE Size(n) \in Nat
    OBVIOUS
  <2>1. answer.bytes[n] \in Nat /\ Mark \in Nat
    BY MatchesOf, ServiceAssumption
  <2> QED BY <2>1 DEF Size
<1> QED BY <1>1, <1>2 DEF ResponseBytes, DeadlineMs, Least

\* The issues and the coverage of an answer are codes and reasons of the contract.
LEMMA IssuesOf ==
    ASSUME HasMatches
    PROVE  /\ Issues(answer.reasons) \subseteq Doubts
           /\ PartialReasons(Issues(answer.reasons)) \subseteq PublicCodes \cup {"limit"}
           /\ PartialReasons(Issues(answer.reasons)) = {} => answer.reasons = {}
<1>1. Issues(answer.reasons) \subseteq Doubts
  BY MatchesOf, ReasonCodes DEF Issues
<1>2. PartialReasons(Issues(answer.reasons)) \subseteq PublicCodes \cup {"limit"}
  BY <1>1, ReasonCodes DEF PartialReasons
<1>3. ASSUME answer.reasons # {} PROVE PartialReasons(Issues(answer.reasons)) # {}
  <2>1. PICK c \in answer.reasons : TRUE
    BY <1>3
  <2>2. IssueCode(c) \in Issues(answer.reasons)
    BY DEF Issues
  <2>3. PICK reason : reason \in ReasonOf(IssueCode(c))
    BY <1>1, <2>2, ReasonCodes
  <2> QED BY <2>2, <2>3 DEF PartialReasons
<1> QED BY <1>1, <1>2, <1>3

\* The response the service builds passes the contract check it makes on it.
LEMMA BuiltHolds == ASSUME Built PROVE ContractHolds
<1>h. HasMatches
  BY DEF Built
<1>1. issues \subseteq Doubts
  <2>1. "BYTE_LIMIT" \in Doubts
    BY DEF Doubts
  <2> QED BY <1>h, <2>1, IssuesOf DEF Built, Whole, Marked, ReadBuilt
<1>2. issues \cap {"INVALID_REQUEST", "UNSUPPORTED_VERSION"} = {}
  BY <1>1 DEF Doubts
<1>3. ASSUME request.operation = "exact"
      PROVE  /\ \A reason \in partial : \E c \in issues : reason \in
                  (IF c \in {"LIMIT_REACHED", "BYTE_LIMIT"} THEN {"limit"} ELSE {c})
             /\ partial = {} => issues = {} /\ ~answer.failed
  <2>1. \A reason \in PartialReasons(Issues(answer.reasons)) :
            \E c \in Issues(answer.reasons) : reason \in
              (IF c \in {"LIMIT_REACHED", "BYTE_LIMIT"} THEN {"limit"} ELSE {c})
    <3> TAKE reason \in PartialReasons(Issues(answer.reasons))
    <3>1. PICK c \in Issues(answer.reasons) : reason \in ReasonOf(c)
      BY DEF PartialReasons
    <3>2. c \in Doubts
      BY <1>h, IssuesOf
    <3> QED BY <3>1, <3>2, ReasonCodes
  <2>2. Whole \/ Marked
    BY <1>3 DEF Built
  <2>3. CASE Whole
    <3>1. partial = {} => issues = {} /\ ~answer.failed
      BY <1>h, <2>3, IssuesOf, MatchesOf DEF Whole, Issues
    <3> QED BY <2>1, <2>3, <3>1 DEF Whole
  <2>4. CASE Marked
    BY <2>1, <2>4 DEF Marked
  <2> QED BY <2>2, <2>3, <2>4
<1> QED BY <1>2, <1>3 DEF ContractHolds
-----------------------------------------------------------------------------
(* Steps that several actions share.                                       *)

\* Once no step of execute() writes them, the request, the answer and the
\* response stay what was built.
LEMMA BuiltStays ==
    ASSUME UNCHANGED <<request, caps, answer, response>>
    PROVE  /\ Built' <=> Built
           /\ ContractHolds' <=> ContractHolds
           /\ \A n : Fits(n)' <=> Fits(n)
BY DEF response, Built, HasMatches, Whole, Marked, Tight, ReadBuilt, ContractHolds, Fits,
       Size, Matches, ResponseBytes

\* An error ends the call with a code of the contract and no success.
LEMMA ErrorOutcome ==
    ASSUME NEW code \in WorkerErrors \cup Rejections \cup {"UNSUPPORTED_VERSION"},
           Error(code)
    PROVE  /\ pc' = "done" /\ outcome' \in Outcomes /\ outcome' # None
           /\ ~Succeeded'
           /\ outcome'.code = IssueCode(code)
<1>1. outcome' = [status |-> "error", code |-> IssueCode(code)] /\ pc' = "done"
  BY DEF Error, Return
<1>2. outcome' \in Outcomes
  BY <1>1, ErrorCodes DEF Outcomes
<1> QED BY <1>1, <1>2, NoneAssumption DEF Succeeded

\* A call that ended in error keeps the invariant, whatever it was doing.
LEMMA ErrorKeeps ==
    ASSUME Inv, NEW code \in WorkerErrors \cup Rejections \cup {"UNSUPPORTED_VERSION"},
           Error(code), pc # "done", TypeOK',
           \/ code \in WorkerErrors \/ answer.kind = "thrown"
           \/ IssueCode(code) # "UNAVAILABLE",
           UNCHANGED answer
    PROVE  Inv'
<1>1. pc' = "done" /\ outcome' # None /\ ~Succeeded' /\ outcome'.code = IssueCode(code)
  BY ErrorOutcome
<1>2. OwnContractHolds'
  BY <1>1, ErrorCodes DEF OwnContractHolds
<1> QED BY <1>1, <1>2 DEF Inv

-----------------------------------------------------------------------------
(* Preservation.                                                           *)

\* Every step keeps every variable in its type.
LEMMA TypeNext == ASSUME Inv, [Next]_vars PROVE TypeOK'
<1>t. TypeOK
  BY DEF Inv
<1>e. ASSUME NEW code \in WorkerErrors \cup Rejections \cup {"UNSUPPORTED_VERSION"},
             Error(code), UNCHANGED <<request, caps, clock, aborted, answer, response>>
      PROVE  TypeOK'
  BY <1>e, <1>t, ErrorOutcome DEF TypeOK, response
<1>1. CASE Execute
  <2>1. CASE pc' = "entered" /\ UNCHANGED outcome
    BY <1>1, <1>t, <2>1 DEF Execute, TypeOK, response
  <2>2. CASE Return("error", "CAPABILITY_UNAVAILABLE")
    <3>1. outcome' \in Outcomes /\ pc' = "done"
      BY <2>2 DEF Return, Outcomes, PublicCodes
    <3> QED BY <1>1, <1>t, <3>1 DEF Execute, TypeOK, response
  <2>3. ASSUME NEW code \in {"UNSUPPORTED_VERSION", "INVALID_REQUEST", "CANCELLED"},
               Error(code)
        PROVE  TypeOK'
    BY <1>1, <1>e, <2>3 DEF Execute, response, WorkerErrors, Rejections
  <2> QED BY <1>1, <2>1, <2>2, <2>3 DEF Execute
<1>2. CASE Dispatch
  <2>1. CASE Error("DEADLINE")
    BY <1>2, <1>e, <2>1 DEF Dispatch, response, Rejections
  <2>2. CASE pc' = "searching" /\ UNCHANGED outcome
    BY <1>2, <1>t, <2>2 DEF Dispatch, TypeOK, response
  <2> QED BY <1>2, <2>1, <2>2 DEF Dispatch
<1>3. CASE Answered
  BY <1>3, <1>t DEF Answered, TypeOK, response
<1>4. CASE Resume
  <2>u. UNCHANGED <<request, caps, clock, aborted, answer>>
    BY <1>4 DEF Resume
  <2>1. ASSUME NEW code \in WorkerErrors \cup Rejections, Refused(code) PROVE TypeOK'
    BY <1>e, <2>u, <2>1 DEF Refused, response
  <2>2. answer.kind = "thrown" => answer.code \in Rejections
    BY <1>4, <1>t, ServiceAssumption DEF Resume, TypeOK, Answers
  <2>3. answer.kind = "error" => answer.code \in WorkerErrors
    BY <1>4, <1>t, ServiceAssumption DEF Resume, TypeOK, Answers
  <2>4. ASSUME HasMatches, BuildExact PROVE TypeOK'
    <3>1. Matches \in Nat
      BY <2>4, MatchesOf
    <3>2. /\ Issues(answer.reasons) \subseteq PublicCodes
          /\ PartialReasons(Issues(answer.reasons)) \subseteq PublicCodes \cup {"limit"}
          /\ "BYTE_LIMIT" \in PublicCodes
      <4>1. "BYTE_LIMIT" \in Doubts
        BY DEF Doubts
      <4> QED BY <2>4, <4>1, IssuesOf, ReasonCodes
    <3> QED BY <1>t, <2>u, <2>4, <3>1, <3>2 DEF BuildExact, BeginTrim, TypeOK
  <2>5. ASSUME HasMatches, BuildRead PROVE TypeOK'
    <3>1. CASE Error("READ_FAILED") /\ UNCHANGED response
      BY <1>e, <2>u, <3>1 DEF response, WorkerErrors, WorkerReasons
    <3>2. Issues(answer.reasons) \subseteq PublicCodes
      BY <2>5, IssuesOf, ReasonCodes
    <3>3. CASE /\ kept' = 1 /\ issues' = Issues(answer.reasons) /\ pc' = "closing"
               /\ UNCHANGED <<partial, low, high, outcome>>
      BY <1>t, <2>u, <3>2, <3>3 DEF TypeOK
    <3> QED BY <2>5, <3>1, <3>3 DEF BuildRead
  <2>6. HasMatches \/ answer.kind \in {"thrown", "error"}
    BY <1>4, <1>t DEF Resume, TypeOK, Answers, HasMatches
  <2>7. {"CANCELLED", "DEADLINE"} \subseteq Rejections
    BY DEF Rejections
  <2> QED BY <1>4, <2>1, <2>2, <2>3, <2>4, <2>5, <2>6, <2>7 DEF Resume
<1>5. CASE Trim
  <2>u. UNCHANGED <<request, caps, clock, aborted, answer, issues, partial>>
    BY <1>5 DEF Trim
  <2>1. CASE Error("DEADLINE") /\ UNCHANGED <<kept, low, high>>
    BY <1>e, <2>u, <2>1 DEF Rejections, response
  <2>2. CASE UNCHANGED <<kept, pc, outcome>>
    <3>1. Middle(low, high) \in Nat
      <4>1. low \in Nat /\ high \in Nat
        BY <1>5 DEF Trim, Inv, Bracket
      <4> QED BY <4>1 DEF Middle
    <3>2. low' \in Nat /\ high' \in Int
      BY <1>5, <1>t, <2>2, <3>1 DEF Trim, TypeOK, Error, Return
    <3> QED BY <1>t, <2>u, <2>2, <3>2 DEF TypeOK
  <2>3. CASE /\ kept' = low /\ pc' = "closing"
             /\ UNCHANGED <<low, high, outcome>>
    BY <1>t, <2>u, <2>3 DEF TypeOK
  <2> QED BY <1>5, <2>1, <2>2, <2>3 DEF Trim
<1>6. CASE Finish
  <2>u. UNCHANGED <<request, caps, clock, aborted, answer, response>>
    BY <1>6 DEF Finish
  <2>1. ASSUME NEW code \in {"BYTE_LIMIT", "OTHER", "DEADLINE"}, Error(code) PROVE TypeOK'
    BY <1>e, <2>u, <2>1 DEF Rejections, WorkerErrors, WorkerReasons
  <2>2. CASE Return("ok", None)
    <3>1. outcome' \in Outcomes /\ pc' = "done"
      BY <2>2 DEF Return, Outcomes
    <3> QED BY <1>t, <2>u, <3>1 DEF TypeOK, response
  <2> QED BY <1>6, <2>1, <2>2 DEF Finish
<1>7. CASE Tick
  BY <1>7, <1>t DEF Tick, TypeOK, response
<1>8. CASE Abort
  BY <1>8, <1>t DEF Abort, TypeOK, response
<1>9. CASE UNCHANGED vars
  BY <1>9, <1>t DEF TypeOK, vars, response
<1> QED BY <1>1, <1>2, <1>3, <1>4, <1>5, <1>6, <1>7, <1>8, <1>9 DEF Next, Step, Returned
\* The trimming search ends where one match more would not fit.
LEMMA BracketNext ==
    ASSUME Inv, pc = "trimming", Trim
    PROVE  /\ pc' = "trimming" => Bracket'
           /\ pc' = "closing" => Tight'
<1>t. TypeOK /\ HasMatches /\ Bracket /\ Matches \in Nat
  BY MatchesOf DEF Inv
<1>u. /\ Matches' = Matches
      /\ \A n : Fits(n)' <=> Fits(n)
  BY DEF Trim, Matches, Fits, Size, ResponseBytes
<1>1. CASE low < high /\ Late /\ Error("DEADLINE")
  BY <1>1 DEF Error, Return
<1>2. CASE /\ low < high
           /\ IF Fits(Middle(low, high))
                THEN low' = Middle(low, high) /\ UNCHANGED high
                ELSE high' = Middle(low, high) - 1 /\ UNCHANGED low
           /\ UNCHANGED pc
  <2> DEFINE m == Middle(low, high)
  <2>1. m \in Nat /\ low < m /\ m <= high
    BY <1>t, <1>2 DEF Middle, Bracket
  <2>2. CASE Fits(m)
    BY <1>t, <1>u, <1>2, <2>1, <2>2 DEF Bracket
  <2>3. CASE ~Fits(m)
    \* The sizes grow: what is beyond the middle does not fit either.
    <3>1. \A n \in 0 .. Matches : n > m - 1 => ~Fits(n)
      <4> SUFFICES ASSUME NEW n \in 0 .. Matches, n > m - 1 PROVE ~Fits(n)
        OBVIOUS
      <4>1. m \in 0 .. Matches /\ n \in Nat /\ (n = m \/ m < n)
        BY <1>t, <2>1 DEF Bracket
      <4>2. n # m => answer.bytes[m] < answer.bytes[n]
        BY <1>t, <4>1, MatchesOf
      <4>3. Size(m) \in Nat /\ Size(n) \in Nat /\ ResponseBytes \in Nat
        BY <1>t, <4>1, Numbers
      <4>4. Mark \in Nat /\ answer.bytes[m] \in Nat /\ answer.bytes[n] \in Nat
        BY <1>t, <4>1, MatchesOf, ServiceAssumption
      <4>5. n # m => Size(m) < Size(n)
        BY <4>2, <4>4 DEF Size
      <4> QED BY <2>3, <4>1, <4>3, <4>5 DEF Fits
    <3>2. m - 1 \in Nat /\ low <= m - 1 /\ m - 1 <= Matches
      BY <1>t, <2>1 DEF Bracket
    <3>3. high' = m - 1 /\ low' = low
      BY <1>2, <2>3
    <3> HIDE DEF m
    <3> QED BY <1>t, <1>u, <1>2, <3>1, <3>2, <3>3 DEF Bracket
  <2> QED BY <2>2, <2>3
<1>3. CASE low >= high /\ kept' = low /\ pc' = "closing"
  <2>1. low = high /\ low \in Nat /\ low <= Matches
    BY <1>t, <1>3 DEF Bracket
  <2>2. kept' \in Nat /\ kept' <= Matches
    BY <1>3, <2>1
  <2>3. low < Matches => ~Fits(low + 1)
    <3>1. low < Matches => low + 1 \in 0 .. Matches /\ low + 1 > high
      BY <1>t, <2>1
    <3> QED BY <1>t, <3>1 DEF Bracket
  <2> QED BY <1>u, <1>3, <2>2, <2>3 DEF Tight
<1> QED BY <1>1, <1>2, <1>3 DEF Trim

\* Resuming after the await builds a response that is whole, or marked and left
\* to the trimming, or refuses the call.
LEMMA ResumeNext == ASSUME Inv, Resume, TypeOK' PROVE Inv'
<1>t. TypeOK /\ pc = "searching" /\ answer \in Answers /\ partial = {}
  BY DEF Inv, Resume, TypeOK
<1>u. UNCHANGED <<request, caps, clock, aborted, answer>>
  BY DEF Resume
<1>s. Matches' = Matches /\ (HasMatches' <=> HasMatches) /\ outcome = None
  BY <1>t, <1>u DEF Matches, HasMatches, Inv
<1>1. ASSUME NEW code \in WorkerErrors \cup Rejections, Error(code),
             \/ code \in WorkerErrors \/ answer.kind = "thrown"
             \/ IssueCode(code) # "UNAVAILABLE"
      PROVE  Inv'
  BY <1>1, <1>t, <1>u, ErrorKeeps
<1>2. CASE answer.kind = "thrown"
  <2>1. answer.code \in Rejections
    BY <1>t, <1>2, ServiceAssumption DEF Answers
  <2> QED BY <1>1, <1>2, <2>1 DEF Resume, Refused
<1>3. CASE Refused("CANCELLED") \/ Refused("DEADLINE")
  <2>1. /\ {"CANCELLED", "DEADLINE"} \subseteq Rejections
        /\ IssueCode("CANCELLED") # "UNAVAILABLE" /\ IssueCode("DEADLINE") # "UNAVAILABLE"
    BY DEF Rejections, IssueCode
  <2> QED BY <1>1, <1>3, <2>1 DEF Refused
<1>4. CASE answer.kind = "error" /\ Refused(answer.code)
  <2>1. answer.code \in WorkerErrors
    BY <1>t, <1>4 DEF Answers
  <2> QED BY <1>1, <1>4, <2>1 DEF Refused
<1>5. CASE HasMatches /\ ~aborted /\ request.operation = "exact" /\ BuildExact
  <2>1. Matches \in Nat
    BY <1>5, MatchesOf
  <2>2. outcome' = None /\ aborted' = aborted /\ request' = request
    BY <1>5, <1>s, <1>u DEF BuildExact
  <2>3. ~Succeeded' /\ OwnContractHolds'
    BY <2>2 DEF Succeeded, OwnContractHolds
  <2>4. CASE answer.bytes[Matches] > ResponseBytes
    <3>1. pc' = "trimming" /\ kept' = Matches /\ low' = 0 /\ high' = Matches
      BY <1>5, <2>4 DEF BuildExact
    <3>2. Marked'
      BY <1>5, <1>u, <2>4 DEF BuildExact, BeginTrim, Marked
    <3>3. Bracket'
      BY <1>s, <2>1, <3>1 DEF Bracket
    <3> QED BY <1>5, <1>s, <2>2, <2>3, <3>1, <3>2, <3>3 DEF Inv
  <2>5. CASE ~(answer.bytes[Matches] > ResponseBytes)
    <3>1. pc' = "closing" /\ Whole'
      BY <1>5, <1>s, <1>u, <2>5 DEF BuildExact, Whole
    <3> QED BY <1>5, <1>s, <2>2, <2>3, <3>1 DEF Inv, Built
  <2> QED BY <2>4, <2>5
<1>6. CASE HasMatches /\ ~aborted /\ request.operation = "read" /\ BuildRead
  <2>1. CASE Matches = 0
    <3>1. "READ_FAILED" \in WorkerErrors
      BY DEF WorkerErrors, WorkerReasons
    <3> QED BY <1>1, <1>6, <2>1, <3>1 DEF BuildRead
  <2>2. CASE Matches # 0
    <3>1. /\ kept' = 1 /\ issues' = Issues(answer.reasons) /\ pc' = "closing"
          /\ UNCHANGED <<partial, low, high, outcome>>
      BY <1>6, <2>2 DEF BuildRead
    <3>2. Matches >= 1
      BY <1>6, <2>2, MatchesOf
    <3>3. Built'
      BY <1>6, <1>t, <1>s, <1>u, <3>1, <3>2 DEF Built, ReadBuilt
    <3> QED BY <1>6, <1>s, <1>u, <3>1, <3>3 DEF Inv, Succeeded, OwnContractHolds
  <2> QED BY <2>1, <2>2
<1>7. request.operation \in {"exact", "read"}
  BY <1>t DEF Inv
<1>8. answer.kind \notin {"thrown", "error"} => HasMatches
  BY <1>t DEF HasMatches, Answers
<1> QED BY <1>2, <1>3, <1>4, <1>5, <1>6, <1>7, <1>8 DEF Resume

\* A turn of the trimming search, or its end.
LEMMA TrimNext == ASSUME Inv, Trim, TypeOK' PROVE Inv'
<1>t. /\ TypeOK /\ pc = "trimming" /\ request.operation = "exact" /\ ~aborted
      /\ HasMatches /\ Marked /\ outcome = None
  BY DEF Inv, Trim
<1>u. UNCHANGED <<request, caps, clock, aborted, answer, issues, partial>>
  BY DEF Trim
<1>s. HasMatches' /\ Marked'
  BY <1>t, <1>u DEF HasMatches, Marked
<1>1. CASE Error("DEADLINE")
  <2>1. "DEADLINE" \in Rejections /\ IssueCode("DEADLINE") # "UNAVAILABLE"
    BY DEF Rejections, IssueCode
  <2> QED BY <1>t, <1>u, <1>1, <2>1, ErrorKeeps
<1>2. CASE UNCHANGED <<kept, pc, outcome>>
  BY <1>t, <1>u, <1>s, <1>2, BracketNext DEF Inv, Succeeded, OwnContractHolds
<1>3. CASE pc' = "closing" /\ UNCHANGED outcome
  <2>1. Built'
    BY <1>t, <1>u, <1>s, <1>3, BracketNext DEF Built
  <2> QED BY <1>t, <1>u, <1>3, <2>1 DEF Inv, Succeeded, OwnContractHolds
<1> QED BY <1>1, <1>2, <1>3 DEF Trim

\* The last checks: what passes them was built, and fits.
LEMMA FinishNext == ASSUME Inv, Finish, TypeOK' PROVE Inv'
<1>t. TypeOK /\ pc = "closing" /\ Built /\ ~aborted
  BY DEF Inv, Finish
<1>u. UNCHANGED <<request, caps, clock, aborted, answer, response>>
  BY DEF Finish
<1>1. ASSUME NEW code \in {"BYTE_LIMIT", "DEADLINE"}, Error(code) PROVE Inv'
  <2>1. /\ code \in WorkerErrors \cup Rejections /\ IssueCode(code) # "UNAVAILABLE"
    BY DEF WorkerErrors, WorkerReasons, Rejections, IssueCode
  <2> QED BY <1>t, <1>u, <1>1, <2>1, ErrorKeeps
<1>2. CASE Return("ok", None) /\ Fits(kept)
  <2>1. /\ pc' = "done" /\ outcome' # None /\ outcome'.code = None
    BY <1>2, NoneAssumption DEF Return, Outcomes
  <2>2. None # "UNAVAILABLE"
    <3>1. "UNAVAILABLE" \in PublicCodes
      BY DEF PublicCodes
    <3> QED BY <3>1, NoneAssumption
  <2>3. Built' /\ Fits(kept)'
    BY <1>t, <1>u, <1>2, BuiltStays DEF response
  <2> QED BY <2>1, <2>2, <2>3 DEF Inv, OwnContractHolds
<1> QED BY <1>t, <1>1, <1>2, BuiltHolds DEF Finish

\* Every step keeps the invariant.
LEMMA InvNext == ASSUME Inv, [Next]_vars PROVE Inv'
<1>t. TypeOK /\ TypeOK'
  BY TypeNext DEF Inv
<1>1. CASE Execute
  <2>1. ASSUME NEW code \in {"UNSUPPORTED_VERSION", "INVALID_REQUEST", "CANCELLED"},
               Error(code)
        PROVE  Inv'
    <3>1. /\ code \in WorkerErrors \cup Rejections \cup {"UNSUPPORTED_VERSION"}
          /\ IssueCode(code) # "UNAVAILABLE"
      BY DEF WorkerErrors, Rejections, IssueCode
    <3> QED BY <1>1, <1>t, <2>1, <3>1, ErrorKeeps DEF Execute
  <2>2. CASE Return("error", "CAPABILITY_UNAVAILABLE")
    <3>1. /\ pc' = "done"
          /\ outcome' = [status |-> "error", code |-> "CAPABILITY_UNAVAILABLE"]
      BY <2>2 DEF Return
    <3>2. outcome' # None
      <4>1. outcome' \in Outcomes
        BY <3>1 DEF Outcomes, PublicCodes
      <4> QED BY <4>1, NoneAssumption
    <3> QED BY <1>t, <3>1, <3>2 DEF Inv, Succeeded, OwnContractHolds
  <2>3. CASE /\ pc' = "entered" /\ UNCHANGED outcome
             /\ request.operation \in {"exact", "read"}
    BY <1>1, <1>t, <2>3 DEF Execute, Inv, response, Succeeded, OwnContractHolds
  <2>4. request.operation \in Operations
    BY <1>t DEF TypeOK
  <2> QED BY <1>1, <2>1, <2>2, <2>3, <2>4 DEF Execute, Operations
<1>2. CASE Dispatch
  <2>1. CASE Error("DEADLINE")
    <3>1. "DEADLINE" \in Rejections /\ IssueCode("DEADLINE") # "UNAVAILABLE"
      BY DEF Rejections, IssueCode
    <3> QED BY <1>2, <1>t, <2>1, <3>1, ErrorKeeps DEF Dispatch
  <2>2. CASE pc' = "searching" /\ UNCHANGED outcome
    BY <1>2, <1>t, <2>2 DEF Dispatch, Inv, response, Succeeded, OwnContractHolds
  <2> QED BY <1>2, <2>1, <2>2 DEF Dispatch
<1>3. CASE Answered
  BY <1>3, <1>t DEF Answered, Inv, response, Succeeded, OwnContractHolds
<1>4. CASE Resume
  BY <1>4, <1>t, ResumeNext
<1>5. CASE Trim
  BY <1>5, <1>t, TrimNext
<1>6. CASE Finish
  BY <1>6, <1>t, FinishNext
<1>7. CASE Tick \/ Abort \/ UNCHANGED vars
  <2>1. /\ UNCHANGED <<pc, request, caps, answer, response, outcome>>
        /\ pc \in {"trimming", "closing"} => aborted' = aborted
    BY <1>7 DEF Tick, Abort, vars
  <2>2. Built' <=> Built
    BY <2>1, BuiltStays
  <2>3. \A n : Fits(n)' <=> Fits(n)
    BY <2>1, BuiltStays
  <2>4. /\ HasMatches' <=> HasMatches
        /\ Marked' <=> Marked
        /\ Matches' = Matches
        /\ UNCHANGED <<partial, kept, low, high>>
    BY <2>1 DEF HasMatches, Marked, Matches, response
  <2>5. Bracket' <=> Bracket
    BY <2>3, <2>4 DEF Bracket
  <2>6. /\ Succeeded' <=> Succeeded
        /\ OwnContractHolds' <=> OwnContractHolds
        /\ Fits(kept)' <=> Fits(kept)
    BY <2>1, <2>3, <2>4 DEF Succeeded, OwnContractHolds
  <2> QED BY <1>t, <2>1, <2>2, <2>4, <2>5, <2>6 DEF Inv
<1> QED BY <1>1, <1>2, <1>3, <1>4, <1>5, <1>6, <1>7 DEF Next, Step, Returned

-----------------------------------------------------------------------------
(* The invariant, and what follows from it.                                *)

\* The invariant holds in every reachable state.
LEMMA Invariant == Spec => []Inv
<1>1. Init => Inv
  <2> SUFFICES ASSUME Init PROVE Inv
    OBVIOUS
  <2>1. TypeOK
    <3>1. request \in [operation : Operations,
                       deadlineMs : Deadlines, responseBytes : Budgets]
      BY DEF Init, Contexts
    <3>2. /\ pc = "idle" /\ caps \in Contexts /\ clock = 0 /\ aborted \in BOOLEAN
          /\ answer = None /\ issues = {} /\ partial = {} /\ outcome = None
          /\ kept = 0 /\ low = 0 /\ high = 0
      BY DEF Init
    <3> QED BY <3>1, <3>2 DEF TypeOK
  <2> QED BY <2>1 DEF Init, Inv, Succeeded, OwnContractHolds
<1>2. Inv /\ [Next]_vars => Inv'
  BY InvNext
<1> QED BY <1>1, <1>2, PTL DEF Spec

\* Every variable of a call keeps its type: codes stay codes of the contract.
THEOREM TypeCorrect == Spec => []TypeOK
<1>1. Inv => TypeOK
  BY DEF Inv
<1> QED BY <1>1, Invariant, PTL

\* An exact search that claims complete coverage returns every match of an
\* answer the worker gave no reason to doubt.
THEOREM CoverageIsHonest == Spec => []HonestCoverage
<1>1. Inv => HonestCoverage
  <2> SUFFICES ASSUME Inv, ExactSucceeded, partial = {}
               PROVE  /\ answer.reasons = {} /\ ~answer.failed
                      /\ kept = Matches
    BY DEF HonestCoverage
  <2>1. HasMatches /\ Whole
    BY DEF Inv, Built, ExactSucceeded, Marked
  <2> QED BY <2>1, IssuesOf, MatchesOf DEF Whole
<1> QED BY <1>1, Invariant, PTL

\* A response fits both budgets, and one match more would not: the binary search
\* of the trimming loses nothing, whatever the sizes of the matches.
THEOREM TrimmingIsTight == Spec => []TrimIsTight
<1>1. Inv => TrimIsTight
  <2> SUFFICES ASSUME Inv PROVE TrimIsTight
    OBVIOUS
  <2>1. ASSUME Succeeded
        PROVE  /\ Size(kept) <= request.responseBytes
               /\ Size(kept) <= caps.responseBytes
    <3>1. /\ HasMatches /\ kept \in 0 .. Matches /\ Fits(kept)
      BY <2>1, MatchesOf DEF Inv, Built, Whole, Tight, ReadBuilt
    <3>2. /\ Size(kept) \in Nat /\ ResponseBytes \in Nat
          /\ ResponseBytes <= request.responseBytes
          /\ ResponseBytes <= caps.responseBytes
          /\ request.responseBytes \in Nat /\ caps.responseBytes \in Nat
      BY <3>1, Numbers, ServiceAssumption DEF Inv, TypeOK, Contexts
    <3> QED BY <3>1, <3>2 DEF Fits
  <2>2. ASSUME ExactSucceeded, kept < Matches PROVE Size(kept + 1) > ResponseBytes
    <3>1. HasMatches /\ Tight
      BY <2>2, MatchesOf DEF Inv, Built, ExactSucceeded, Whole
    <3>2. kept + 1 \in 0 .. Matches
      BY <2>2, <3>1, MatchesOf DEF Tight
    <3>3. Size(kept + 1) \in Nat /\ ResponseBytes \in Nat
      BY <3>1, <3>2, Numbers DEF Inv
    <3> QED BY <2>2, <3>1, <3>3 DEF Tight, Fits
  <2> QED BY <2>1, <2>2 DEF TrimIsTight
<1> QED BY <1>1, Invariant, PTL

\* The service never answers UNAVAILABLE because its own contract refuses the
\* response it built: only a rejection of registry.search() is shown so.
THEOREM ContractIsKept == Spec => []OwnContractHolds
<1>1. Inv => OwnContractHolds
  BY DEF Inv
<1> QED BY <1>1, Invariant, PTL

\* No success is returned after the deadline, or to a caller that has cancelled.
THEOREM ReturnsOnTime == Spec => OnTime
<1>1. Inv /\ [Next]_vars => [Succeeded' => ~Late /\ ~aborted]_outcome
  <2> SUFFICES ASSUME Inv, Next, outcome' # outcome, Succeeded'
               PROVE  ~Late /\ ~aborted
    BY DEF vars
  <2>1. ASSUME NEW code, Error(code) PROVE FALSE
    BY <2>1 DEF Error, Return, Succeeded
  <2>2. ~Execute /\ ~Dispatch /\ ~Trim
    <3>1. ~Return("error", "CAPABILITY_UNAVAILABLE")
      BY DEF Return, Succeeded
    <3>2. ~Execute
      BY <2>1, <3>1 DEF Execute
    <3> QED BY <2>1, <3>2 DEF Dispatch, Trim
  <2>3. ~Resume
    BY <2>1 DEF Resume, Refused, BuildExact, BuildRead
  <2>4. ~Answered /\ ~Tick /\ ~Abort /\ ~Returned
    BY DEF Answered, Tick, Abort, Returned, vars
  <2>5. CASE Finish
    BY <2>1, <2>5 DEF Finish, Inv
  <2> QED BY <2>2, <2>3, <2>4, <2>5 DEF Next, Step
<1> QED BY <1>1, Invariant, PTL DEF Spec, OnTime
=============================================================================
