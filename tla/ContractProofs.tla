--------------------------- MODULE ContractProofs ----------------------------
(***************************************************************************)
(* Proofs about Contract, for every limit, request, file and cap of an     *)
(* excerpt: the layers agree on requests, on evidence and on sources.      *)
(***************************************************************************)
EXTENDS Contract, TLAPS, SequenceTheorems

\* What the worker's validate() leaves of a request, and the file it captured.
AtWorker ==
    /\ captured \in Files /\ Len(captured) <= maxFileBytes
    /\ IsRead(request) =>
         /\ request.range.start <= request.range.end
         /\ request.range.end - request.range.start <= ExcerptBytes

\* Evidence as search_file() makes it: a place in a file and its text up to a cut.
MadeFrom(e, f, start, cut, end) ==
    /\ e = Told(f, [start |-> start, end |-> end], [start |-> start, end |-> cut])
    /\ start <= cut /\ cut <= end /\ end <= Len(f) /\ Len(f) <= maxFileBytes
    /\ cut - start <= ExcerptBytes
    /\ Boundary(f, start) /\ Boundary(f, cut) /\ Boundary(f, end)
    /\ IsRead(request) =>
         /\ cut = end /\ request.range = [start |-> start, end |-> end]
         /\ request.operation = "read-verified" => request.expected = f
Made(e) ==
    \E f \in Files : \E start, cut, end \in Nat : MadeFrom(e, f, start, cut, end)

Evidence == [digest : Files, range : Span,
             excerpt : [range : Span, text : Seq(Nat), truncated : BOOLEAN]]

\* What holds of the call at each stage.
Stages ==
    /\ request \in Requests /\ maxFileBytes \in FileLimits
    /\ context \in [deadlineMs : Nat, responseBytes : Nat]
    /\ stage \in {"given", "parsed", "worker", "built", "answered", "refused"}
    /\ stage # "refused" => refusal = None
    /\ stage = "parsed" => ParsesRequest(request) /\ ParsesContext(context)
    /\ stage = "worker" => AtWorker
    /\ stage \notin {"built", "answered"} => evidence = None
    /\ stage \in {"built", "answered"} => Made(evidence)
    /\ stage # "answered" => verdict = None
    /\ stage = "answered" => handed \in Evidence

\* The judgement is that of the evidence and the file at hand.
Judged ==
    /\ verdict = "accepted" => captured \in Files /\ SourceHolds(handed, captured)
    /\ verdict \notin {None, "accepted"} => ~SourceHolds(handed, captured)

-----------------------------------------------------------------------------
(* Evidence.                                                               *)

\* A file is a sequence of bytes.
LEMMA FilesAreSequences == \A f \in Files : f \in Seq(Nat) /\ Len(f) \in Nat
BY FilesAssumption

\* The bytes of a place in a file.
LEMMA BetweenIs ==
    ASSUME NEW f \in Seq(Nat), NEW start \in Nat, NEW end \in Nat,
           start <= end, end <= Len(f)
    PROVE  /\ Between(f, start, end) \in Seq(Nat)
           /\ Len(Between(f, start, end)) = end - start
           /\ Between(f, start, end) = [i \in 1 .. end - start |-> f[start + i]]
<1>1. /\ Between(f, start, end) \in Seq(Nat)
      /\ Len(Between(f, start, end)) = end - start
      /\ \A i \in 1 .. end - start : Between(f, start, end)[i] = f[start + i]
  BY DEF Between
<1>2. Between(f, start, end) = [i \in 1 .. end - start |-> Between(f, start, end)[i]]
  BY <1>1
<1> QED BY <1>1, <1>2

\* What the worker makes is what all the others take.
LEMMA MadePasses ==
    ASSUME NEW e, Made(e), maxFileBytes \in FileLimits
    PROVE  /\ e \in Evidence
           /\ ClientTakesHit(e) /\ ParsesEvidence(request, e)
           /\ SourceHolds(e, e.digest)
<1> USE LimitsAssumption
<1>1. PICK f \in Files, start \in Nat, cut \in Nat, end \in Nat :
          MadeFrom(e, f, start, cut, end)
  BY DEF Made
<1>2. f \in Seq(Nat) /\ Len(f) \in Nat /\ maxFileBytes \in 1 .. MaxFile
  BY FilesAreSequences, FilesAssumption
<1>3. /\ e.digest = f
      /\ e.range = [start |-> start, end |-> end]
      /\ e.excerpt.range = [start |-> start, end |-> cut]
      /\ e.excerpt.text = Between(f, start, cut)
      /\ e.excerpt.truncated = (cut # end)
  BY <1>1 DEF MadeFrom, Told
<1>4. /\ start <= cut /\ cut <= end /\ end <= Len(f) /\ Len(f) <= maxFileBytes
      /\ cut - start <= ExcerptBytes
  BY <1>1 DEF MadeFrom
<1>5. e.excerpt.text \in Seq(Nat) /\ Len(e.excerpt.text) = cut - start
  <2>1. cut <= Len(f)
    BY <1>2, <1>4
  <2>2. /\ Between(f, start, cut) \in Seq(Nat)
        /\ Len(Between(f, start, cut)) = cut - start
    BY <1>2, <1>4, <2>1, BetweenIs
  <2> QED BY <1>3, <2>2
<1>6. e \in Evidence
  BY <1>1, <1>3, <1>5 DEF MadeFrom, Told, Evidence, Span
<1>7. ClientTakesHit(e)
  <2>1. end <= maxFileBytes /\ cut - start \in Nat /\ cut \in start .. end
    BY <1>2, <1>4
  <2>2. (cut # end) = (cut < end)
    BY <1>4
  <2> QED BY <1>3, <1>4, <1>5, <2>1, <2>2 DEF ClientTakesHit
<1>8. EvidenceShape(e)
  BY <1>3, <1>4, <1>5 DEF EvidenceShape
<1>9. ParsesEvidence(request, e)
  BY <1>1, <1>3, <1>8 DEF ParsesEvidence, MadeFrom
<1>10. SourceHolds(e, e.digest)
  <2>1. Len(f) <= MaxFile
    BY <1>2, <1>4
  <2>2. Boundary(f, start) /\ Boundary(f, cut) /\ Boundary(f, end)
    BY <1>1 DEF MadeFrom
  <2> QED BY <1>3, <1>8, <2>1, <2>2 DEF SourceHolds
<1> QED BY <1>6, <1>7, <1>9, <1>10

\* What holds for a source is true of it.
LEMMA AcceptedIsTrue ==
    ASSUME NEW e \in Evidence, NEW f \in Files, SourceHolds(e, f)
    PROVE  LET range == e.range
               shown == e.excerpt.range
               lacking == (range.start + 1 .. range.end) \ (shown.start + 1 .. shown.end)
           IN /\ e.digest = f
              /\ e.excerpt.text = [i \in 1 .. shown.end - shown.start |->
                                     f[shown.start + i]]
              /\ \A i \in {range.start, range.end, shown.start, shown.end} :
                   i < Len(f) => f[i + 1] \notin Continuation
              /\ lacking # {} => e.excerpt.truncated
              /\ e.excerpt.truncated => lacking # {} \/ range.start = range.end
<1> DEFINE range == e.range
           shown == e.excerpt.range
           lacking == (range.start + 1 .. range.end) \ (shown.start + 1 .. shown.end)
<1>1. /\ range.start \in Nat /\ range.end \in Nat
      /\ shown.start \in Nat /\ shown.end \in Nat
      /\ f \in Seq(Nat) /\ Len(f) \in Nat
  BY FilesAreSequences DEF Evidence, Span
<1>2. EvidenceShape(e)
  BY DEF SourceHolds
<1>3. \A i \in {range.start, range.end, shown.start, shown.end} : Boundary(f, i)
  BY DEF SourceHolds
<1>4. e.excerpt.text = [i \in 1 .. shown.end - shown.start |-> f[shown.start + i]]
  <2>1. shown.start <= shown.end /\ shown.end <= Len(f)
    BY <1>2, <1>3 DEF EvidenceShape, Boundary
  <2>2. e.excerpt.text = Between(f, shown.start, shown.end)
    BY DEF SourceHolds
  <2>3. PICK a \in Nat, b \in Nat : a = shown.start /\ b = shown.end
    BY <1>1
  <2>4. f \in Seq(Nat) /\ a <= b /\ b <= Len(f)
    BY <1>1, <2>1, <2>3
  <2>5. Between(f, a, b) = [i \in 1 .. b - a |-> f[a + i]]
    BY <2>4, BetweenIs
  <2> QED BY <2>2, <2>3, <2>5
<1>5. range.start <= range.end /\ shown.start <= shown.end
      /\ e.excerpt.truncated = ~(shown.start <= range.start /\ shown.end >= range.end)
  BY <1>2 DEF EvidenceShape
<1>6. ASSUME lacking # {} PROVE e.excerpt.truncated
  <2>1. PICK x \in lacking : TRUE
    BY <1>6
  <2>2. PICK a \in Nat, b \in Nat, c \in Nat, d \in Nat :
            a = range.start /\ b = range.end /\ c = shown.start /\ d = shown.end
    BY <1>1
  <2>3. x \in (a + 1 .. b) \ (c + 1 .. d)
    BY <2>1, <2>2
  <2>4. ~(c <= a /\ d >= b)
    BY <2>3
  <2> QED BY <1>5, <2>2, <2>4
<1>7. ASSUME e.excerpt.truncated, range.start # range.end PROVE lacking # {}
  <2>1. CASE shown.start > range.start
    <3>1. range.start + 1 \in lacking
      BY <1>1, <1>5, <1>7, <2>1
    <3> QED BY <3>1
  <2>2. CASE shown.end < range.end
    <3>1. range.end \in lacking
      BY <1>1, <1>5, <1>7, <2>2
    <3> QED BY <3>1
  <2>3. ~(shown.start <= range.start /\ shown.end >= range.end)
    BY <1>5, <1>7
  <2>4. shown.start > range.start \/ shown.end < range.end
    BY <1>1, <2>3
  <2> QED BY <2>1, <2>2, <2>4
<1>8. e.digest = f
  BY DEF SourceHolds
<1> QED BY <1>3, <1>4, <1>6, <1>7, <1>8 DEF Boundary

-----------------------------------------------------------------------------
(* Requests.                                                               *)

\* Without a narrowing the scope is the one that register() has had built.
LEMMA NarrowedScope ==
    ASSUME request \in Requests, request.frame > FrameCap \/ ~request.builds
    PROVE  PatternsOf(request) # {}
<1>1. /\ request.narrow \in [include : Seq(Paths), exclude : Seq(Paths)]
      /\ request.narrow # [include |-> <<>>, exclude |-> <<>>]
      /\ request.frame \in Nat
  BY RequestsAssumption, LimitsAssumption
<1>2. PICK list \in {"include", "exclude"} : request.narrow[list] # <<>>
  BY <1>1
<1> DEFINE given == request.narrow[list]
<1>3. given \in Seq(Paths) /\ given # <<>>
  BY <1>1, <1>2
<1>4. 1 \in DOMAIN given
  <2> HIDE DEF given
  <2> QED BY <1>3, EmptySeq, LenProperties
<1>5. given[1] \in PatternsOf(request)
  BY <1>4 DEF PatternsOf
<1> QED BY <1>5

\* A request the contract took is refused for nothing that it asks.
LEMMA TakenRequest ==
    ASSUME request \in Requests, maxFileBytes \in FileLimits,
           context \in [deadlineMs : Nat, responseBytes : Nat],
           ParsesRequest(request), ParsesContext(context),
           NEW remaining \in 1 .. context.deadlineMs,
           NEW c, c = [context EXCEPT !.deadlineMs = remaining]
    PROVE  /\ ~RegistryTakes(request, c) =>
                \/ request.ids = "named"
                \/ \E p \in PatternsOf(request) : Has(p, {"bad", "dots"})
           /\ request.ids # "registered" => request.ids \in {"named", "foreign"}
           /\ ClientTakes(request, c) /\ Decodes(request)
           /\ Validate(request, c) = "REGEX_INVALID" =>
                ~IsRead(request) /\ ~request.query.supported
           /\ Validate(request, c) = "BYTE_LIMIT" =>
                /\ IsRead(request)
                /\ request.range.end - request.range.start > ExcerptBytes
           /\ Validate(request, c) = "INVALID_REQUEST" =>
                /\ IsRead(request)
                /\ \/ request.range.end > maxFileBytes
                   \/ Has(request.path, {"dots"}) /\ Has(request.path, {"separated"})
           /\ Validate(request, c) = None /\ IsRead(request) =>
                /\ request.range.start <= request.range.end
                /\ request.range.end - request.range.start <= ExcerptBytes
<1> USE LimitsAssumption
<1>1. ParsesContext(c) /\ maxFileBytes \in 1 .. MaxFile
  <2>1. c.deadlineMs = remaining /\ c.responseBytes = context.responseBytes
    OBVIOUS
  <2> QED BY <2>1, FilesAssumption DEF ParsesContext
<1>2. /\ request.ids \in {"named", "foreign", "registered"} /\ ListsFit(request)
      /\ \A p \in PatternsOf(request) : /\ p.units \in 1 .. PatternBytes
                                       /\ TextFits(p, PatternBytes) /\ p.wellFormed
  BY RequestsAssumption DEF ParsesRequest, TextFits
<1>3. ASSUME ~RegistryTakes(request, c), request.ids # "named",
             IF IsRead(request) THEN PathSchema(request.path)
             ELSE request.maxMatches \in 1 .. MaxHits
      PROVE  \E p \in PatternsOf(request) : Has(p, {"bad", "dots"})
  <2>1. ~NarrowSchema(request)
    BY <1>1, <1>2, <1>3 DEF RegistryTakes
  <2> QED BY <1>2, <2>1 DEF NarrowSchema
<1>4. CASE IsRead(request)
  <2>1. /\ request.path \in Paths /\ request.range \in Span
        /\ request.path.units \in Nat /\ request.path.bytes \in Nat
        /\ request.range.start \in Nat /\ request.range.end \in Nat
    BY <1>4, RequestsAssumption DEF IsRead, Paths, Span
  <2>2. /\ PathSchema(request.path) /\ TextFits(request.path, PathBytes)
        /\ request.range.start <= request.range.end
    BY <1>4 DEF ParsesRequest
  <2>3. request.path.units # 0 /\ request.path.bytes <= PathBytes
        /\ request.path.wellFormed
    BY <2>1, <2>2 DEF PathSchema, TextFits
  <2>4. ~ValidPath(request.path) =>
          Has(request.path, {"dots"}) /\ Has(request.path, {"separated"})
    <3> SUFFICES ASSUME ~ValidPath(request.path)
                 PROVE  Has(request.path, {"dots"}) /\ Has(request.path, {"separated"})
      OBVIOUS
    <3>1. PICK k \in DOMAIN request.path.parts : request.path.parts[k] = "dots"
      BY <2>2, <2>3 DEF ValidPath, PathSchema, Has
    <3>2. PICK j \in 1 .. k - 1 : request.path.parts[j] = "separated"
      BY <2>2, <3>1 DEF PathSchema
    <3>3. request.path.parts \in Seq(Parts)
      BY <2>1 DEF Paths
    <3>4. j \in DOMAIN request.path.parts
      <4> DEFINE parts == request.path.parts
      <4>1. parts \in Seq(Parts) /\ k \in DOMAIN parts /\ j \in 1 .. k - 1
        BY <3>1, <3>2, <3>3
      <4> HIDE DEF parts
      <4>2. j \in DOMAIN parts
        BY <4>1, LenProperties
      <4> QED BY <4>2 DEF parts
    <3> QED BY <3>1, <3>2, <3>4 DEF Has
  <2>5. ClientTakes(request, c) /\ Decodes(request)
    BY <1>1, <1>2, <1>4, <2>2, <2>3 DEF ClientTakes, WorkerRequestSchema, Decodes
  <2>6. Validate(request, c) =
          IF ~ValidPath(request.path) \/ request.range.end > maxFileBytes
          THEN "INVALID_REQUEST"
          ELSE IF request.range.end - request.range.start > ExcerptBytes
          THEN "BYTE_LIMIT" ELSE None
    BY <1>1, <1>4, <2>1, <2>2 DEF Validate
  <2> QED BY <1>2, <1>3, <1>4, <2>1, <2>2, <2>4, <2>5, <2>6, NoneAssumption
<1>5. CASE ~IsRead(request)
  <2>1. /\ request.query \in Queries /\ request.maxMatches \in Nat
        /\ request.query.units \in Nat /\ request.query.bytes \in Nat
    BY <1>5, RequestsAssumption DEF IsRead, Queries
  <2>2. /\ request.query.units \in 1 .. QueryBytes /\ request.maxMatches \in 1 .. MaxHits
        /\ TextFits(request.query, QueryBytes) /\ request.query.oneLine
    BY <1>5 DEF ParsesRequest
  <2>3. ClientTakes(request, c) /\ Decodes(request)
    BY <1>1, <1>2, <1>5, <2>2 DEF ClientTakes, WorkerRequestSchema, Decodes
  <2>4. Validate(request, c) = IF ~request.query.supported THEN "REGEX_INVALID" ELSE None
    BY <1>1, <1>5, <2>1, <2>2 DEF Validate, TextFits
  <2> QED BY <1>2, <1>3, <1>5, <2>2, <2>3, <2>4, NoneAssumption
<1> QED BY <1>4, <1>5

-----------------------------------------------------------------------------
(* The call.                                                               *)

\* Before the call nothing is built.
LEMMA StagesInit == Init => Stages
BY RequestsAssumption DEF Init, Stages

\* What the worker builds from a match or a read is evidence.
LEMMA MatchMakes ==
    ASSUME Stages, Match
    PROVE  stage' = "built" => Made(evidence')
<1> USE LimitsAssumption
<1>1. captured \in Files /\ Len(captured) <= maxFileBytes
  BY DEF Match, Stages, AtWorker
<1>2. captured \in Seq(Nat) /\ Len(captured) \in Nat
  BY <1>1, FilesAreSequences
<1>3. ASSUME stage' = "built" PROVE Made(evidence')
  <2>1. PICK start \in 0 .. Len(captured), end \in 0 .. Len(captured) :
          /\ start <= end
          /\ Boundary(captured, start) /\ Boundary(captured, end)
          /\ \E cut \in Cut(captured, start, end) :
               evidence' = Told(captured, [start |-> start, end |-> end],
                                [start |-> start, end |-> cut])
    BY <1>3 DEF Match, Refuse, Give
  <2>2. PICK cut \in Cut(captured, start, end) :
          evidence' = Told(captured, [start |-> start, end |-> end],
                           [start |-> start, end |-> cut])
    BY <2>1
  <2>3. /\ start \in Nat /\ end \in Nat /\ cut \in Nat /\ end <= Len(captured)
        /\ start <= cut /\ cut <= end /\ cut - start <= ExcerptBytes
    BY <1>2, <2>1, <2>2 DEF Cut, Least
  <2>4. Boundary(captured, cut)
    BY <2>2 DEF Cut
  <2>5. ~IsRead(request)
    BY DEF Match
  <2>6. MadeFrom(evidence', captured, start, cut, end)
    BY <1>1, <2>1, <2>2, <2>3, <2>4, <2>5 DEF MadeFrom
  <2> QED BY <1>1, <2>3, <2>6 DEF Made
<1> QED BY <1>3

\* So is what it builds from a read.
LEMMA ReadMakes ==
    ASSUME Stages, Read
    PROVE  stage' = "built" => Made(evidence')
<1> USE LimitsAssumption
<1> DEFINE range == request.range
<1>1. /\ captured \in Files /\ Len(captured) <= maxFileBytes
      /\ range.start <= range.end /\ range.end - range.start <= ExcerptBytes
      /\ IsRead(request)
  BY DEF Read, Stages, AtWorker
<1>2. /\ captured \in Seq(Nat) /\ Len(captured) \in Nat
      /\ range \in Span
  BY <1>1, FilesAreSequences, RequestsAssumption DEF IsRead, Stages
<1>3. ASSUME stage' = "built" PROVE Made(evidence')
  <2>1. /\ request.operation = "read-verified" => request.expected = captured
        /\ Boundary(captured, range.start) /\ Boundary(captured, range.end)
        /\ evidence' = Told(captured, range, range)
    BY <1>3 DEF Read, Refuse, Give
  <2>2. /\ range = [start |-> range.start, end |-> range.end]
        /\ range.start \in Nat /\ range.end \in Nat
    BY <1>2 DEF Span
  <2>3. range.end <= Len(captured) /\ range.end <= range.end
    BY <2>1, <2>2 DEF Boundary
  <2>4. MadeFrom(evidence', captured, range.start, range.end, range.end)
    BY <1>1, <2>1, <2>2, <2>3 DEF MadeFrom
  <2> QED BY <1>1, <2>2, <2>4 DEF Made
<1> QED BY <1>3

\* What was made stays made: the request and its policy are fixed.
LEMMA MadeStays ==
    ASSUME UNCHANGED <<request, maxFileBytes>>, Made(evidence')
    PROVE  Made(evidence)'
<1>1. PICK f \in Files, start \in Nat, cut \in Nat, end \in Nat :
          MadeFrom(evidence', f, start, cut, end)
  BY DEF Made
<1>2. MadeFrom(evidence, f, start, cut, end)'
  BY <1>1 DEF MadeFrom, IsRead, Told, Boundary, Between
<1> QED BY <1>2 DEF Made

\* Evidence retold is still of its type.
LEMMA RetoldIsEvidence ==
    ASSUME Stages, Retell
    PROVE  handed' \in Evidence
<1>1. handed \in Evidence
  BY DEF Stages, Retell
<1>2. Spans \subseteq Span
  BY FilesAreSequences DEF Spans, Span, Offsets
<1>3. ASSUME NEW f \in Files, NEW s \in Spans, Boundary(f, s.start), Boundary(f, s.end)
      PROVE  Between(f, s.start, s.end) \in Seq(Nat)
  BY <1>2, <1>3, FilesAreSequences DEF Between, Span, Boundary
<1>4. CASE \E s \in Spans : handed' = [handed EXCEPT !.range = s]
  BY <1>1, <1>2, <1>4 DEF Evidence
<1>5. CASE \E s \in Spans : handed' = [handed EXCEPT !.excerpt.range = s]
  BY <1>1, <1>2, <1>5 DEF Evidence
<1>6. CASE \E f \in Files : \E s \in Spans :
              /\ Boundary(f, s.start) /\ Boundary(f, s.end)
              /\ handed' = [handed EXCEPT !.excerpt.text = Between(f, s.start, s.end)]
  <2>1. PICK f \in Files, s \in Spans :
          /\ Boundary(f, s.start) /\ Boundary(f, s.end)
          /\ handed' = [handed EXCEPT !.excerpt.text = Between(f, s.start, s.end)]
    BY <1>6
  <2>2. Between(f, s.start, s.end) \in Seq(Nat)
    BY <1>3, <2>1
  <2> QED BY <1>1, <2>1, <2>2 DEF Evidence
<1>7. CASE \E f \in Files : handed' = [handed EXCEPT !.digest = f]
  BY <1>1, <1>7 DEF Evidence
<1>8. CASE \E b \in BOOLEAN : handed' = [handed EXCEPT !.excerpt.truncated = b]
  BY <1>1, <1>8 DEF Evidence
<1>9. CASE \E s, t \in Spans, b \in BOOLEAN :
              /\ t.end = t.start + Len(handed.excerpt.text)
              /\ handed' = [handed EXCEPT !.range = s, !.excerpt.range = t,
                                         !.excerpt.truncated = b]
  <2>1. PICK s \in Spans, t \in Spans, b \in BOOLEAN :
          handed' = [handed EXCEPT !.range = s, !.excerpt.range = t,
                                   !.excerpt.truncated = b]
    BY <1>9
  <2>2. s \in Span /\ t \in Span
    BY <1>2
  <2> DEFINE told == [handed EXCEPT !.range = s]
             placed == [told EXCEPT !.excerpt.range = t]
  <2>3. told \in Evidence
    BY <1>1, <2>2 DEF Evidence
  <2>4. placed \in Evidence
    <3> HIDE DEF told
    <3> QED BY <2>2, <2>3 DEF Evidence
  <2>5. [placed EXCEPT !.excerpt.truncated = b] \in Evidence
    <3> HIDE DEF placed
    <3> QED BY <2>4 DEF Evidence
  <2> QED BY <2>1, <2>5
<1>10. \/ \E s \in Spans : handed' = [handed EXCEPT !.range = s]
       \/ \E s \in Spans : handed' = [handed EXCEPT !.excerpt.range = s]
       \/ \E f \in Files : \E s \in Spans :
            /\ Boundary(f, s.start) /\ Boundary(f, s.end)
            /\ handed' = [handed EXCEPT !.excerpt.text = Between(f, s.start, s.end)]
       \/ \E f \in Files : handed' = [handed EXCEPT !.digest = f]
       \/ \E b \in BOOLEAN : handed' = [handed EXCEPT !.excerpt.truncated = b]
       \/ \E s, t \in Spans, b \in BOOLEAN :
            /\ t.end = t.start + Len(handed.excerpt.text)
            /\ handed' = [handed EXCEPT !.range = s, !.excerpt.range = t,
                                       !.excerpt.truncated = b]
  BY Zenon DEF Retell
<1> QED BY Zenon, <1>4, <1>5, <1>6, <1>7, <1>8, <1>9, <1>10

\* Reasons stay while the request, its policy and the file do.
LEMMA WarrantStays ==
    ASSUME UNCHANGED <<request, maxFileBytes, captured>>, NEW by, NEW code
    PROVE  Warranted(by, code)' <=> Warranted(by, code)
<1>1. PatternsOf(request)' = PatternsOf(request)
  BY DEF PatternsOf
<1>2. ASSUME NEW i PROVE Boundary(captured, i)' <=> Boundary(captured, i)
  BY DEF Boundary
<1> QED BY <1>1, <1>2 DEF Warranted, Has, IsRead, Boundary

\* Dispatch either hands the request to the worker or says why it does not.
LEMMA DispatchStep ==
    ASSUME Stages, Dispatch
    PROVE  \/ stage' = "worker" /\ UNCHANGED <<refusal, evidence>> /\ AtWorker'
           \/ stage' = "refused" /\ evidence' = evidence /\ RefusedForAReason'
<1>1. /\ request \in Requests /\ maxFileBytes \in FileLimits
      /\ context \in [deadlineMs : Nat, responseBytes : Nat]
      /\ ParsesRequest(request) /\ ParsesContext(context)
  BY DEF Stages, Dispatch
<1>2. PICK remaining \in 0 .. context.deadlineMs :
        LET c == [context EXCEPT !.deadlineMs = remaining] IN
        IF remaining < 1 THEN Refuse("service", "DEADLINE")
        ELSE IF ~RegistryTakes(request, c) THEN Refuse("registry", "INVALID_REQUEST")
        ELSE IF request.ids # "registered" THEN Refuse("registry", "OUT_OF_SCOPE")
        ELSE IF ~ClientTakes(request, c) THEN Refuse("client", "INVALID_REQUEST")
        ELSE IF request.frame > FrameCap THEN Refuse("client", "WORKER_EXIT")
        ELSE IF ~Decodes(request) THEN Refuse("client", "WORKER_PROTOCOL")
        ELSE IF Validate(request, c) # None THEN Refuse("worker", Validate(request, c))
        ELSE IF ~request.builds THEN Refuse("worker", "INVALID_REQUEST")
        ELSE /\ GoOn("worker") /\ UNCHANGED evidence
             /\ captured' \in {f \in Files : Len(f) <= maxFileBytes}
  BY DEF Dispatch
<1>3. request' = request /\ maxFileBytes' = maxFileBytes
  BY DEF Dispatch
<1>r. ASSUME NEW by, NEW code, Refuse(by, code), Warranted(by, code)
      PROVE  stage' = "refused" /\ evidence' = evidence /\ RefusedForAReason'
  <2>1. /\ stage' = "refused" /\ evidence' = evidence /\ captured' = captured
        /\ refusal'.by = by /\ refusal'.code = code
    BY <1>r DEF Refuse
  <2>2. Warranted(by, code)'
    BY <1>3, <1>r, <2>1, WarrantStays
  <2> QED BY <2>1, <2>2 DEF RefusedForAReason
<1>4. CASE remaining < 1
  <2>1. Refuse("service", "DEADLINE")
    BY <1>2, <1>4
  <2> QED BY <1>r, <2>1 DEF Warranted
<1>5. CASE ~(remaining < 1)
  <2> DEFINE c == [context EXCEPT !.deadlineMs = remaining]
  <2>1. remaining \in 1 .. context.deadlineMs
    BY <1>1, <1>5
  <2> HIDE DEF c
  <2>2. /\ ~RegistryTakes(request, c) =>
             \/ request.ids = "named"
             \/ \E p \in PatternsOf(request) : Has(p, {"bad", "dots"})
        /\ request.ids # "registered" => request.ids \in {"named", "foreign"}
        /\ ClientTakes(request, c) /\ Decodes(request)
    BY <1>1, <2>1, TakenRequest DEF c
  <2>3. /\ Validate(request, c) = "REGEX_INVALID" =>
             ~IsRead(request) /\ ~request.query.supported
        /\ Validate(request, c) = "BYTE_LIMIT" =>
             /\ IsRead(request)
             /\ request.range.end - request.range.start > ExcerptBytes
        /\ Validate(request, c) = "INVALID_REQUEST" =>
             /\ IsRead(request)
             /\ \/ request.range.end > maxFileBytes
                \/ Has(request.path, {"dots"}) /\ Has(request.path, {"separated"})
        /\ Validate(request, c) = None /\ IsRead(request) =>
             /\ request.range.start <= request.range.end
             /\ request.range.end - request.range.start <= ExcerptBytes
    BY <1>1, <2>1, TakenRequest DEF c
  <2>4. CASE ~RegistryTakes(request, c)
    <3>1. Refuse("registry", "INVALID_REQUEST")
      BY <1>2, <1>5, <2>4 DEF c
    <3>2. Warranted("registry", "INVALID_REQUEST")
      BY <2>2, <2>4 DEF Warranted
    <3> QED BY <1>r, <3>1, <3>2
  <2>5. CASE RegistryTakes(request, c) /\ request.ids # "registered"
    <3>1. Refuse("registry", "OUT_OF_SCOPE")
      BY <1>2, <1>5, <2>5 DEF c
    <3>2. Warranted("registry", "OUT_OF_SCOPE")
      BY <2>2, <2>5 DEF Warranted, RegistryTakes
    <3> QED BY <1>r, <3>1, <3>2
  <2> DEFINE reaches == RegistryTakes(request, c) /\ request.ids = "registered"
  <2>6. CASE reaches /\ request.frame > FrameCap
    <3>1. Refuse("client", "WORKER_EXIT")
      BY <1>2, <1>5, <2>2, <2>6 DEF c
    <3>2. Warranted("client", "WORKER_EXIT")
      BY <1>1, <2>6, NarrowedScope DEF Warranted
    <3> QED BY <1>r, <3>1, <3>2
  <2>7. CASE reaches /\ ~(request.frame > FrameCap) /\ Validate(request, c) # None
    <3>1. Refuse("worker", Validate(request, c))
      BY <1>2, <1>5, <2>2, <2>7 DEF c
    <3>2. Warranted("worker", Validate(request, c))
      BY <2>3 DEF Warranted
    <3> QED BY <1>r, <3>1, <3>2
  <2>8. CASE /\ reaches /\ ~(request.frame > FrameCap) /\ Validate(request, c) = None
             /\ ~request.builds
    <3>1. Refuse("worker", "INVALID_REQUEST")
      BY <1>2, <1>5, <2>2, <2>8 DEF c
    <3>2. Warranted("worker", "INVALID_REQUEST")
      BY <1>1, <2>8, NarrowedScope DEF Warranted
    <3> QED BY <1>r, <3>1, <3>2
  <2>9. CASE /\ reaches /\ ~(request.frame > FrameCap) /\ Validate(request, c) = None
             /\ request.builds
    <3>1. /\ GoOn("worker") /\ UNCHANGED evidence
          /\ captured' \in {f \in Files : Len(f) <= maxFileBytes}
      BY <1>2, <1>5, <2>2, <2>9 DEF c
    <3> QED BY <1>3, <2>3, <2>9, <3>1 DEF GoOn, AtWorker, IsRead
  <2> QED BY <2>4, <2>5, <2>6, <2>7, <2>8, <2>9
<1> QED BY <1>4, <1>5

\* The client and the contract take what the worker made.
LEMMA ReturnStep ==
    ASSUME Stages, Return
    PROVE  stage' = "answered" /\ handed' = evidence /\ evidence' = evidence
           /\ refusal' = refusal /\ evidence \in Evidence
<1>1. Made(evidence) /\ maxFileBytes \in FileLimits
  BY DEF Stages, Return
<1>2. /\ evidence \in Evidence
      /\ ClientTakesHit(evidence) /\ ParsesEvidence(request, evidence)
  BY <1>1, MadePasses
<1> QED BY <1>2 DEF Return, GoOn

\* Every step of the call leaves what was built evidence.
LEMMA StagesNext == Stages /\ [Next]_vars => Stages'
<1> SUFFICES ASSUME Stages, [Next]_vars PROVE Stages'
  OBVIOUS
<1>1. CASE UNCHANGED vars
  <2>1. Made(evidence) => Made(evidence)'
    BY <1>1, MadeStays DEF vars
  <2> QED BY <1>1, <2>1
       DEF vars, Stages, AtWorker, IsRead, ParsesRequest, ParsesContext, ListsFit,
           PatternsOf, PathSchema, Has, TextFits
<1>2. ASSUME NEW s \in {"parsed", "worker", "refused"},
             /\ stage' = s /\ evidence' = evidence
             /\ stage \notin {"built", "answered", "refused"}
             /\ UNCHANGED <<request, maxFileBytes, verdict>>
             /\ context' \in [deadlineMs : Nat, responseBytes : Nat]
             /\ s # "refused" => refusal' = refusal
             /\ s = "parsed" => ParsesRequest(request)' /\ ParsesContext(context)'
             /\ s = "worker" => AtWorker'
      PROVE  Stages'
  BY <1>2 DEF Stages
<1>3. CASE Execute
  <2>1. request' = request
    BY <1>3 DEF Execute
  <2>2. CASE ~(ParsesRequest(request) /\ ParsesContext(context))
    BY <1>2, <1>3, <2>2 DEF Execute, Refuse, Stages
  <2>3. CASE ParsesRequest(request) /\ ParsesContext(context)
    <3>1. PICK caps \in Caps :
            context' = [deadlineMs |-> Least(context.deadlineMs, caps.deadlineMs),
                        responseBytes |->
                          Least(context.responseBytes, caps.responseBytes)]
      BY <1>3, <2>3 DEF Execute
    <3>2. /\ context.deadlineMs \in 1 .. MaxDeadline
          /\ context.responseBytes \in MinResponse .. MaxResponse
          /\ caps.deadlineMs \in 1 .. MaxDeadline
          /\ caps.responseBytes \in MinResponse .. MaxResponse
      BY <2>3, RequestsAssumption DEF ParsesContext
    <3>3. /\ context'.deadlineMs \in 1 .. MaxDeadline
          /\ context'.responseBytes \in MinResponse .. MaxResponse
          /\ context' \in [deadlineMs : Nat, responseBytes : Nat]
      BY <3>1, <3>2, LimitsAssumption DEF Least
    <3>4. ParsesContext(context)'
      BY <3>3 DEF ParsesContext
    <3>5. ParsesRequest(request)'
      BY <2>1, <2>3 DEF ParsesRequest, IsRead, ListsFit, PatternsOf, PathSchema, Has,
                        TextFits
    <3> QED BY <1>2, <1>3, <2>3, <3>3, <3>4, <3>5 DEF Execute, GoOn
  <2> QED BY <2>2, <2>3
<1>4. CASE Dispatch
  BY <1>2, <1>4, DispatchStep DEF Dispatch, Stages
<1>5. ASSUME Match \/ Read PROVE Stages'
  <2>1. /\ UNCHANGED <<request, context, maxFileBytes, verdict>>
        /\ stage = "worker"
        /\ \/ stage' = "refused" /\ evidence' = evidence
           \/ stage' = "built" /\ refusal' = refusal
    BY <1>5 DEF Match, Read, Refuse, Give, GoOn
  <2>2. stage' = "built" => Made(evidence)'
    <3>1. stage' = "built" => Made(evidence')
      BY <1>5, MatchMakes, ReadMakes
    <3> QED BY <2>1, <3>1, MadeStays
  <2> QED BY <2>1, <2>2 DEF Stages
<1>6. ASSUME /\ stage' = "answered" /\ stage \in {"built", "answered"}
             /\ UNCHANGED <<request, context, maxFileBytes, refusal, evidence>>
             /\ handed' \in Evidence
      PROVE  Stages'
  <2>1. Made(evidence)'
    BY <1>6, MadeStays DEF Stages
  <2>2. handed' \in Evidence'
    BY <1>6 DEF Evidence
  <2> QED BY <1>6, <2>1, <2>2 DEF Stages
<1>7. CASE Return
  BY <1>6, <1>7, ReturnStep DEF Return
<1>8. CASE Retell
  BY <1>6, <1>8, RetoldIsEvidence DEF Retell
<1>9. CASE Assert
  BY <1>6, <1>9 DEF Assert, Stages
<1> QED BY <1>1, <1>3, <1>4, <1>5, <1>7, <1>8, <1>9 DEF Next

\* The verdict of assertHandleSource() is given once, and stays true.
LEMMA JudgedNext == Stages /\ Judged /\ [Next]_vars => Judged'
<1> SUFFICES ASSUME Stages, Judged, [Next]_vars PROVE Judged'
  OBVIOUS
<1>1. CASE UNCHANGED vars
  BY <1>1 DEF vars, Judged, SourceHolds, EvidenceShape
<1>2. CASE Assert
  <2>1. PICK f \in Files :
          /\ captured' = f /\ handed' = handed
          /\ verdict' = IF SourceHolds(handed, f) THEN "accepted" ELSE "rejected"
    BY <1>2 DEF Assert
  <2>2. SourceHolds(handed, captured)' <=> SourceHolds(handed, f)
    BY <2>1 DEF SourceHolds, EvidenceShape
  <2> QED BY <2>1, <2>2 DEF Judged
<1>3. ASSUME Execute \/ Dispatch \/ Match \/ Read \/ Return \/ Retell PROVE Judged'
  <2>1. verdict' = verdict /\ verdict = None
    BY <1>3 DEF Execute, Dispatch, Match, Read, Return, Retell, Stages
  <2> QED BY <2>1, NoneAssumption DEF Judged
<1> QED BY <1>1, <1>2, <1>3 DEF Next

\* A step that refuses has its reason.
LEMMA RefusedNext == Stages /\ RefusedForAReason /\ [Next]_vars => RefusedForAReason'
<1> SUFFICES ASSUME Stages, RefusedForAReason, [Next]_vars PROVE RefusedForAReason'
  OBVIOUS
<1>1. CASE UNCHANGED vars
  BY <1>1, WarrantStays DEF vars, RefusedForAReason
<1>2. CASE Dispatch
  BY <1>2, DispatchStep DEF RefusedForAReason, Stages, Dispatch
<1>3. CASE Execute
  BY <1>3 DEF Execute, Refuse, GoOn, RefusedForAReason, Warranted, Stages
<1>4. CASE Match
  <2>1. refusal = None
    BY <1>4 DEF Match, Stages
  <2>2. \/ refusal' = [by |-> "worker", code |-> "MATCH_ENCODING"]
        \/ refusal' = refusal
    BY <1>4 DEF Match, Refuse, Give, GoOn
  <2> QED BY <2>1, <2>2 DEF RefusedForAReason, Warranted
<1>5. CASE Read
  <2>1. refusal = None /\ captured # None
    BY <1>5, NoneAssumption DEF Read, Stages, AtWorker
  <2>2. \/ refusal' = [by |-> "worker", code |-> "REVISION_MISMATCH"]
        \/ refusal' = refusal
        \/ /\ refusal' = [by |-> "worker", code |-> "INVALID_REQUEST"]
           /\ captured' = captured
           /\ ~Boundary(captured, request.range.start)
                \/ ~Boundary(captured, request.range.end)
    BY <1>5 DEF Read, Refuse, Give, GoOn
  <2>3. request' = request /\ IsRead(request)
    BY <1>5 DEF Read
  <2> QED BY <2>1, <2>2, <2>3 DEF RefusedForAReason, Warranted, IsRead, Boundary
<1>6. ASSUME Return \/ Retell \/ Assert PROVE RefusedForAReason'
  <2>1. refusal' = refusal /\ refusal = None
    BY <1>6, ReturnStep DEF Return, Retell, Assert, Stages
  <2> QED BY <2>1 DEF RefusedForAReason
<1> QED BY <1>1, <1>2, <1>3, <1>4, <1>5, <1>6 DEF Next

-----------------------------------------------------------------------------
(* What it comes to.                                                       *)

\* What holds of every call.
LEMMA Always == Spec => [](Stages /\ Judged)
<1>1. Init => Judged
  BY NoneAssumption DEF Init, Judged
<1> QED BY <1>1, StagesInit, StagesNext, JudgedNext, PTL DEF Spec

\* For every limit and request: behind the contract a request is refused only for what
\* the contract does not ask of it.
THEOREM RefusalsHaveReasons == Spec => []RefusedForAReason
<1>1. Init => RefusedForAReason
  BY DEF Init, RefusedForAReason
<1> QED BY <1>1, StagesInit, StagesNext, RefusedNext, PTL DEF Spec

\* Evidence that the worker makes passes the client, the contract and the reader of a
\* source who has the file it was made from.
THEOREM LayersAgree == Spec => []EvidencePasses
<1>1. ASSUME Stages, Judged PROVE EvidencePasses
  <2>1. stage = "refused" => evidence = None
    BY <1>1 DEF Stages
  <2>2. ASSUME verdict # None, handed = evidence, captured = evidence.digest
        PROVE  verdict = "accepted"
    <3>1. Made(evidence) /\ maxFileBytes \in FileLimits
      BY <1>1, <2>2 DEF Stages
    <3>2. SourceHolds(handed, captured)
      BY <2>2, <3>1, MadePasses
    <3> QED BY <1>1, <2>2, <3>2 DEF Judged
  <2> QED BY <2>1, <2>2 DEF EvidencePasses
<1> QED BY <1>1, Always, PTL

\* However evidence is retold, a source only bears out what is true of it.
THEOREM AcceptedEvidenceIsTrue == Spec => []OnlyTrueEvidence
<1>1. ASSUME Stages, Judged PROVE OnlyTrueEvidence
  <2> SUFFICES ASSUME verdict = "accepted" PROVE OnlyTrueEvidence
    BY DEF OnlyTrueEvidence
  <2>1. captured \in Files /\ SourceHolds(handed, captured)
    BY <1>1 DEF Judged
  <2>2. handed \in Evidence
    BY <1>1, NoneAssumption DEF Stages
  <2> QED BY <2>1, <2>2, AcceptedIsTrue DEF OnlyTrueEvidence
<1> QED BY <1>1, Always, PTL
=============================================================================
