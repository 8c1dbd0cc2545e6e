------------------------------ MODULE Contract -------------------------------
(***************************************************************************)
(* What a request and its evidence go through: parseRequest(), the schemas *)
(* of the registry and of the worker, validate() and search_file() of the  *)
(* worker, validateWorkerResponse() and parseResponse() on the way back,   *)
(* and assertEvidenceSource() by whoever is handed the evidence later.     *)
(*                                                                         *)
(* A text is known by its UTF-16 units, its UTF-8 bytes and what the       *)
(* checks ask of it, a path or pattern by what each part between its       *)
(* slashes is.  A file is a sequence of octets, of which those in          *)
(* Continuation are not the first of a character; its digest is itself.    *)
(* Matches are ranges, any: the matcher is not modelled.  How the lists of *)
(* a scope add up is in ScopePolicy.                                       *)
(***************************************************************************)
EXTENDS Naturals, Sequences

CONSTANTS
    QueryBytes, PathBytes, MaxHits,  \* LIMITS of the contract: 8192, 4096, 1000
    PatternBytes, MaxPatterns,       \* 1024 of a pattern, 64 of a list
    FrameCap,                        \* 1 MiB, of a request to the worker
    MaxDeadline, MinResponse, MaxResponse,  \* 30 000, 2048 and 1 MiB
    ExcerptBytes,     \* 4096, of an excerpt and of a read
    MaxFile,          \* 16 MiB
    Requests,         \* what callers send
    Contexts, Caps,   \* what they and the deployment allow it to cost
    FileLimits,       \* maxFileBytes of the policy
    Files, Continuation,
    None

Offsets == UNION {0 .. Len(f) : f \in Files}
Span == [start : Nat, end : Nat]

ASSUME FilesAssumption ==
    /\ Files \subseteq Seq(Nat) /\ Continuation \subseteq Nat
    /\ FileLimits \subseteq 1 .. MaxFile
ASSUME NoneAssumption ==
    None \notin Files \cup {"INVALID_REQUEST", "BYTE_LIMIT", "REGEX_INVALID",
                           "accepted", "rejected"}
ASSUME LimitsAssumption ==
    /\ QueryBytes \in Nat /\ PathBytes \in Nat /\ MaxHits \in Nat
    /\ PatternBytes \in Nat /\ MaxPatterns \in Nat /\ FrameCap \in Nat
    /\ MaxDeadline \in Nat /\ MinResponse \in Nat /\ MaxResponse \in Nat
    /\ ExcerptBytes \in Nat /\ MaxFile \in Nat
    /\ MinResponse <= MaxResponse

\* A part is "." or "..", one with U+2028 or U+2029 in it, one that no layer should
\* take (empty, with a backslash, NUL, CR or LF, with "!" before a pattern), or a name.
Parts == {"dots", "separated", "bad", "name"}
\* No character has fewer bytes than units.
Paths == {t \in [units : Nat, bytes : Nat, wellFormed : BOOLEAN, parts : Seq(Parts)] :
            t.units <= t.bytes}
Queries == {t \in [units : Nat, bytes : Nat, wellFormed : BOOLEAN, oneLine : BOOLEAN,
                   supported : BOOLEAN] : t.units <= t.bytes}
\* A request names a query or the range of a read; the other is not there.  Its two ids
\* are no ids, ids that are no UUIDs, UUIDs of no registration, or a registration's.
\* Of the scope that the policy makes with its narrowing: whether globset builds it,
\* and the bytes of the frame; without a narrowing register() has had it built, and it
\* takes 128 patterns of 1024 characters, six bytes each in JSON, beside the query.
ASSUME RequestsAssumption ==
    /\ \A r \in Requests :
          /\ r.operation \in {"exact", "read-verified", "read-fresh"}
          /\ r.ids \in {"malformed", "named", "foreign", "registered"}
          /\ r.narrow \in [include : Seq(Paths), exclude : Seq(Paths)]
          /\ r.builds \in BOOLEAN /\ r.frame \in Nat
          /\ r.narrow = [include |-> <<>>, exclude |-> <<>>] =>
               r.builds /\ r.frame <= FrameCap
          /\ IF r.operation = "exact" THEN r.query \in Queries /\ r.maxMatches \in Nat
             ELSE /\ r.path \in Paths /\ r.range \in Span /\ r.byteBudget \in Nat
                  /\ r.expected \in Files
    /\ Contexts \cup Caps \subseteq [deadlineMs : Nat, responseBytes : Nat]
    /\ \A c \in Caps : /\ c.deadlineMs \in 1 .. MaxDeadline
                       /\ c.responseBytes \in MinResponse .. MaxResponse

VARIABLES
    request, context, maxFileBytes,  \* the call and the policy it falls under
    stage,     \* "given", "parsed", "worker", "built", "answered" or "refused"
    refusal,   \* by whom, and the code, or None
    captured,  \* the bytes the worker captured
    evidence,  \* what it made of them, or None
    handed,    \* the evidence as it is told later
    verdict    \* of assertEvidenceSource() on it: None, "accepted" or "rejected"

vars == <<request, context, maxFileBytes, stage, refusal, captured, evidence, handed,
          verdict>>

Least(a, b) == IF a < b THEN a ELSE b
IsRead(r) == r.operation # "exact"

-----------------------------------------------------------------------------
(* The request.                                                            *)

TextFitsUnits(t, max) == t.units <= max /\ t.wellFormed
\* byteText()
TextFits(t, max) == t.wellFormed /\ t.bytes <= max

Has(t, kinds) == \E k \in DOMAIN t.parts : t.parts[k] \in kinds
\* PathSchema: the dot of its lookahead stops at U+2028 and U+2029.
PathSchema(t) ==
    /\ t.units \in 1 .. PathBytes /\ ~Has(t, {"bad"})
    /\ \A k \in DOMAIN t.parts :
         t.parts[k] = "dots" => \E j \in 1 .. k - 1 : t.parts[j] = "separated"

PatternsOf(r) == UNION {{r.narrow[list][k] : k \in DOMAIN r.narrow[list]} :
                          list \in {"include", "exclude"}}
ListsFit(r) == \A list \in {"include", "exclude"} : Len(r.narrow[list]) <= MaxPatterns

\* parseRequest()
ParsesRequest(r) ==
    /\ r.ids # "malformed" /\ ListsFit(r)
    /\ \A p \in PatternsOf(r) : p.units \in 1 .. PatternBytes /\ TextFits(p, PatternBytes)
    /\ IF IsRead(r)
       THEN /\ PathSchema(r.path) /\ r.byteBudget \in 1 .. MaxResponse
            /\ TextFits(r.path, PathBytes) /\ r.range.start <= r.range.end
            /\ r.range.end - r.range.start <= r.byteBudget
       ELSE /\ r.query.units \in 1 .. QueryBytes /\ r.maxMatches \in 1 .. MaxHits
            /\ TextFits(r.query, QueryBytes) /\ r.query.oneLine
\* RequestContextSchema
ParsesContext(c) ==
    /\ c.deadlineMs \in 1 .. MaxDeadline /\ c.responseBytes \in MinResponse .. MaxResponse

\* NarrowSchema
NarrowSchema(r) ==
    /\ ListsFit(r)
    /\ \A p \in PatternsOf(r) : /\ p.units \in 1 .. PatternBytes
                                /\ TextFits(p, PatternBytes) /\ ~Has(p, {"bad", "dots"})
\* SearchSchema of the registry.
RegistryTakes(r, c) ==
    /\ r.ids \in {"foreign", "registered"} /\ NarrowSchema(r) /\ ParsesContext(c)
    /\ IF IsRead(r) THEN PathSchema(r.path) ELSE r.maxMatches \in 1 .. MaxHits

\* WorkerRequestSchema
WorkerRequestSchema(r, c) ==
    /\ ParsesContext(c) /\ maxFileBytes \in 1 .. MaxFile
    /\ IF IsRead(r) THEN PathSchema(r.path)
       ELSE r.query.units \in 1 .. QueryBytes /\ r.maxMatches \in 1 .. MaxHits
\* search() of the client.
ClientTakes(r, c) ==
    /\ WorkerRequestSchema(r, c)
    /\ ~IsRead(r) => TextFits(r.query, QueryBytes) /\ r.query.oneLine

\* serde reads no string with half a surrogate pair: the request has no id then, and
\* the client takes the answer for a protocol error.
Decodes(r) == /\ IsRead(r) => r.path.wellFormed
              /\ \A p \in PatternsOf(r) : p.wellFormed

\* valid_path()
ValidPath(t) == t.units # 0 /\ t.bytes <= PathBytes /\ ~Has(t, {"bad", "dots"})

\* validate(): the code, or None.
Validate(r, c) ==
    IF ~ParsesContext(c) \/ maxFileBytes \notin 1 .. MaxFile THEN "INVALID_REQUEST"
    ELSE IF IsRead(r)
    THEN IF \/ ~ValidPath(r.path)
            \/ r.range.start > r.range.end \/ r.range.end > maxFileBytes
         THEN "INVALID_REQUEST"
         ELSE IF r.range.end - r.range.start > ExcerptBytes THEN "BYTE_LIMIT" ELSE None
    ELSE IF \/ r.query.units = 0 \/ r.query.bytes > QueryBytes \/ ~r.query.oneLine
            \/ r.maxMatches \notin 1 .. MaxHits
         THEN "INVALID_REQUEST"
         ELSE IF ~r.query.supported THEN "REGEX_INVALID" ELSE None

Init ==
    /\ request \in Requests /\ maxFileBytes \in FileLimits
    /\ context \in Contexts
    /\ stage = "given" /\ refusal = None
    /\ captured = None /\ evidence = None /\ handed = None /\ verdict = None

Refuse(by, code) ==
    /\ stage' = "refused" /\ refusal' = [by |-> by, code |-> code]
    /\ UNCHANGED <<captured, evidence>>
GoOn(s) == stage' = s /\ UNCHANGED refusal

\* execute(): the request and the context are parsed, the context is capped.
Execute ==
    /\ stage = "given"
    /\ IF ParsesRequest(request) /\ ParsesContext(context)
       THEN /\ GoOn("parsed") /\ UNCHANGED <<captured, evidence>>
            /\ \E caps \in Caps :
                 context' = [deadlineMs |-> Least(context.deadlineMs, caps.deadlineMs),
                                          responseBytes |->
                                Least(context.responseBytes, caps.responseBytes)]
       ELSE Refuse("contract", "INVALID_REQUEST") /\ UNCHANGED context
    /\ UNCHANGED <<request, maxFileBytes, handed, verdict>>

\* What is left of the deadline goes with the request through registry, client and
\* worker, which captures a file.  A frame beyond the cap ends the child.
Dispatch ==
    /\ stage = "parsed"
    /\ \E remaining \in 0 .. context.deadlineMs :
         LET c == [context EXCEPT !.deadlineMs = remaining] IN
         IF remaining < 1 THEN Refuse("service", "DEADLINE")
         ELSE IF ~RegistryTakes(request, c) THEN Refuse("registry", "INVALID_REQUEST")
         ELSE IF request.ids # "registered" THEN Refuse("registry", "OUT_OF_SCOPE")
         ELSE IF ~ClientTakes(request, c) THEN Refuse("client", "INVALID_REQUEST")
         ELSE IF request.frame > FrameCap THEN Refuse("client", "WORKER_EXIT")
         ELSE IF ~Decodes(request) THEN Refuse("client", "WORKER_PROTOCOL")
         ELSE IF Validate(request, c) # None THEN Refuse("worker", Validate(request, c))
         ELSE IF ~request.builds THEN Refuse("worker", "INVALID_REQUEST")
         ELSE /\ GoOn("worker") /\ UNCHANGED evidence
              /\ captured' \in {f \in Files : Len(f) <= maxFileBytes}
    /\ UNCHANGED <<request, context, maxFileBytes, handed, verdict>>

-----------------------------------------------------------------------------
(* The evidence.                                                           *)

\* is_char_boundary()
Boundary(f, i) == i <= Len(f) /\ (i < Len(f) => f[i + 1] \notin Continuation)
Between(f, start, end) == SubSeq(f, start + 1, end)

Told(f, range, shown) ==
    [digest |-> f, range |-> range,
     excerpt |-> [range |-> shown, text |-> Between(f, shown.start, shown.end),
                  truncated |-> shown.end # range.end]]

Give(e) == GoOn("built") /\ evidence' = e /\ UNCHANGED captured

CutAnywhere(f, start, end) == {Least(end, start + ExcerptBytes)}
\* Where an excerpt ends: at its cap, or before the character that is there.
Cut(f, start, end) ==
    LET cap == Least(end, start + ExcerptBytes)
    IN {i \in start .. cap : Boundary(f, i) /\ \A j \in i + 1 .. cap : ~Boundary(f, j)}

\* search_file(): a match.  "refused" says that no evidence comes of it.
Match ==
    /\ stage = "worker" /\ ~IsRead(request) /\ captured # <<>>
    /\ \E start, end \in 0 .. Len(captured) :
         /\ start <= end
         /\ IF ~Boundary(captured, start) \/ ~Boundary(captured, end)
            THEN Refuse("worker", "MATCH_ENCODING")
            ELSE \E cut \in Cut(captured, start, end) :
                   Give(Told(captured, [start |-> start, end |-> end],
                             [start |-> start, end |-> cut]))
    /\ UNCHANGED <<request, context, maxFileBytes, handed, verdict>>

\* search_file(): a read.
Read ==
    LET range == request.range IN
    /\ stage = "worker" /\ IsRead(request)
    /\ IF request.operation = "read-verified" /\ request.expected # captured
       THEN Refuse("worker", "REVISION_MISMATCH")
       ELSE IF ~Boundary(captured, range.start) \/ ~Boundary(captured, range.end)
       THEN Refuse("worker", "INVALID_REQUEST")
       ELSE Give(Told(captured, range, range))
    /\ UNCHANGED <<request, context, maxFileBytes, handed, verdict>>

\* The evidence part of validateWorkerResponse().
ClientTakesHit(h) ==
    LET shown == h.excerpt.range IN
    /\ h.range.start <= h.range.end /\ h.range.end <= maxFileBytes
    /\ shown.start = h.range.start /\ shown.end \in h.range.start .. h.range.end
    /\ Len(h.excerpt.text) <= ExcerptBytes
    /\ Len(h.excerpt.text) = shown.end - shown.start
    /\ h.excerpt.truncated = (shown.end < h.range.end)

EvidenceShapeOneSided(e) ==
    LET shown == e.excerpt.range IN
    /\ Len(e.excerpt.text) <= ExcerptBytes
    /\ e.range.start <= e.range.end /\ shown.start <= shown.end
    /\ Len(e.excerpt.text) = shown.end - shown.start
    /\ e.excerpt.truncated = (shown.end < e.range.end)
\* evidenceShape()
EvidenceShape(e) ==
    LET shown == e.excerpt.range IN
    /\ Len(e.excerpt.text) <= ExcerptBytes
    /\ e.range.start <= e.range.end /\ shown.start <= shown.end
    /\ Len(e.excerpt.text) = shown.end - shown.start
    /\ e.excerpt.truncated = ~(shown.start <= e.range.start /\ shown.end >= e.range.end)

\* The evidence part of parseResponse().
ParsesEvidence(r, e) ==
    /\ EvidenceShape(e)
    /\ IsRead(r) =>
         /\ e.range = r.range /\ ~e.excerpt.truncated /\ e.excerpt.range = r.range
         /\ r.operation = "read-verified" => e.digest = r.expected

\* The client and the contract check what comes back.
Return ==
    /\ stage = "built"
    /\ IF ~ClientTakesHit(evidence) THEN Refuse("client", "WORKER_PROTOCOL")
       ELSE IF ~ParsesEvidence(request, evidence) THEN Refuse("contract", "UNAVAILABLE")
       ELSE GoOn("answered") /\ UNCHANGED <<captured, evidence>>
    /\ handed' = IF stage' = "answered" THEN evidence ELSE None
    /\ UNCHANGED <<request, context, maxFileBytes, verdict>>

-----------------------------------------------------------------------------
(* Later: the evidence is retold, the file may have changed, and somebody  *)
(* who has the file asks whether it holds.                                 *)

Spans == [start : Offsets, end : Offsets]
\* One part of it is told otherwise, or both places with the flag that relates them.
Retell ==
    /\ stage = "answered" /\ handed = evidence /\ verdict = None
    /\ \/ \E s \in Spans : handed' = [handed EXCEPT !.range = s]
       \/ \E s \in Spans : handed' = [handed EXCEPT !.excerpt.range = s]
       \/ \E f \in Files : \E s \in Spans :
            /\ Boundary(f, s.start) /\ Boundary(f, s.end)
            /\ handed' = [handed EXCEPT !.excerpt.text = Between(f, s.start, s.end)]
       \/ \E f \in Files : handed' = [handed EXCEPT !.digest = f]
       \/ \E b \in BOOLEAN : handed' = [handed EXCEPT !.excerpt.truncated = b]
       \/ \E s, t \in Spans, b \in BOOLEAN :
            /\ t.end = t.start + Len(handed.excerpt.text)
            /\ handed' = [handed EXCEPT !.range = s, !.excerpt.range = t,
                                       !.excerpt.truncated = b]
    /\ UNCHANGED <<request, context, maxFileBytes, stage, refusal, captured, evidence,
                   verdict>>

\* assertEvidenceSource()
SourceHolds(e, f) ==
    /\ EvidenceShape(e)
    /\ Len(f) <= MaxFile /\ e.digest = f
    /\ \A s \in {e.range, e.excerpt.range} : Boundary(f, s.start) /\ Boundary(f, s.end)
    /\ e.excerpt.text = Between(f, e.excerpt.range.start, e.excerpt.range.end)
Assert ==
    /\ stage = "answered" /\ verdict = None
    /\ \E f \in Files :
         /\ captured' = f
         /\ verdict' = IF SourceHolds(handed, f) THEN "accepted" ELSE "rejected"
    /\ UNCHANGED <<request, context, maxFileBytes, stage, refusal, evidence, handed>>

Next == Execute \/ Dispatch \/ Match \/ Read \/ Return \/ Retell \/ Assert

Spec == Init /\ [][Next]_vars

-----------------------------------------------------------------------------
(* Properties.                                                             *)

\* What a layer behind the contract may say, and for what.
Warranted(by, code) ==
    /\ by = "registry" =>
         \/ code = "OUT_OF_SCOPE" /\ request.ids = "foreign"
         \/ code = "INVALID_REQUEST" /\ request.ids = "named"
         \/ /\ code = "INVALID_REQUEST"
            /\ \E p \in PatternsOf(request) : Has(p, {"bad", "dots"})
    /\ by = "client" =>
         code = "WORKER_EXIT" /\ request.frame > FrameCap /\ PatternsOf(request) # {}
    /\ by = "worker" =>
         /\ code = "REGEX_INVALID" => ~request.query.supported
         /\ code = "BYTE_LIMIT" => request.range.end - request.range.start > ExcerptBytes
         /\ code = "INVALID_REQUEST" =>
              \/ ~request.builds /\ PatternsOf(request) # {}
              \/ IsRead(request) /\ request.range.end > maxFileBytes
              \/ /\ IsRead(request)
                 /\ Has(request.path, {"dots"}) /\ Has(request.path, {"separated"})
              \/ /\ IsRead(request) /\ captured # None
                 /\ \/ ~Boundary(captured, request.range.start)
                    \/ ~Boundary(captured, request.range.end)

\* A request that the contract takes reaches the worker within its deadline and in a
\* frame the worker can read, and a later layer only refuses what the contract does not
\* ask.  The registry: ids that are no UUIDs or nobody's, and patterns that policy.ts
\* keeps out.  The client: a narrowing that makes the frame too long.  The worker: a
\* scope it cannot build, an expression it does not support, more than it reads at once,
\* a range that the policy or the file has no room for, and a path with dots behind a
\* separator that PathSchema does not look past.
RefusedForAReason == refusal # None => Warranted(refusal.by, refusal.code)

\* The worker, the client, the contract and the reader of a source agree on what
\* evidence is, at the cap of an excerpt and inside characters of several bytes: what
\* the worker makes is never refused, and holds for the file it was made from.
EvidencePasses ==
    /\ stage = "refused" => evidence = None
    /\ verdict # None /\ handed = evidence /\ captured = evidence.digest =>
         verdict = "accepted"

\* Whatever is retold, only this passes for evidence from a file: its bytes at the place
\* they are said to be from, whole characters, and not passed off as all that was found
\* when they are less.
OnlyTrueEvidence ==
    verdict = "accepted" =>
        LET range == handed.range
            shown == handed.excerpt.range
            lacking == (range.start + 1 .. range.end) \ (shown.start + 1 .. shown.end)
        IN /\ handed.digest = captured
           /\ handed.excerpt.text = [i \in 1 .. shown.end - shown.start |->
                                       captured[shown.start + i]]
           /\ \A i \in {range.start, range.end, shown.start, shown.end} :
                i < Len(captured) => captured[i + 1] \notin Continuation
           /\ lacking # {} => handed.excerpt.truncated
           /\ handed.excerpt.truncated => lacking # {} \/ range.start = range.end
=============================================================================
