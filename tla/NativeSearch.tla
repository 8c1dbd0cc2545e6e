---------------------------- MODULE NativeSearch ----------------------------
(***************************************************************************)
(* One search of the worker: search(), walk() and search_file() of         *)
(* src/native/worker/src/main.rs with enter() and verify() of scope.rs,    *)
(* while others change ignore files and sources and remove entries.        *)
(*                                                                         *)
(* An entry is its path, the sequence of its names; the recursion of walk()*)
(* is a stack of directories being enumerated.  A file is the number of    *)
(* its matches; reading it is one step, since SearchFile shows that the    *)
(* bytes are one revision.  An ignore file is the set of entries it hides. *)
(***************************************************************************)
EXTENDS Naturals, Sequences, FiniteSets

CONSTANTS
    Entries,     \* paths that may exist under the root
    Type,        \* per entry: "dir", "text", "binary" or "special"
    Hidden,      \* entries with a name the scope never enters
    Rulesets,    \* what an ignore file may hide
    Requests,    \* requests that passed validate()
    Contents,    \* how many matches a file may hold
    MaxChanges,  \* bound on the changes made by others
    None

Root == <<>>
Dirs == {Root} \cup {e \in Entries : Type[e] = "dir"}
Texts == {e \in Entries : Type[e] = "text"}
Parent(e) == SubSeq(e, 1, Len(e) - 1)
Ancestors(e) == {SubSeq(e, 1, k) : k \in 0 .. Len(e) - 1}
Below(d) == {e \in Entries : d \in Ancestors(e)}

ASSUME TreeAssumption ==
    /\ \A e \in Entries : e \in Seq(STRING) \ {Root} /\ Ancestors(e) \subseteq Dirs
    /\ Type \in [Entries -> {"dir", "text", "binary", "special"}]
    /\ Hidden \subseteq Entries /\ Rulesets \subseteq SUBSET Entries
    /\ Contents \subseteq Nat /\ MaxChanges \in Nat

\* read is the path of a read, or says that it is none.
ASSUME RequestsAssumption ==
    /\ {<<"search">>, <<"validate">>} \cap Entries = {}
    /\ \A r \in Requests :
         /\ r.read \in Entries \cup {<<"search">>, <<"validate">>}
         /\ r.maxMatches \in Nat \ {0} /\ r.maxEntries \in Nat \ {0}
         /\ r.maxDepth \in Nat \ {0} /\ r.respectIgnore \in BOOLEAN

VARIABLES
    rules, hits, present, changes,  \* the disk, and how often it changed
    request,   \* the request
    late,      \* the deadline has passed
    pc,        \* "walk", "ended", "verify" or "done"
    stack,     \* directories being enumerated, with the entries still to come
    err,       \* the error walk() ended with
    captured,  \* per directory walked: the rules that apply below it
    listed,    \* history: entries enumerated
    content,   \* history: per file searched, the matches in what was captured
    counts,    \* visited, searched, excluded, failed
    coverage, reasons, matches,  \* of the result; a match is its file
    unverified,   \* observations verify() has still to compare
    recent,       \* history: ignore files changed during verify()
    outcome

disk == <<rules, hits, present, changes>>
walking == <<stack, captured, listed>>
result == <<coverage, reasons, matches>>
ending == <<unverified, recent>>
vars == <<disk, request, late, pc, walking, err, content, counts, result,
          ending, outcome>>

Codes == {"READ_FAILED", "SOURCE_MUTATED", "DEADLINE", "LIMIT_REACHED", "BYTE_LIMIT",
          "ENTRY_LIMIT", "DEPTH_LIMIT", "POLICY_CHANGED", "REGEX_INVALID",
          "MATCH_ENCODING", "INVALID_REQUEST", "REVISION_MISMATCH", "OUT_OF_SCOPE"}

ASSUME NoneAssumption ==
    None \notin Nat /\ None \notin Codes /\ \A S \in SUBSET Entries : None # S

Reading == request.read \in Entries
Searching == request.read = <<"search">>
Top == stack[Len(stack)]
Pop == SubSeq(stack, 1, Len(stack) - 1)
Given(code) == \E k \in DOMAIN reasons : reasons[k] = code

Init ==
    /\ rules \in [Dirs -> Rulesets] /\ \A d \in Dirs : rules[d] \subseteq Below(d)
    /\ hits \in [Texts -> Contents]
    /\ present = Entries /\ changes = 0
    /\ request \in Requests
    /\ late = FALSE /\ stack = <<>> /\ err = None
    /\ pc = IF request.read = <<"validate">> THEN "verify" ELSE "walk"
    /\ captured = [d \in Dirs |-> None] /\ listed = {}
    /\ content = [f \in Texts |-> None]
    /\ counts = [visited |-> 0, searched |-> 0, excluded |-> 0, failed |-> 0]
    /\ coverage = "complete" /\ reasons = <<>> /\ matches = <<>>
    /\ unverified = {} /\ recent = {} /\ outcome = None

-----------------------------------------------------------------------------
(* Results of a step.                                                      *)

IssueRepeated(code) ==
    /\ reasons' = Append(reasons, code)
    /\ coverage' = "partial"
\* issue()
Issue(code) ==
    /\ reasons' = IF Given(code) THEN reasons ELSE Append(reasons, code)
    /\ coverage' = "partial"
NoIssue == UNCHANGED <<reasons, coverage>>

RaiseUncoded(code) == pc' = "ended" /\ stack' = <<>> /\ UNCHANGED err
\* An error leaves every walk() there is.
Raise(code) == pc' = "ended" /\ err' = code /\ stack' = <<>>
GoOn(s) == stack' = s /\ UNCHANGED <<pc, err>>

Counted(more) ==
    counts' = [visited |-> counts.visited + 1,
               searched |-> counts.searched + (IF more = "searched" THEN 1 ELSE 0),
               excluded |-> counts.excluded + (IF more = "excluded" THEN 1 ELSE 0),
               failed |-> counts.failed + (IF more = "failed" THEN 1 ELSE 0)]

\* The entry is counted and passed over, with an issue when it failed.
Skip(more, s) ==
    /\ Counted(more) /\ GoOn(s) /\ NoIssue
    /\ UNCHANGED <<captured, listed, content, matches, late>>
Failed(code, s) ==
    /\ Counted("failed") /\ GoOn(s) /\ Issue(code)
    /\ UNCHANGED <<captured, listed, content, matches, late>>

-----------------------------------------------------------------------------
(* walk().                                                                 *)

\* The ignore file of directory d is captured, d opened and enumerated.
Open(d, s) ==
    /\ captured' = [captured EXCEPT ![d] = IF request.respectIgnore THEN rules[d] ELSE {}]
    /\ GoOn(Append(s, [dir |-> d, todo |-> {e \in present : Parent(e) = d}]))
    /\ listed' = listed \cup {e \in present : Parent(e) = d}

\* enter() of scope.rs may meet an unreadable or a changing ignore file and its
\* own limits.
EnterErrors == {"POLICY_CHANGED", "ENTRY_LIMIT"}

EnterRoot ==
    /\ pc = "walk" /\ stack = <<>> /\ captured[Root] = None
    /\ \/ late /\ Raise("DEADLINE") /\ UNCHANGED <<captured, listed>>
       \/ ~late /\ Open(Root, stack)
       \/ /\ ~late
          /\ \E code \in EnterErrors \cup {"READ_FAILED"} : Raise(code)
          /\ UNCHANGED <<captured, listed>>
    /\ UNCHANGED <<disk, request, late, content, counts, result, ending, outcome>>

TooDeepSilently(s) == Skip("", s)
\* A directory below maxDepth is not entered.
TooDeep(s) ==
    /\ Counted("") /\ GoOn(s) /\ Issue("DEPTH_LIMIT")
    /\ UNCHANGED <<captured, listed, content, matches, late>>

\* walk() of a directory: only READ_FAILED stays with its parent.
WalkInto(d, s) ==
    \/ Len(d) > request.maxDepth /\ TooDeep(s)
    \/ /\ Len(d) <= request.maxDepth
       /\ \/ Failed("READ_FAILED", s)
          \/ /\ Counted("") /\ Open(d, s) /\ NoIssue
             /\ UNCHANGED <<content, matches, late>>
          \/ /\ \E code \in EnterErrors : Raise(code)
             /\ Counted("") /\ NoIssue
             /\ UNCHANGED <<captured, listed, content, matches, late>>

\* How many more matches the result takes.
Room == request.maxMatches - Len(matches)

StopCodesEager(k, n) ==
    (IF k = n THEN {} ELSE {"REGEX_INVALID", "MATCH_ENCODING", "DEADLINE", "BYTE_LIMIT"})
      \cup (IF Room = k THEN {"LIMIT_REACHED"} ELSE {})
\* Why the matcher may be stopped after k of a file's n matches: another match
\* is there that the result has no room or no bytes for, or that it cannot show.
StopCodes(k, n) ==
    IF k = n THEN {}
    ELSE {"REGEX_INVALID", "MATCH_ENCODING", "DEADLINE"}
           \cup {IF Room = k THEN "LIMIT_REACHED" ELSE "BYTE_LIMIT"}

\* The captured file is matched: all its matches, or k of them and an error.
Match(f, s) ==
    LET n == hits[f] IN
    /\ content' = [content EXCEPT ![f] = n]
    /\ Counted("searched") /\ NoIssue
    /\ UNCHANGED <<captured, listed>>
    /\ \E k \in 0 .. n :
         /\ k <= Room
         /\ matches' = matches \o [j \in 1 .. k |-> f]
         /\ \/ k = n /\ GoOn(s) /\ UNCHANGED late
            \/ \E code \in StopCodes(k, n) :
                 Raise(code) /\ late' = (late \/ code = "DEADLINE")

\* The captured file is read: the range asked for, or an error.
ReadOut(f, s) ==
    /\ content' = [content EXCEPT ![f] = 1]
    /\ Counted("searched") /\ NoIssue
    /\ UNCHANGED <<captured, listed, late>>
    /\ \/ matches' = Append(matches, f) /\ GoOn(s)
       \/ /\ \E code \in {"REVISION_MISMATCH", "INVALID_REQUEST", "BYTE_LIMIT"} :
               Raise(code)
          /\ UNCHANGED matches

\* search_file()
SearchFile(f, s) ==
    IF Reading /\ request.read # f THEN Skip("", s)
    ELSE IF Type[f] = "binary" THEN Skip("excluded", s)
    ELSE \/ \E code \in {"READ_FAILED", "SOURCE_MUTATED"} : Failed(code, s)
         \/ IF Reading THEN ReadOut(f, s) ELSE Match(f, s)

Ignored(e) == \E a \in Ancestors(e) : captured[a] # None /\ e \in captured[a]
OnTheWay(e) == Reading => e = request.read \/ e \in Ancestors(request.read)

PastEntryLimit == counts.visited > request.maxEntries
AtEntryLimit == counts.visited = request.maxEntries

\* One entry of the directory on top of the stack.  A deadline that passes while it is
\* opened or read is found at the next entry or in Verify, with the entry counted.
Visit(e) ==
    /\ pc = "walk" /\ stack # <<>> /\ e \in Top.todo
    /\ LET s == [stack EXCEPT ![Len(stack)].todo = @ \ {e}] IN
         IF late \/ AtEntryLimit
         THEN /\ Raise(IF late THEN "DEADLINE" ELSE "ENTRY_LIMIT") /\ NoIssue
              /\ UNCHANGED <<captured, listed, content, counts, matches, late>>
         ELSE IF e \in Hidden THEN Skip("excluded", s)
         ELSE IF ~OnTheWay(e) THEN Skip("", s)
         ELSE \/ Failed("READ_FAILED", s)
              \/ /\ e \in present
                 /\ IF Ignored(e) \/ Type[e] = "special" THEN Skip("excluded", s)
                    ELSE IF Type[e] = "dir" THEN WalkInto(e, s)
                    ELSE SearchFile(e, s)
    /\ UNCHANGED <<disk, request, ending, outcome>>

\* Reading a directory fails half-way; its parent goes on.
ReaddirFails ==
    /\ pc = "walk" /\ stack # <<>>
    /\ IF Len(stack) = 1
         THEN Raise("READ_FAILED") /\ NoIssue /\ UNCHANGED counts
         ELSE /\ GoOn(Pop) /\ Issue("READ_FAILED")
              /\ counts' = [counts EXCEPT !.failed = @ + 1]
    /\ UNCHANGED <<disk, request, late, captured, listed, content, matches,
                   ending, outcome>>

Observations == IF request.respectIgnore THEN {d \in Dirs : captured[d] # None} ELSE {}

\* A directory is exhausted; after the root, the policy is verified.
Leave ==
    /\ pc = "walk" /\ stack # <<>> /\ Top.todo = {}
    /\ stack' = Pop
    /\ IF Len(stack) = 1
         THEN pc' = "verify" /\ unverified' = Observations
         ELSE UNCHANGED <<pc, unverified>>
    /\ UNCHANGED <<disk, request, late, err, captured, listed, content, counts,
                   result, recent, outcome>>

-----------------------------------------------------------------------------
(* search() after walk().                                                  *)

Answer(status, code) == pc' = "done" /\ outcome' = [status |-> status, code |-> code]

\* Errors that leave no result, whatever was found.
Fatal == {"REGEX_INVALID", "MATCH_ENCODING"}

\* The error of walk() is the answer, or an issue of a partial result.
Ended ==
    /\ pc = "ended"
    /\ IF Reading \/ err \in Fatal \/ (err = "DEADLINE" /\ matches = <<>>)
         THEN /\ Answer("error", err)
              /\ UNCHANGED <<counts, reasons, coverage, unverified>>
         ELSE /\ Issue(err) /\ pc' = "verify" /\ unverified' = Observations
              /\ counts' = [counts EXCEPT !.failed =
                   @ + (IF err \in {"READ_FAILED", "SOURCE_MUTATED"} THEN 1 ELSE 0)]
              /\ UNCHANGED outcome
    /\ UNCHANGED <<disk, request, late, walking, err, content, matches, recent>>

SameRulesPresent(d) == rules[d] = {} \/ rules[d] = captured[d]
SameRules(d) == rules[d] = captured[d]

\* verify(): one ignore file is read again; the first difference ends it.
Verify(d) ==
    /\ pc = "verify" /\ d \in unverified
    /\ \/ late /\ Issue("DEADLINE") /\ unverified' = {}
       \/ /\ ~late
          /\ \/ SameRules(d) /\ NoIssue /\ unverified' = unverified \ {d}
             \/ ~SameRules(d) /\ Issue("POLICY_CHANGED") /\ unverified' = {}
             \/ /\ \E code \in {"READ_FAILED", "POLICY_CHANGED"} : Issue(code)
                /\ unverified' = {}
    /\ UNCHANGED <<disk, request, late, pc, walking, err, content, counts, matches,
                   recent, outcome>>

RespondWithIssues ==
    IF Reading /\ matches = <<>> THEN Answer("error", "OUT_OF_SCOPE")
    ELSE Answer("ok", None)
\* A read gives its first issue as its error and needs its match.
Response ==
    IF Reading /\ reasons # <<>> THEN Answer("error", Head(reasons))
    ELSE IF Reading /\ matches = <<>> THEN Answer("error", "OUT_OF_SCOPE")
    ELSE Answer("ok", None)

Respond ==
    /\ pc = "verify" /\ unverified = {}
    /\ Response
    /\ UNCHANGED <<disk, request, late, walking, err, content, counts, result, ending>>

-----------------------------------------------------------------------------
(* Time and other processes.                                               *)

Expire ==
    /\ ~late /\ late' = TRUE /\ pc # "done"
    /\ UNCHANGED <<disk, request, pc, walking, err, content, counts, result,
                   ending, outcome>>

Change ==
    /\ pc # "done" /\ changes < MaxChanges /\ changes' = changes + 1
    /\ UNCHANGED <<request, late, pc, walking, err, content, counts, result,
                   unverified, outcome>>

EditRules(d, R) ==
    /\ Change
    /\ d = Root \/ d \in present
    /\ R \subseteq Below(d)
    /\ rules' = [rules EXCEPT ![d] = R]
    /\ recent' = IF pc = "verify" THEN recent \cup {d} ELSE recent
    /\ UNCHANGED <<hits, present>>

EditFile(f, n) ==
    /\ Change /\ f \in present
    /\ hits' = [hits EXCEPT ![f] = n]
    /\ UNCHANGED <<rules, present, recent>>

\* An entry disappears with all below it, ignore files included.
Remove(e) ==
    /\ Change /\ e \in present
    /\ LET gone == present \cap ({e} \cup Below(e)) IN
         /\ present' = present \ gone
         /\ rules' = [d \in Dirs |-> IF d \in gone THEN {} ELSE rules[d]]
         /\ recent' = IF pc = "verify" THEN recent \cup (gone \cap Dirs) ELSE recent
    /\ UNCHANGED hits

Returned == pc = "done" /\ UNCHANGED vars

Step == \/ EnterRoot \/ Leave \/ Ended \/ Respond
        \/ \E e \in Entries : Visit(e)
        \/ \E d \in Dirs : Verify(d)
Others == \/ \E d \in Dirs, R \in Rulesets : EditRules(d, R)
          \/ \E f \in Texts, n \in Contents : EditFile(f, n)
          \/ \E e \in Entries : Remove(e)
Next == Step \/ ReaddirFails \/ Expire \/ Others \/ Returned

Spec == Init /\ [][Next]_vars

-----------------------------------------------------------------------------
(* Properties.                                                             *)

\* Every variable has its type.
TypeOK ==
    /\ rules \in [Dirs -> SUBSET Entries] /\ hits \in [Texts -> Contents]
    /\ present \subseteq Entries /\ changes \in 0 .. MaxChanges
    /\ request \in Requests /\ late \in BOOLEAN
    /\ pc \in {"walk", "ended", "verify", "done"}
    /\ stack \in Seq([dir : Dirs, todo : SUBSET Entries])
    /\ err \in Codes \cup {None}
    /\ captured \in [Dirs -> (SUBSET Entries) \cup {None}] /\ listed \subseteq Entries
    /\ content \in [Texts -> Contents \cup {1, None}]
    /\ counts \in [visited : Nat, searched : Nat, excluded : Nat, failed : Nat]
    /\ coverage \in {"complete", "partial"}
    /\ reasons \in Seq(Codes) /\ matches \in Seq(Texts)
    /\ unverified \subseteq Dirs /\ recent \subseteq Dirs
    /\ outcome \in [status : {"ok", "error"}, code : Codes \cup {None}] \cup {None}

Succeeded == outcome # None /\ outcome.status = "ok"
Found(f) == Cardinality({k \in DOMAIN matches : matches[k] = f})
Eligible(e) == e \notin Hidden /\ ~Ignored(e) /\ Type[e] \in {"dir", "text"}

\* Complete coverage is complete: of everything the directories listed, each
\* eligible directory was walked and each eligible file gave all the matches of
\* the bytes that were captured, whatever others changed meanwhile.
CompleteIsComplete ==
    Succeeded /\ Searching /\ coverage = "complete" =>
        \A e \in listed : Eligible(e) =>
            IF Type[e] = "dir" THEN captured[e] # None
            ELSE content[e] # None /\ Found(e) = content[e]

\* A complete result was made under the ignore rules that were in force when it
\* was verified: a rule changed during the walk makes it partial.
PolicyIsCurrent ==
    Succeeded /\ request.respectIgnore /\ coverage = "complete" =>
        \A d \in Dirs : captured[d] # None =>
            rules[d] = captured[d] \/ d \in recent

\* LIMIT_REACHED is proven: a match beyond maxMatches was seen.  Exactly
\* maxMatches matches are no truncation.
LimitIsProven ==
    Given("LIMIT_REACHED") =>
        /\ Len(matches) = request.maxMatches
        /\ \E f \in Texts : content[f] # None /\ content[f] > Found(f)

\* Every success passes the invariants with which the client checks it, so that
\* no search ends as WORKER_PROTOCOL.
AcceptedByClient ==
    Succeeded =>
        /\ Len(matches) <= request.maxMatches
        /\ counts.visited <= request.maxEntries
        /\ counts.searched <= counts.visited
        /\ \A j, k \in DOMAIN reasons : reasons[j] = reasons[k] => j = k
        /\ (coverage = "complete") <=> (reasons = <<>>)
        /\ coverage = "complete" => counts.failed = 0

\* A read succeeds with the one file it names, in scope, and only when nothing
\* on the way to it failed or changed its policy.
ReadIsAllOrNothing ==
    Succeeded /\ Reading =>
        /\ matches = <<request.read>>
        /\ coverage = "complete" /\ counts.failed = 0
        /\ \A a \in Ancestors(request.read) :
             captured[a] # None /\ request.read \notin captured[a]
=============================================================================
