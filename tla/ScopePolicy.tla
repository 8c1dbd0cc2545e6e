----------------------------- MODULE ScopePolicy -----------------------------
(***************************************************************************)
(* Which files a search may see: createPolicy() and narrowPolicy() of      *)
(* src/src/workspace/policy.ts, the layers the scope passes on its way to  *)
(* the worker and back, and Scope of src/native/worker/src/scope.rs.       *)
(*                                                                         *)
(* An entry is the sequence of its names.  A pattern is known by the       *)
(* entries it matches, a line of an ignore file by the entries it matches  *)
(* and by whether it begins with "!".  A canonical list of patterns is     *)
(* sorted and has no duplicates: it is its set, and has a length in JSON.  *)
(* The tree does not change: NativeSearch has the walk while it does.      *)
(***************************************************************************)
EXTENDS Naturals, Sequences, FiniteSets

CONSTANTS
    Entries,      \* paths under the root
    Files,        \* those that are files
    Reserved,     \* those named .git or .jev-grep
    Dotted,       \* those with a name that begins with a dot
    Patterns, Covers,  \* globs, and the entries each matches
    Malformed,    \* those that policy.ts:5-6 refuses, and globs() once more
    Buildable,    \* sets of patterns that globset builds
    ListBytes,    \* of a canonical list in JSON
    Plain,        \* patterns that JSON makes no more than twice as long
    PlainList, AnyList,     \* bytes of a full list of those, and of any: 64 * 2051 and
                            \* 64 * 6147
    FrameCap, MaxResponse,  \* 1 MiB each, of a request to the worker and of a response
    Asks,         \* what a search costs besides: see AsksAssumption
    Lists,        \* lists of patterns that callers give
    IgnoreFiles,  \* what the ignore files of a tree may be
    MaxLines,     \* bound on the lines of one
    MaxPatterns,  \* 64, of a list
    None

Kinds == {".gitignore", ".ignore"}
Upto(e) == {SubSeq(e, 1, k) : k \in 1 .. Len(e)}

\* Nothing is below a file.
ASSUME TreeAssumption ==
    /\ Files \subseteq Entries
    /\ \A e \in Entries : /\ e \in Seq(STRING) \ {<<>>} /\ Upto(e) \subseteq Entries
                          /\ Upto(e) \cap Files \subseteq {e}
    /\ Covers \in [Patterns -> SUBSET Entries]
    /\ Lists \subseteq Seq(Patterns) /\ MaxPatterns \in Nat
    /\ None \notin {"schema", "client", "child", "worker", "service", "contract"}

\* No set is longer than what it is joined from.
ASSUME BytesAssumption ==
    /\ ListBytes \in [SUBSET Patterns -> Nat] /\ {} \in Buildable
    /\ \A S, T \in SUBSET Patterns : ListBytes[S \cup T] <= ListBytes[S] + ListBytes[T]
    /\ \A S \in SUBSET Patterns : IsFiniteSet(S) /\ Cardinality(S) <= MaxPatterns =>
         /\ ListBytes[S] <= AnyList
         /\ S \subseteq Plain => ListBytes[S] <= PlainList
\* rest: the bytes of the request besides its lists, of which a query of 8192 bytes has
\* at most 6 * 8192.  told: the bytes of the response besides its lists and the matches
\* that it may leave out, of which a read has at most 4096 of text and 4096 of path.
\* So a registration's own scope has room in a frame, and a narrowed one of plain lists
\* has room in a frame and in the largest response.
ASSUME AsksAssumption ==
    /\ PlainList \in Nat /\ AnyList \in Nat /\ FrameCap \in Nat /\ MaxResponse \in Nat
    /\ \A ask \in Asks :
         /\ ask \in [rest : Nat, told : Nat, budget : 0 .. MaxResponse]
         /\ 2 * AnyList + ListBytes[{}] + ask.rest <= FrameCap
         /\ 4 * PlainList + ask.rest <= FrameCap
         /\ 5 * PlainList + ask.told <= MaxResponse

\* Each directory has an ignore file of each kind, which may be empty.
ASSUME IgnoreAssumption ==
    /\ MaxLines \in Nat /\ None \notin {"ignore", "whitelist"}
    /\ \A tree \in IgnoreFiles, kind \in Kinds, e \in Entries :
         \A k \in 0 .. Len(e) - 1 :
           LET lines == tree[kind][SubSeq(e, 1, k)] IN
           /\ lines \in Seq([covers : SUBSET Entries, verdict : {"ignore", "whitelist"}])
           /\ Len(lines) <= MaxLines

VARIABLES
    ignore,  \* per kind and directory: the lines of that ignore file
    policy,  \* of the registration, or None
    answer   \* to the last search, or None

vars == <<ignore, policy, answer>>

Elements(list) == {list[k] : k \in DOMAIN list}

-----------------------------------------------------------------------------
(* The policy and the scope of a search.                                   *)

\* PolicyInputSchema and NarrowSchema: duplicates count.
Accepted(list) == Len(list) <= MaxPatterns /\ Elements(list) \cap Malformed = {}

CreatePolicy(include, exclude, hidden, respectIgnore) ==
    [include |-> Elements(include), exclude |-> Elements(exclude),
     hidden |-> hidden, respectIgnore |-> respectIgnore]

NarrowPolicyUnion(p, narrow) ==
    [includeGroups |-> <<p.include \cup Elements(narrow.include), {}>>,
     exclude |-> p.exclude \cup Elements(narrow.exclude),
     hidden |-> p.hidden, respectIgnore |-> p.respectIgnore]
\* OR within a group of includes, AND across the groups; excludes add up.
NarrowPolicy(p, narrow) ==
    [includeGroups |-> <<p.include, Elements(narrow.include)>>,
     exclude |-> p.exclude \cup Elements(narrow.exclude),
     hidden |-> p.hidden, respectIgnore |-> p.respectIgnore]
Unnarrowed == [include |-> <<>>, exclude |-> <<>>]

ClientTakesTight(scope) ==
    /\ \A g \in 1 .. 2 : Cardinality(scope.includeGroups[g]) <= MaxPatterns
    /\ Cardinality(scope.exclude) <= MaxPatterns
\* WorkerScopeSchema
ClientTakes(scope) ==
    /\ \A g \in 1 .. 2 : Cardinality(scope.includeGroups[g]) <= MaxPatterns
    /\ Cardinality(scope.exclude) <= 2 * MaxPatterns

\* run(): a frame beyond the cap ends the child.
FrameFits(scope, ask) ==
    ask.rest + ListBytes[scope.includeGroups[1]] + ListBytes[scope.includeGroups[2]]
      + ListBytes[scope.exclude] <= FrameCap

\* Scope::new() and globs(): the bounds once more, and each set is built.
WorkerTakes(scope) ==
    /\ ClientTakes(scope)
    /\ \A set \in {scope.includeGroups[1], scope.includeGroups[2], scope.exclude} :
         set \cap Malformed = {} /\ set \in Buildable

-----------------------------------------------------------------------------
(* Scope: which entries it enters.                                         *)

AnyMatches(patterns, e) == \E p \in patterns : e \in Covers[p]

\* excluded_path(): the names of the path itself and of all directories above.
ExcludedPath(scope, e) ==
    \E a \in Upto(e) : a \in Reserved \/ (~scope.hidden /\ a \in Dotted)

\* Gitignore::matched(): the last line that matches.
Matched(lines, e) ==
    LET those == {k \in DOMAIN lines : e \in lines[k].covers}
    IN IF those = {} THEN None
       ELSE lines[CHOOSE k \in those : \A j \in those : j <= k].verdict

VerdictByDepth(e) ==
    LET climb[k \in 0 .. Len(e) - 1] ==
            LET v == Matched(ignore[".ignore"][SubSeq(e, 1, k)], e)
                w == Matched(ignore[".gitignore"][SubSeq(e, 1, k)], e)
            IN IF v # None THEN v ELSE IF w # None THEN w
               ELSE IF k = 0 THEN None ELSE climb[k - 1]
    IN climb[Len(e) - 1]
\* From the directory of e up to the root, the first file of that kind that decides.
Nearest(kind, e) ==
    LET climb[k \in 0 .. Len(e) - 1] ==
            LET v == Matched(ignore[kind][SubSeq(e, 1, k)], e)
            IN IF v # None \/ k = 0 THEN v ELSE climb[k - 1]
    IN climb[Len(e) - 1]
\* Every .ignore is asked before any .gitignore.
Verdict(e) == IF Nearest(".ignore", e) # None THEN Nearest(".ignore", e)
              ELSE Nearest(".gitignore", e)

\* allows(): includes never keep a directory out.
Allows(scope, e) ==
    /\ ~AnyMatches(scope.exclude, e)
    /\ e \in Files => \A g \in 1 .. 2 : LET group == scope.includeGroups[g]
                                        IN group = {} \/ AnyMatches(group, e)
    /\ scope.respectIgnore => Verdict(e) # "ignore"

\* walk() enters what allows() lets it enter, from the root down.
Selected(scope) ==
    {f \in Files : \A a \in Upto(f) : ~ExcludedPath(scope, a) /\ Allows(scope, a)}

-----------------------------------------------------------------------------
(* Registration and search.                                                *)

Init == ignore \in IgnoreFiles /\ policy = None /\ answer = None

\* register() that succeeds: the worker builds the scope once, without a search.  There
\* is room for it in a frame.
Register(include, exclude, hidden, respectIgnore) ==
    LET p == CreatePolicy(include, exclude, hidden, respectIgnore) IN
    /\ policy = None
    /\ Accepted(include) /\ Accepted(exclude)
    /\ ClientTakes(NarrowPolicy(p, Unnarrowed))
    /\ WorkerTakes(NarrowPolicy(p, Unnarrowed))
    /\ policy' = p
    /\ UNCHANGED <<ignore, answer>>

\* scope() of the service: include is the legacy field, the groups are the authority.
EffectiveScope(p, scope) ==
    [include |-> IF scope.includeGroups[2] = {} THEN p.include
                 ELSE scope.includeGroups[2],
     includeGroups |-> scope.includeGroups, exclude |-> scope.exclude,
     hidden |-> p.hidden, respectIgnore |-> p.respectIgnore]

\* What cannot be left out of the response has to fit.
ServiceTakes(told, ask) ==
    ask.told + ListBytes[told.include] + ListBytes[told.includeGroups[1]]
      + ListBytes[told.includeGroups[2]] + ListBytes[told.exclude] <= ask.budget
\* EffectiveScopeSchema, when the response is checked.
ContractTakes(told) == ClientTakes(told) /\ Cardinality(told.include) <= MaxPatterns

Refuse(narrow, ask, by) == answer' = [narrow |-> narrow, ask |-> ask, refusedBy |-> by]

\* search(): the narrowing is checked, then the scope by the client and by the worker,
\* and the scope that the service reports.
\* A search leaves nothing behind: one stands for all.
Search(narrow, ask) ==
    LET scope == NarrowPolicy(policy, narrow)
        told == EffectiveScope(policy, scope)
    IN
    /\ policy # None /\ answer = None
    /\ IF ~(Accepted(narrow.include) /\ Accepted(narrow.exclude))
       THEN Refuse(narrow, ask, "schema")
       ELSE IF ~ClientTakes(scope) THEN Refuse(narrow, ask, "client")
       ELSE IF ~FrameFits(scope, ask) THEN Refuse(narrow, ask, "child")
       ELSE IF ~WorkerTakes(scope) THEN Refuse(narrow, ask, "worker")
       ELSE IF ~ServiceTakes(told, ask) THEN Refuse(narrow, ask, "service")
       ELSE IF ~ContractTakes(told) THEN Refuse(narrow, ask, "contract")
       ELSE answer' = [narrow |-> narrow, ask |-> ask, refusedBy |-> None,
                       files |-> Selected(scope), told |-> told]
    /\ UNCHANGED <<ignore, policy>>

Next ==
    \/ \E include, exclude \in Lists, hidden, respectIgnore \in BOOLEAN :
         Register(include, exclude, hidden, respectIgnore)
    \/ \E include, exclude \in Lists, ask \in Asks :
         Search([include |-> include, exclude |-> exclude], ask)

Spec == Init /\ [][Next]_vars

-----------------------------------------------------------------------------
(* Properties.                                                             *)

Answered == answer # None /\ answer.refusedBy = None

\* All lines that match e, of the two kinds, in every directory above and at every
\* place of a file, by precedence.
Lines(e) ==
    LET all == {[kind |-> kind, dir |-> SubSeq(e, 1, k), at |-> n] :
                   kind \in Kinds, k \in 0 .. Len(e) - 1, n \in 1 .. MaxLines}
    IN {l \in all : /\ l.at \in DOMAIN ignore[l.kind][l.dir]
                    /\ e \in ignore[l.kind][l.dir][l.at].covers}
Outranks(l, m) ==
    IF l.kind # m.kind THEN l.kind = ".ignore"
    ELSE IF l.dir # m.dir THEN Len(l.dir) > Len(m.dir) ELSE l.at > m.at
IgnoredBy(e) ==
    \E l \in Lines(e) : /\ \A m \in Lines(e) \ {l} : Outranks(l, m)
                        /\ ignore[l.kind][l.dir][l.at].verdict = "ignore"

\* A search sees exactly the files that the rules of ADR 0003 leave: included by the
\* policy and by the caller, excluded by neither, with no directory above that is hidden,
\* excluded or ignored by its highest-ranking line; and the scope it reports selects the
\* same files.
SelectionIsReference ==
    Answered =>
        LET narrow == answer.narrow IN
        /\ answer.files = Selected(answer.told)
        /\ answer.files =
             {f \in Files :
                /\ policy.include = {} \/ AnyMatches(policy.include, f)
                /\ narrow.include = <<>> \/ AnyMatches(Elements(narrow.include), f)
                /\ \A a \in Upto(f) :
                     /\ ~AnyMatches(policy.exclude \cup Elements(narrow.exclude), a)
                     /\ a \notin Reserved /\ (a \in Dotted => policy.hidden)
                     /\ policy.respectIgnore => ~IgnoredBy(a)}

\* No narrowing shows a file that the registered policy alone would not.
NarrowNeverWidens ==
    Answered => answer.files \subseteq Selected(NarrowPolicy(policy, Unnarrowed))

\* What a refusal behind the schemas may be for: by whom, of which policy, ask and lists.
Owed(by, p, ask, include, exclude) ==
    LET plain == p.include \cup p.exclude \cup include \cup exclude \subseteq Plain IN
    /\ by \in {"worker", "child", "service"}
    /\ by = "worker" => \/ include \notin Buildable
                        \/ /\ p.exclude \cup exclude \notin Buildable
                           /\ ~(exclude \subseteq p.exclude)
    /\ by = "child" => ~plain /\ include \cup exclude # {}
    /\ by = "service" => ~plain \/ ask.budget < MaxResponse

\* What may refuse a search whose narrowing its schema takes, however the lists add up.
\* Never the bounds on the number of patterns.  The worker: only a set of patterns that
\* the caller gave or added to, which globset cannot build.  The cap of a frame: only
\* lists that JSON more than doubles, and only with a narrowing.  The budget of the
\* response: only such lists, or a budget that is not the largest.
RefusedForItsLists ==
    answer # None /\ answer.refusedBy \notin {None, "schema"} =>
        Owed(answer.refusedBy, policy, answer.ask, Elements(answer.narrow.include),
             Elements(answer.narrow.exclude))
=============================================================================
