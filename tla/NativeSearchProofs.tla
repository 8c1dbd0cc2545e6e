------------------------- MODULE NativeSearchProofs -------------------------
(***************************************************************************)
(* Proofs about NativeSearch, for any tree, any requests and any number of *)
(* changes by others.                                                      *)
(***************************************************************************)
EXTENDS NativeSearch, FiniteSetTheorems, SequenceTheorems, TLAPS

-----------------------------------------------------------------------------
(* The data: paths, the stack, the reasons and the matches.                *)

Frame == [dir : Dirs, todo : SUBSET Entries]

\* The stack when entry e has been taken from the directory on top.
Taken(e) == [stack EXCEPT ![Len(stack)].todo = @ \ {e}]

\* Entries are not the root, and their parents are directories.
LEMMA ParentIsDir ==
    ASSUME NEW e \in Entries
    PROVE  /\ e \in Seq(STRING) /\ Len(e) \in Nat \ {0}
           /\ Parent(e) \in Ancestors(e) /\ Parent(e) \in Dirs
           /\ Ancestors(e) \subseteq Dirs
<1>1. e \in Seq(STRING) /\ e # <<>> /\ Ancestors(e) \subseteq Dirs
  BY TreeAssumption DEF Root
<1>2. Len(e) \in Nat \ {0}
  BY <1>1, EmptySeq
<1>3. Parent(e) \in Ancestors(e)
  BY <1>2 DEF Parent, Ancestors
<1> QED BY <1>1, <1>2, <1>3

\* The ancestors of an entry are its parent and its parent's.
LEMMA AncestorsOfParent ==
    ASSUME NEW e \in Entries
    PROVE  Ancestors(e) \subseteq Ancestors(Parent(e)) \cup {Parent(e)}
<1> DEFINE n == Len(e) - 1
<1>1. e \in Seq(STRING) /\ n \in Nat
  BY ParentIsDir
<1>2. \A i \in 1 .. n : e[i] \in STRING
  BY <1>1, ElementOfSeq
<1>3. /\ Parent(e) \in Seq(STRING) /\ Len(Parent(e)) = n
      /\ \A i \in 1 .. n : Parent(e)[i] = e[i]
  <2>1. Parent(e) = SubSeq(e, 1, n)
    BY DEF Parent
  <2> HIDE DEF n
  <2>2. /\ SubSeq(e, 1, n) \in Seq(STRING) /\ Len(SubSeq(e, 1, n)) = n
        /\ \A i \in 1 .. n : SubSeq(e, 1, n)[i] = e[i]
    BY <1>1, <1>2, SubSeqProperties
  <2> QED BY <2>1, <2>2
<1>4. ASSUME NEW k \in 0 .. n - 1
      PROVE  SubSeq(Parent(e), 1, k) = SubSeq(e, 1, k)
  <2>1. \A i \in 1 .. k : e[i] \in STRING /\ Parent(e)[i] = e[i]
    BY <1>1, <1>2, <1>3
  <2>2. /\ SubSeq(e, 1, k) \in Seq(STRING) /\ SubSeq(Parent(e), 1, k) \in Seq(STRING)
        /\ Len(SubSeq(e, 1, k)) = k /\ Len(SubSeq(Parent(e), 1, k)) = k
        /\ \A i \in 1 .. k : /\ SubSeq(e, 1, k)[i] = e[i]
                             /\ SubSeq(Parent(e), 1, k)[i] = Parent(e)[i]
    BY <1>1, <2>1, SubSeqProperties
  <2> QED BY <2>1, <2>2, SeqEqual
<1>5. ASSUME NEW k \in 0 .. n
      PROVE  SubSeq(e, 1, k) \in Ancestors(Parent(e)) \cup {Parent(e)}
  <2>1. CASE k = n
    BY <2>1 DEF Parent
  <2>2. CASE k # n
    BY <1>1, <1>3, <1>4, <2>2 DEF Ancestors
  <2> QED BY <2>1, <2>2
<1> QED BY <1>5 DEF Ancestors

\* The root has no ancestors.
LEMMA RootHasNone == Ancestors(Root) = {}
<1>1. Len(Root) = 0
  BY EmptySeq DEF Root
<1> QED BY <1>1 DEF Ancestors

\* Taking an entry changes the frame on top, and nothing else of the stack.
LEMMA TakenFrames ==
    ASSUME stack \in Seq(Frame), stack # <<>>, NEW e
    PROVE  /\ Len(stack) \in Nat \ {0}
           /\ Taken(e) \in Seq(Frame) /\ DOMAIN Taken(e) = DOMAIN stack
           /\ Taken(e) # <<>>
           /\ \A i \in DOMAIN stack :
                /\ Taken(e)[i].dir = stack[i].dir
                /\ Taken(e)[i].todo = IF i = Len(stack) THEN stack[i].todo \ {e}
                                                        ELSE stack[i].todo
<1>1. Len(stack) \in Nat \ {0} /\ DOMAIN stack = 1 .. Len(stack)
  BY EmptySeq, LenProperties
<1>2. \A i \in DOMAIN stack : stack[i] \in Frame
  BY <1>1, ElementOfSeq
<1> DEFINE f == [stack[Len(stack)] EXCEPT !.todo = @ \ {e}]
<1>3. /\ f \in Frame /\ f.dir = stack[Len(stack)].dir
      /\ f.todo = stack[Len(stack)].todo \ {e}
  BY <1>1, <1>2 DEF Frame
<1>4. Taken(e) = [stack EXCEPT ![Len(stack)] = f]
  BY DEF Taken
<1> HIDE DEF f
<1>5. /\ Taken(e) \in Seq(Frame) /\ Len(Taken(e)) = Len(stack)
      /\ \A i \in 1 .. Len(stack) :
           Taken(e)[i] = IF i = Len(stack) THEN f ELSE stack[i]
  BY <1>1, <1>3, <1>4, ExceptSeq
<1>6. DOMAIN Taken(e) = DOMAIN stack /\ Taken(e) # <<>>
  BY <1>1, <1>5, EmptySeq, LenProperties
<1> QED BY <1>1, <1>3, <1>5, <1>6

\* Leaving a directory takes the frame on top.
LEMMA PopFrames ==
    ASSUME stack \in Seq(Frame), stack # <<>>
    PROVE  /\ Pop \in Seq(Frame) /\ DOMAIN Pop = 1 .. Len(stack) - 1
           /\ DOMAIN stack = 1 .. Len(stack) /\ Len(stack) \in Nat \ {0}
           /\ \A i \in DOMAIN Pop : Pop[i] = stack[i]
<1>1. Len(stack) \in Nat \ {0} /\ DOMAIN stack = 1 .. Len(stack)
  BY EmptySeq, LenProperties
<1>2. \A i \in 1 .. Len(stack) - 1 : stack[i] \in Frame
  BY <1>1, ElementOfSeq
<1>3. /\ Pop \in Seq(Frame) /\ Len(Pop) = Len(stack) - 1
      /\ \A i \in 1 .. Len(stack) - 1 : Pop[i] = stack[i]
  BY <1>1, <1>2, SubSeqProperties DEF Pop
<1>4. DOMAIN Pop = 1 .. Len(stack) - 1
  BY <1>3, LenProperties
<1> QED BY <1>1, <1>3, <1>4

\* issue() adds its reason when it is not there yet, and makes the result partial.
LEMMA IssueFacts ==
    ASSUME reasons \in Seq(Codes), NEW code \in Codes, Issue(code)
    PROVE  /\ reasons' \in Seq(Codes) /\ reasons' # <<>> /\ coverage' = "partial"
           /\ \A c : Given(c)' <=> Given(c) \/ c = code
           /\ (\A j, k \in DOMAIN reasons : reasons[j] = reasons[k] => j = k)
                => (\A j, k \in DOMAIN reasons' : reasons'[j] = reasons'[k] => j = k)
<1>1. Len(reasons) \in Nat /\ DOMAIN reasons = 1 .. Len(reasons)
  BY LenProperties
<1>2. CASE Given(code)
  <2>1. reasons' = reasons /\ coverage' = "partial"
    BY <1>2 DEF Issue
  <2>2. reasons # <<>>
    BY <1>2, EmptySeq DEF Given
  <2> QED BY <1>2, <2>1, <2>2 DEF Given
<1>3. CASE ~Given(code)
  <2>1. reasons' = Append(reasons, code) /\ coverage' = "partial"
    BY <1>3 DEF Issue
  <2>2. /\ reasons' \in Seq(Codes) /\ reasons' # <<>> /\ Len(reasons') = Len(reasons) + 1
        /\ \A i \in 1 .. Len(reasons) : reasons'[i] = reasons[i]
        /\ reasons'[Len(reasons) + 1] = code
    BY <2>1, AppendProperties
  <2>3. DOMAIN reasons' = 1 .. Len(reasons) + 1
    BY <2>2, LenProperties
  <2>4. \A c : Given(c)' <=> Given(c) \/ c = code
    BY <1>1, <2>2, <2>3 DEF Given
  <2>5. \A i \in DOMAIN reasons : reasons[i] # code
    BY <1>3 DEF Given
  <2> QED BY <1>1, <2>1, <2>2, <2>3, <2>4, <2>5
<1> QED BY <1>2, <1>3

\* The matches of one more file come after those that were found before.
LEMMA MatchesAppended ==
    ASSUME matches \in Seq(Texts), NEW f \in Texts, NEW n \in Nat,
           matches' = matches \o [j \in 1 .. n |-> f]
    PROVE  /\ matches' \in Seq(Texts) /\ Len(matches') = Len(matches) + n
           /\ Len(matches) \in Nat
           /\ DOMAIN matches = 1 .. Len(matches)
           /\ DOMAIN matches' = 1 .. Len(matches) + n
           /\ \A k \in 1 .. Len(matches) + n :
                matches'[k] = IF k <= Len(matches) THEN matches[k] ELSE f
<1> DEFINE new == [j \in 1 .. n |-> f]
<1>1. Len(matches) \in Nat /\ DOMAIN matches = 1 .. Len(matches)
  BY LenProperties
<1>2. new \in Seq(Texts) /\ Len(new) = n /\ \A j \in 1 .. n : new[j] = f
  OBVIOUS
<1> HIDE DEF new
<1>3. /\ matches' \in Seq(Texts) /\ Len(matches') = Len(matches) + n
      /\ \A k \in 1 .. Len(matches) + n :
           matches'[k] = IF k <= Len(matches) THEN matches[k] ELSE new[k - Len(matches)]
  BY <1>2, ConcatProperties DEF new
<1>4. DOMAIN matches' = 1 .. Len(matches) + n
  BY <1>3, LenProperties
<1>5. \A k \in 1 .. Len(matches) + n : ~(k <= Len(matches)) => k - Len(matches) \in 1 .. n
  BY <1>1
<1> QED BY <1>1, <1>2, <1>3, <1>4, <1>5

\* They are found of that file, and the others keep what was found of them.
LEMMA FoundAppended ==
    ASSUME matches \in Seq(Texts), NEW f \in Texts, NEW n \in Nat,
           matches' = matches \o [j \in 1 .. n |-> f],
           \A k \in DOMAIN matches : matches[k] # f
    PROVE  Found(f)' = n /\ \A e \in Texts \ {f} : Found(e)' = Found(e)
<1> DEFINE new == {k \in DOMAIN matches' : matches'[k] = f}
<1>1. /\ Len(matches) \in Nat
      /\ DOMAIN matches = 1 .. Len(matches)
      /\ DOMAIN matches' = 1 .. Len(matches) + n
      /\ \A k \in 1 .. Len(matches) + n :
           matches'[k] = IF k <= Len(matches) THEN matches[k] ELSE f
  BY MatchesAppended
<1>2. new = Len(matches) + 1 .. Len(matches) + n
  BY <1>1
<1>3. Cardinality(new) = n
  <2> DEFINE a == Len(matches) + 1
             b == Len(matches) + n
  <2>1. a \in Int /\ b \in Int /\ n = IF a > b THEN 0 ELSE b - a + 1
    BY <1>1
  <2> HIDE DEF a, b
  <2>2. Cardinality(a .. b) = n
    BY <2>1, FS_Interval
  <2> QED BY <1>2, <2>2 DEF a, b
<1>4. ASSUME NEW e \in Texts \ {f} PROVE Found(e)' = Found(e)
  <2>1. {k \in DOMAIN matches' : matches'[k] = e}
          = {k \in DOMAIN matches : matches[k] = e}
    BY <1>1, <1>4
  <2> QED BY <2>1 DEF Found
<1> QED BY <1>3, <1>4 DEF Found
-----------------------------------------------------------------------------
(* The kinds of steps Visit is made of.                                    *)

\* What the visit of an entry never touches, and what it finds.
AtEntry(e) ==
    /\ pc = "walk" /\ stack # <<>> /\ e \in Top.todo
    /\ UNCHANGED <<disk, request, ending, outcome>>
BelowLimit == counts.visited # request.maxEntries

\* The walk ends with an error before it reaches the entry's data.
Stops(e) ==
    /\ \E code \in {"DEADLINE"} \cup EnterErrors : Raise(code)
    /\ UNCHANGED counts \/ (BelowLimit /\ Counted(""))
    /\ NoIssue /\ UNCHANGED <<captured, listed, content, matches, late>>
\* The entry is none of the search's business.
Passes(e) ==
    /\ BelowLimit
    /\ \E more \in {"", "excluded"} : Skip(more, Taken(e))
    /\ (Reading /\ request.read # e) \/ ~Eligible(e)
\* The entry is passed over though it might matter, and the result says so.
Misses(e) ==
    /\ BelowLimit
    /\ \E more \in {"", "failed"} : Counted(more)
    /\ \E code \in {"READ_FAILED", "SOURCE_MUTATED", "DEPTH_LIMIT"} : Issue(code)
    /\ GoOn(Taken(e)) /\ UNCHANGED <<captured, listed, content, matches, late>>
Enters(e) ==
    /\ BelowLimit
    /\ Type[e] = "dir" /\ Counted("") /\ Open(e, Taken(e)) /\ NoIssue
    /\ UNCHANGED <<content, matches, late>>
Reads(e) ==
    /\ BelowLimit
    /\ Type[e] = "text" /\ Reading /\ request.read = e /\ ~Ignored(e)
    /\ ReadOut(e, Taken(e))
Searches(e) ==
    /\ BelowLimit
    /\ Type[e] = "text" /\ ~Reading /\ Match(e, Taken(e))

\* Visit takes one of these, whatever it meets.
LEMMA VisitKinds ==
    ASSUME NEW e \in Entries, Visit(e)
    PROVE  /\ AtEntry(e)
           /\ \/ Stops(e) \/ Passes(e) \/ Misses(e)
              \/ Enters(e) \/ Reads(e) \/ Searches(e)
<1> DEFINE s == Taken(e)
<1>1. SUFFICES \/ Stops(e) \/ Passes(e) \/ Misses(e)
               \/ Enters(e) \/ Reads(e) \/ Searches(e)
  BY DEF Visit, AtEntry
<1>2. CASE late \/ AtEntryLimit
  <2>1. \E code \in {"DEADLINE", "ENTRY_LIMIT"} : Raise(code)
    BY <1>2 DEF Visit, Raise
  <2> QED BY <1>2, <2>1 DEF Visit, Stops, EnterErrors
<1>3. CASE ~(late \/ AtEntryLimit)
  <2>1. BelowLimit
    BY <1>3 DEF BelowLimit, AtEntryLimit
  <2>2. \/ e \in Hidden /\ Skip("excluded", s)
        \/ ~OnTheWay(e) /\ Skip("", s)
        \/ Failed("READ_FAILED", s)
        \/ (Ignored(e) \/ Type[e] = "special") /\ Skip("excluded", s)
        \/ e \notin Hidden /\ ~Ignored(e) /\ Type[e] = "dir" /\ WalkInto(e, s)
        \/ /\ e \notin Hidden /\ ~Ignored(e) /\ Type[e] \notin {"special", "dir"}
           /\ SearchFile(e, s)
    BY <1>3 DEF Visit, Taken
  <2> HIDE DEF s
  <2>3. CASE e \in Hidden /\ Skip("excluded", s)
    BY <2>1, <2>3 DEF Passes, Eligible, s
  <2>4. CASE ~OnTheWay(e) /\ Skip("", s)
    BY <2>1, <2>4 DEF Passes, OnTheWay, s
  <2>5. ASSUME NEW code \in {"READ_FAILED", "SOURCE_MUTATED"}, Failed(code, s)
        PROVE  Misses(e)
    BY <2>1, <2>5 DEF Misses, Failed, s
  <2>6. CASE (Ignored(e) \/ Type[e] = "special") /\ Skip("excluded", s)
    BY <2>1, <2>6 DEF Passes, Eligible, s
  <2>7. CASE e \notin Hidden /\ ~Ignored(e) /\ Type[e] = "dir" /\ WalkInto(e, s)
    <3>1. CASE TooDeep(s)
      BY <2>1, <3>1 DEF TooDeep, Misses, s
    <3>2. CASE Failed("READ_FAILED", s)
      BY <2>5, <3>2
    <3>3. CASE /\ Counted("") /\ Open(e, s) /\ NoIssue
               /\ UNCHANGED <<content, matches, late>>
      BY <2>1, <2>7, <3>3 DEF Enters, s
    <3>4. CASE /\ \E code \in EnterErrors : Raise(code)
               /\ Counted("") /\ NoIssue
               /\ UNCHANGED <<captured, listed, content, matches, late>>
      BY <2>1, <3>4 DEF Stops
    <3> QED BY <2>7, <3>1, <3>2, <3>3, <3>4 DEF WalkInto
  <2>8. CASE /\ e \notin Hidden /\ ~Ignored(e) /\ Type[e] \notin {"special", "dir"}
             /\ SearchFile(e, s)
    <3>1. CASE Reading /\ request.read # e
      BY <2>1, <2>8, <3>1 DEF SearchFile, Passes, s
    <3>2. CASE Type[e] = "binary" /\ ~(Reading /\ request.read # e)
      BY <2>1, <2>8, <3>2 DEF SearchFile, Passes, Eligible, s
    <3>3. CASE Type[e] # "binary" /\ ~(Reading /\ request.read # e)
      <4>1. Type[e] = "text"
        BY <2>8, <3>3, TreeAssumption
      <4> QED BY <2>1, <2>5, <2>8, <3>3, <4>1 DEF SearchFile, Reads, Searches, s
    <3> QED BY <3>1, <3>2, <3>3
  <2> QED BY <2>2, <2>3, <2>4, <2>5, <2>6, <2>7, <2>8
<1> QED BY <1>2, <1>3

-----------------------------------------------------------------------------
(* Type correctness.                                                       *)

\* Counting an entry keeps the counters in their type.
LEMMA CountedType ==
    ASSUME counts \in [visited : Nat, searched : Nat, excluded : Nat, failed : Nat],
           NEW more, Counted(more)
    PROVE  /\ counts' \in [visited : Nat, searched : Nat, excluded : Nat, failed : Nat]
           /\ counts'.visited = counts.visited + 1
           /\ counts'.searched \in {counts.searched, counts.searched + 1}
           /\ more # "failed" => counts'.failed = counts.failed
BY DEF Counted

\* So does counting a failure, or none.
LEMMA FailedType ==
    ASSUME counts \in [visited : Nat, searched : Nat, excluded : Nat, failed : Nat],
           NEW n \in Nat, counts' = [counts EXCEPT !.failed = @ + n]
    PROVE  /\ counts' \in [visited : Nat, searched : Nat, excluded : Nat, failed : Nat]
           /\ counts'.visited = counts.visited /\ counts'.searched = counts.searched
OBVIOUS

\* So does opening a directory with all that changes then.
LEMMA OpenType ==
    ASSUME TypeOK, NEW d \in Dirs, NEW s \in Seq(Frame), pc = "walk", Open(d, s)
    PROVE  /\ stack' \in Seq(Frame) /\ pc' = "walk" /\ err' = err
           /\ captured' \in [Dirs -> (SUBSET Entries) \cup {None}]
           /\ listed' \subseteq Entries
<1>1. [dir |-> d, todo |-> {e \in present : Parent(e) = d}] \in Frame
  BY DEF Frame, TypeOK
<1>2. Append(s, [dir |-> d, todo |-> {e \in present : Parent(e) = d}]) \in Seq(Frame)
  BY <1>1, AppendProperties
<1> QED BY <1>2 DEF Open, GoOn, TypeOK

\* A directory is opened under the rules of its own ignore file.
LEMMA OpenCaptures ==
    ASSUME TypeOK, NEW d \in Dirs, NEW s, Open(d, s)
    PROVE  /\ captured'[d] # None
           /\ \A a \in Dirs : a # d => captured'[a] = captured[a]
<1>1. captured'[d] \in SUBSET Entries
  BY DEF Open, TypeOK
<1> QED BY <1>1, NoneAssumption DEF Open, TypeOK

\* The matches of a file stay matches of files.
LEMMA SearchType ==
    ASSUME TypeOK, NEW f \in Texts, NEW s, Match(f, s) \/ ReadOut(f, s)
    PROVE  /\ matches' \in Seq(Texts)
           /\ content' \in [Texts -> Contents \cup {1, None}]
<1>1. CASE Match(f, s)
  <2>1. PICK k \in 0 .. hits[f] : matches' = matches \o [j \in 1 .. k |-> f]
    BY <1>1 DEF Match
  <2>2. k \in Nat
    BY TreeAssumption DEF TypeOK
  <2>3. matches' \in Seq(Texts)
    BY <2>1, <2>2, MatchesAppended DEF TypeOK
  <2> QED BY <1>1, <2>3 DEF Match, TypeOK
<1>2. CASE ReadOut(f, s)
  <2>1. Append(matches, f) \in Seq(Texts)
    BY AppendProperties DEF TypeOK
  <2> QED BY <1>2, <2>1 DEF ReadOut, TypeOK
<1> QED BY <1>1, <1>2
\* What each phase has left behind.
PhaseOK ==
    /\ pc # "walk" => stack = <<>>
    /\ pc = "walk" => err = None
    /\ pc = "ended" => err \in Codes
    /\ pc # "done" => outcome = None

\* An error ends the walk in the type and the phase it should.
LEMMA RaiseType ==
    ASSUME NEW code \in Codes, Raise(code)
    PROVE  /\ stack' = <<>> /\ stack' \in Seq(Frame)
           /\ pc' = "ended" /\ err' = code
BY EmptySeq DEF Raise

\* A request that was just accepted is type correct.
LEMMA TypeInit == Init => TypeOK /\ PhaseOK
<1> SUFFICES ASSUME Init PROVE TypeOK /\ PhaseOK
  OBVIOUS
<1>1. /\ <<>> \in Seq([dir : Dirs, todo : SUBSET Entries])
      /\ <<>> \in Seq(Codes) /\ <<>> \in Seq(Texts)
  BY EmptySeq
<1>2. rules \in [Dirs -> SUBSET Entries] /\ changes \in 0 .. MaxChanges
  BY TreeAssumption DEF Init
<1>3. pc \in {"walk", "verify"}
  BY DEF Init
<1> QED BY <1>1, <1>2, <1>3 DEF Init, TypeOK, PhaseOK

\* So is what a visit leaves.
LEMMA VisitType ==
    ASSUME TypeOK, PhaseOK, NEW e \in Entries, Visit(e)
    PROVE  TypeOK' /\ PhaseOK'
<1>s. /\ stack \in Seq(Frame) /\ Taken(e) \in Seq(Frame)
      /\ pc = "walk" /\ err = None /\ outcome = None
  BY VisitKinds, TakenFrames DEF AtEntry, TypeOK, Frame, PhaseOK
<1>u. UNCHANGED <<disk, request, ending, outcome>>
  BY VisitKinds DEF AtEntry
\* The two shapes every visit has: the walk goes on, or has ended.
<1>q. ASSUME \/ stack' \in Seq(Frame) /\ pc' = "walk" /\ err' = err
             \/ \E code \in Codes : Raise(code),
             captured' \in [Dirs -> (SUBSET Entries) \cup {None}],
             listed' \subseteq Entries,
             content' \in [Texts -> Contents \cup {1, None}],
             counts' \in [visited : Nat, searched : Nat, excluded : Nat, failed : Nat],
             coverage' \in {"complete", "partial"},
             reasons' \in Seq(Codes), matches' \in Seq(Texts), late' \in BOOLEAN
      PROVE  TypeOK' /\ PhaseOK'
  <2> DEFINE Walked == /\ stack' \in Seq([dir : Dirs, todo : SUBSET Entries])
                       /\ pc' \in {"walk", "ended"} /\ err' \in Codes \cup {None}
                       /\ pc' # "walk" => stack' = <<>>
                       /\ pc' = "walk" => err' = None
                       /\ pc' = "ended" => err' \in Codes
  <2>1. Walked
    <3>1. CASE stack' \in Seq(Frame) /\ pc' = "walk" /\ err' = err
      BY <1>s, <3>1 DEF Frame
    <3>2. ASSUME NEW code \in Codes, Raise(code)
          PROVE  Walked
      BY <3>2, RaiseType DEF Frame
    <3> QED BY <1>q, <3>1, <3>2
  <2>2. PhaseOK'
    BY <1>s, <1>u, <2>1 DEF PhaseOK
  <2>3. TypeOK'
    BY <1>u, <1>q, <2>1 DEF TypeOK, disk, ending
  <2> QED BY <2>2, <2>3
<1>1. CASE Stops(e)
  <2>1. \E code \in Codes : Raise(code)
    BY <1>1 DEF Stops, EnterErrors, Codes
  <2>2. counts' \in [visited : Nat, searched : Nat, excluded : Nat, failed : Nat]
    BY <1>1, CountedType DEF Stops, TypeOK
  <2> QED BY <1>1, <1>q, <2>1, <2>2 DEF Stops, NoIssue, TypeOK
<1>2. CASE Passes(e)
  <2>1. PICK more \in {"", "excluded"} : Skip(more, Taken(e))
    BY <1>2 DEF Passes
  <2>2. counts' \in [visited : Nat, searched : Nat, excluded : Nat, failed : Nat]
    BY <2>1, CountedType DEF Skip, TypeOK
  <2> QED BY <1>s, <1>q, <2>1, <2>2 DEF Skip, GoOn, NoIssue, TypeOK
<1>3. CASE Misses(e)
  <2>1. PICK code \in {"READ_FAILED", "SOURCE_MUTATED", "DEPTH_LIMIT"} : Issue(code)
    BY <1>3 DEF Misses
  <2>2. reasons' \in Seq(Codes) /\ coverage' = "partial"
    BY <2>1, IssueFacts DEF Codes, TypeOK
  <2>3. counts' \in [visited : Nat, searched : Nat, excluded : Nat, failed : Nat]
    BY <1>3, CountedType DEF Misses, TypeOK
  <2> QED BY <1>s, <1>3, <1>q, <2>2, <2>3 DEF Misses, GoOn, TypeOK
<1>4. CASE Enters(e)
  <2>1. e \in Dirs
    BY <1>4 DEF Enters, Dirs
  <2>2. /\ stack' \in Seq(Frame) /\ pc' = "walk" /\ err' = err
        /\ captured' \in [Dirs -> (SUBSET Entries) \cup {None}]
        /\ listed' \subseteq Entries
    BY <1>s, <1>4, <2>1, OpenType DEF Enters
  <2>3. counts' \in [visited : Nat, searched : Nat, excluded : Nat, failed : Nat]
    BY <1>4, CountedType DEF Enters, TypeOK
  <2> QED BY <1>4, <1>q, <2>2, <2>3 DEF Enters, NoIssue, TypeOK
<1>5. CASE Reads(e)
  <2>1. e \in Texts /\ ReadOut(e, Taken(e))
    BY <1>5 DEF Reads, Texts
  <2>2. /\ matches' \in Seq(Texts)
        /\ content' \in [Texts -> Contents \cup {1, None}]
    BY <2>1, SearchType
  <2>3. counts' \in [visited : Nat, searched : Nat, excluded : Nat, failed : Nat]
    BY <2>1, CountedType DEF ReadOut, TypeOK
  <2>4. GoOn(Taken(e)) \/ \E code \in Codes : Raise(code)
    BY <2>1 DEF ReadOut, Codes
  <2> QED BY <1>s, <1>q, <2>1, <2>2, <2>3, <2>4 DEF ReadOut, GoOn, NoIssue, TypeOK
<1>6. CASE Searches(e)
  <2>1. e \in Texts /\ Match(e, Taken(e))
    BY <1>6 DEF Searches, Texts
  <2>2. /\ matches' \in Seq(Texts)
        /\ content' \in [Texts -> Contents \cup {1, None}]
    BY <2>1, SearchType
  <2>3. counts' \in [visited : Nat, searched : Nat, excluded : Nat, failed : Nat]
    BY <2>1, CountedType DEF Match, TypeOK
  <2>4. /\ GoOn(Taken(e)) \/ \E code \in Codes : Raise(code)
        /\ late' \in BOOLEAN
    BY <2>1 DEF Match, StopCodes, Codes, TypeOK
  <2> QED BY <1>s, <1>q, <2>1, <2>2, <2>3, <2>4 DEF Match, GoOn, NoIssue, TypeOK
<1> QED BY <1>1, <1>2, <1>3, <1>4, <1>5, <1>6, VisitKinds

\* Every step keeps every variable in its type, and what its phase promises.
LEMMA TypeNext == TypeOK /\ PhaseOK /\ [Next]_vars => TypeOK' /\ PhaseOK'
<1> SUFFICES ASSUME TypeOK, PhaseOK, [Next]_vars PROVE TypeOK' /\ PhaseOK'
  OBVIOUS
<1>s. stack \in Seq(Frame)
  BY DEF TypeOK, Frame
<1>c. {"DEADLINE", "READ_FAILED", "POLICY_CHANGED", "OUT_OF_SCOPE"} \cup EnterErrors
        \subseteq Codes
  BY DEF Codes, EnterErrors
<1>1. CASE EnterRoot
  <2>1. /\ pc = "walk"
        /\ UNCHANGED <<disk, request, late, content, counts, result, ending, outcome>>
    BY <1>1 DEF EnterRoot
  <2>2. CASE Open(Root, stack)
    <3>1. Root \in Dirs
      BY DEF Dirs
    <3>2. /\ stack' \in Seq(Frame) /\ pc' = "walk" /\ err' = err
          /\ captured' \in [Dirs -> (SUBSET Entries) \cup {None}]
          /\ listed' \subseteq Entries
      BY <1>s, <2>1, <2>2, <3>1, OpenType
    <3> QED BY <2>1, <3>2 DEF TypeOK, PhaseOK, Frame, disk, result, ending
  <2>3. ASSUME NEW code \in Codes, Raise(code), UNCHANGED <<captured, listed>>
        PROVE  TypeOK' /\ PhaseOK'
    <3>1. stack' = <<>> /\ stack' \in Seq(Frame) /\ pc' = "ended" /\ err' = code
      BY <2>3, RaiseType
    <3> QED BY <2>1, <2>3, <3>1 DEF TypeOK, PhaseOK, Frame, disk, result, ending
  <2> QED BY <1>1, <1>c, <2>2, <2>3 DEF EnterRoot
<1>2. ASSUME NEW e \in Entries, Visit(e) PROVE TypeOK' /\ PhaseOK'
  BY <1>2, VisitType
<1>3. CASE ReaddirFails
  <2>1. /\ pc = "walk" /\ stack # <<>>
        /\ UNCHANGED <<disk, request, late, captured, listed, content, matches,
                       ending, outcome>>
    BY <1>3 DEF ReaddirFails
  <2>2. CASE Len(stack) = 1
    <3>1. Raise("READ_FAILED") /\ NoIssue /\ UNCHANGED counts
      BY <1>3, <2>2 DEF ReaddirFails
    <3>2. /\ stack' = <<>> /\ stack' \in Seq(Frame)
          /\ pc' = "ended" /\ err' \in Codes
      BY <1>c, <3>1, RaiseType
    <3> QED BY <2>1, <3>1, <3>2 DEF NoIssue, TypeOK, PhaseOK, Frame, disk, ending
  <2>3. CASE Len(stack) # 1
    <3>1. /\ GoOn(Pop) /\ Issue("READ_FAILED")
          /\ counts' = [counts EXCEPT !.failed = @ + 1]
      BY <1>3, <2>3 DEF ReaddirFails
    <3>2. reasons' \in Seq(Codes) /\ coverage' = "partial"
      BY <1>c, <3>1, IssueFacts DEF TypeOK
    <3>3. stack' \in Seq(Frame) /\ pc' = pc /\ err' = err
      BY <1>s, <2>1, <3>1, PopFrames DEF GoOn
    <3>4. counts' \in [visited : Nat, searched : Nat, excluded : Nat, failed : Nat]
      BY <3>1, FailedType DEF TypeOK
    <3> QED BY <2>1, <3>2, <3>3, <3>4 DEF TypeOK, PhaseOK, Frame, disk, ending
  <2> QED BY <2>2, <2>3
<1>4. CASE Leave
  <2>1. stack' \in Seq(Frame) /\ (Len(stack) = 1 => stack' = <<>>)
    <3>1. stack' = Pop /\ stack # <<>>
      BY <1>4 DEF Leave
    <3>2. Pop \in Seq(Frame) /\ DOMAIN Pop = 1 .. Len(stack) - 1
      BY <1>s, <3>1, PopFrames
    <3>3. Len(stack) = 1 => Len(Pop) = 0
      BY <3>2, LenProperties
    <3> QED BY <3>1, <3>2, <3>3, EmptySeq
  <2>2. Observations \subseteq Dirs
    BY DEF Observations
  <2>3. pc = "walk" /\ unverified' \subseteq Dirs /\ pc' \in {"walk", "verify"}
    BY <1>4, <2>2 DEF Leave, TypeOK
  <2>4. pc' = "verify" => stack' = <<>>
    BY <1>4, <2>1 DEF Leave
  <2> QED BY <1>4, <2>1, <2>3, <2>4 DEF Leave, TypeOK, PhaseOK, Frame, disk, result
<1>5. CASE Ended
  <2>1. /\ pc = "ended" /\ err \in Codes /\ stack = <<>>
        /\ UNCHANGED <<disk, request, late, walking, err, content, matches, recent>>
    BY <1>5 DEF Ended, PhaseOK
  <2>2. CASE /\ Answer("error", err)
             /\ UNCHANGED <<counts, reasons, coverage, unverified>>
    BY <2>1, <2>2 DEF Answer, TypeOK, PhaseOK, disk, walking
  <2>3. CASE /\ Issue(err) /\ pc' = "verify" /\ unverified' = Observations
             /\ counts' = [counts EXCEPT !.failed =
                  @ + (IF err \in {"READ_FAILED", "SOURCE_MUTATED"} THEN 1 ELSE 0)]
             /\ UNCHANGED outcome
    <3>1. reasons' \in Seq(Codes) /\ coverage' = "partial"
      BY <2>1, <2>3, IssueFacts DEF TypeOK
    <3>2. counts' \in [visited : Nat, searched : Nat, excluded : Nat, failed : Nat]
      BY <2>3, FailedType DEF TypeOK
    <3>3. unverified' \subseteq Dirs
      BY <2>3 DEF Observations
    <3> QED BY <2>1, <2>3, <3>1, <3>2, <3>3 DEF TypeOK, PhaseOK, disk, walking
  <2> QED BY <1>5, <2>2, <2>3 DEF Ended
<1>6. ASSUME NEW d \in Dirs, Verify(d) PROVE TypeOK' /\ PhaseOK'
  <2>1. PICK code \in Codes : NoIssue \/ Issue(code)
    BY <1>6, <1>c DEF Verify
  <2>2. reasons' \in Seq(Codes) /\ coverage' \in {"complete", "partial"}
    BY <2>1, IssueFacts DEF NoIssue, TypeOK
  <2>3. unverified' \subseteq Dirs
    BY <1>6 DEF Verify, TypeOK
  <2> QED BY <1>6, <2>2, <2>3 DEF Verify, TypeOK, PhaseOK, disk, walking
<1>7. CASE Respond
  <2>1. PICK status \in {"ok", "error"}, code \in Codes \cup {None} : Answer(status, code)
    <3>1. reasons # <<>> => Head(reasons) \in Codes
      BY HeadTailProperties DEF TypeOK
    <3> QED BY <1>7, <1>c, <3>1 DEF Respond, Response
  <2> QED
    BY <1>7, <2>1 DEF Respond, Answer, TypeOK, PhaseOK, disk, walking, result, ending
<1>8. CASE Expire
  BY <1>8 DEF Expire, TypeOK, PhaseOK, disk, walking, result, ending
<1>9. CASE Others
  <2>1. /\ changes' \in 0 .. MaxChanges
        /\ UNCHANGED <<request, late, pc, walking, err, content, counts, result,
                       unverified, outcome>>
    BY <1>9, TreeAssumption DEF Others, EditRules, EditFile, Remove, Change, TypeOK
  <2> DEFINE Tree == /\ rules' \in [Dirs -> SUBSET Entries]
                     /\ hits' \in [Texts -> Contents]
                     /\ present' \subseteq Entries /\ recent' \subseteq Dirs
  <2>2. Tree
    <3>1. ASSUME NEW d \in Dirs, NEW R \in Rulesets, EditRules(d, R) PROVE Tree
      BY <3>1, TreeAssumption DEF EditRules, TypeOK
    <3>2. ASSUME NEW f \in Texts, NEW n \in Contents, EditFile(f, n) PROVE Tree
      BY <3>2 DEF EditFile, TypeOK
    <3>3. ASSUME NEW e \in Entries, Remove(e) PROVE Tree
      BY <3>3 DEF Remove, TypeOK
    <3> QED BY <1>9, <3>1, <3>2, <3>3 DEF Others
  <2> QED BY <2>1, <2>2 DEF TypeOK, PhaseOK, walking, result
<1>10. CASE UNCHANGED vars
  BY <1>10 DEF vars, disk, walking, result, ending, TypeOK, PhaseOK
<1> QED
  BY <1>1, <1>2, <1>3, <1>4, <1>5, <1>6, <1>7, <1>8, <1>9, <1>10 DEF Next, Step, Returned

\* Every variable has its type, whatever others do to the tree.
THEOREM TypeCorrect == Spec => []TypeOK
BY TypeInit, TypeNext, PTL DEF Spec

-----------------------------------------------------------------------------
(* The walk meets every entry once.                                        *)

\* An entry nobody has walked into or searched.
Fresh(e) ==
    /\ e \in Dirs => captured[e] = None
    /\ e \in Texts => content[e] = None /\ \A k \in DOMAIN matches : matches[k] # e

\* The entries still to come are fresh, each in the frame of its own directory;
\* what is no longer fresh lies below directories that were all walked into.
WalkOK ==
    /\ \A i \in DOMAIN stack : captured[stack[i].dir] # None
    /\ \A i, j \in DOMAIN stack : stack[i].dir = stack[j].dir => i = j
    /\ \A i \in DOMAIN stack : \A e \in stack[i].todo :
         Parent(e) = stack[i].dir /\ Fresh(e)
    /\ \A e \in Entries : Fresh(e) \/ captured[Parent(e)] # None
    /\ \A d \in Dirs : captured[d] # None =>
         \A a \in Ancestors(d) : captured[a] # None

\* A stack s that is what is left of the present one.
LeftOf(s) ==
    /\ s \in Seq(Frame) /\ DOMAIN s \subseteq DOMAIN stack
    /\ \A i \in DOMAIN s : /\ s[i].dir = stack[i].dir
                           /\ s[i].todo \subseteq stack[i].todo

\* Taking an entry, leaving a directory and giving up leave less of the stack.
LEMMA StackIsLeft ==
    ASSUME TypeOK
    PROVE  /\ LeftOf(<<>>)
           /\ stack # <<>> => LeftOf(Pop) /\ \A e : LeftOf(Taken(e))
<1>1. stack \in Seq(Frame)
  BY DEF TypeOK, Frame
<1>2. <<>> \in Seq(Frame) /\ DOMAIN <<>> = {}
  BY EmptySeq
<1>3. LeftOf(<<>>)
  BY <1>2 DEF LeftOf
<1>4. ASSUME stack # <<>> PROVE LeftOf(Pop)
  BY <1>1, <1>4, PopFrames DEF LeftOf
<1>5. ASSUME stack # <<>>, NEW e PROVE LeftOf(Taken(e))
  BY <1>1, <1>5, TakenFrames DEF LeftOf
<1> QED BY <1>3, <1>4, <1>5

\* An entry that is taken is to come nowhere else, and lies below directories that
\* were all walked into.
LEMMA TakenIsGone ==
    ASSUME TypeOK, WalkOK, NEW e \in Entries, stack # <<>>, e \in Top.todo
    PROVE  /\ Fresh(e) /\ Parent(e) = Top.dir
           /\ \A i \in DOMAIN Taken(e) : e \notin Taken(e)[i].todo
           /\ \A a \in Ancestors(e) : captured[a] # None
<1>1. /\ Len(stack) \in Nat \ {0} /\ DOMAIN stack = 1 .. Len(stack)
      /\ DOMAIN Taken(e) = DOMAIN stack
      /\ \A i \in DOMAIN stack :
           Taken(e)[i].todo = IF i = Len(stack) THEN stack[i].todo \ {e}
                                                ELSE stack[i].todo
  BY TakenFrames, LenProperties DEF TypeOK, Frame
<1>2. Fresh(e) /\ Parent(e) = Top.dir /\ captured[Top.dir] # None
  BY <1>1 DEF WalkOK, Top
<1>3. ASSUME NEW i \in DOMAIN Taken(e), e \in Taken(e)[i].todo PROVE FALSE
  <2>1. i \in DOMAIN stack /\ e \in stack[i].todo /\ i # Len(stack)
    BY <1>1, <1>3
  <2>2. stack[i].dir = stack[Len(stack)].dir
    BY <1>2, <2>1 DEF WalkOK, Top
  <2> QED BY <1>1, <2>1, <2>2 DEF WalkOK
<1>4. \A a \in Ancestors(e) : captured[a] # None
  <2>1. Parent(e) \in Dirs
    BY ParentIsDir
  <2>2. \A a \in Ancestors(Parent(e)) : captured[a] # None
    BY <1>2, <2>1 DEF WalkOK
  <2> QED BY <1>2, <2>2, AncestorsOfParent
<1> QED BY <1>2, <1>3, <1>4

\* With less of the stack and no more data the walk is as sound as before.
LEMMA LessIsSound ==
    ASSUME TypeOK, WalkOK, LeftOf(stack'), UNCHANGED <<captured, content, matches>>
    PROVE  WalkOK'
BY DEF WalkOK, LeftOf, Fresh

\* So it is after a directory nobody walked into was opened, below directories that
\* were all walked into.
LEMMA OpenIsSound ==
    ASSUME TypeOK, WalkOK, NEW d \in Dirs, NEW s, captured[d] = None, LeftOf(s),
           \A i \in DOMAIN s : d \notin s[i].todo,
           \A a \in Ancestors(d) : captured[a] # None,
           Open(d, s), UNCHANGED <<content, matches>>
    PROVE  WalkOK'
<1> DEFINE top == [dir |-> d, todo |-> {e \in present : Parent(e) = d}]
<1>1. stack' = Append(s, top) /\ s \in Seq(Frame)
  BY DEF Open, GoOn, LeftOf
<1>2. /\ captured'[d] # None
      /\ \A a \in Dirs : a # d => captured'[a] = captured[a]
  BY OpenCaptures
<1>3. /\ top.dir = d /\ \A e \in top.todo : e \in Entries /\ Parent(e) = d
      /\ top \in Frame
  BY DEF TypeOK, Frame
<1> HIDE DEF top
<1>4. /\ DOMAIN s = 1 .. Len(s) /\ Len(s) \in Nat
      /\ DOMAIN stack' = 1 .. Len(s) + 1
      /\ \A i \in 1 .. Len(s) : stack'[i] = s[i]
      /\ stack'[Len(s) + 1] = top
  <2>1. stack' \in Seq(Frame) /\ Len(stack') = Len(s) + 1
    BY <1>1, <1>3, AppendProperties
  <2> QED BY <1>1, <1>3, <2>1, AppendProperties, LenProperties
<1>5. \A i \in DOMAIN s : /\ i \in DOMAIN stack /\ s[i].dir = stack[i].dir
                          /\ s[i].dir \in Dirs /\ s[i].dir # d
                          /\ \A e \in s[i].todo : e \in Entries /\ e \in stack[i].todo
  <2>1. \A i \in DOMAIN s : s[i] \in Frame
    BY <1>1, ElementOfSeq, LenProperties
  <2> QED BY <2>1 DEF LeftOf, WalkOK, Frame
<1>6. \A i \in DOMAIN stack' : captured'[stack'[i].dir] # None
  BY <1>2, <1>3, <1>4, <1>5 DEF WalkOK
<1>7. \A i, j \in DOMAIN stack' : stack'[i].dir = stack'[j].dir => i = j
  BY <1>3, <1>4, <1>5 DEF WalkOK
\* An entry stays fresh unless it is the directory itself.
<1>8. \A e \in Entries : e # d => (Fresh(e)' <=> Fresh(e))
  BY <1>2 DEF Fresh
<1>9. \A i \in DOMAIN stack' : \A e \in stack'[i].todo :
        Parent(e) = stack'[i].dir /\ Fresh(e)'
  <2>1. ASSUME NEW i \in DOMAIN s, NEW e \in s[i].todo
        PROVE  Parent(e) = s[i].dir /\ Fresh(e)'
    <3>1. e # d /\ e \in Entries /\ e \in stack[i].todo /\ i \in DOMAIN stack
      BY <1>5, <2>1
    <3>2. Parent(e) = stack[i].dir /\ Fresh(e)
      BY <3>1 DEF WalkOK
    <3> QED BY <1>5, <1>8, <3>1, <3>2
  <2>2. ASSUME NEW e \in top.todo PROVE Parent(e) = top.dir /\ Fresh(e)'
    <3>1. e \in Entries /\ Parent(e) = d
      BY <1>3
    <3>2. Fresh(e)
      BY <3>1 DEF WalkOK
    <3>3. e # d
      BY <3>1, ParentIsDir
    <3> QED BY <1>3, <1>8, <3>1, <3>2, <3>3
  <2> QED BY <1>4, <2>1, <2>2
<1>10. \A e \in Entries : Fresh(e)' \/ captured'[Parent(e)] # None
  <2>1. ASSUME NEW e \in Entries, e # d PROVE Fresh(e)' \/ captured'[Parent(e)] # None
    <3>1. Parent(e) \in Dirs
      BY ParentIsDir
    <3> QED BY <1>2, <1>8, <2>1, <3>1 DEF WalkOK
  <2>2. ASSUME d \in Entries PROVE captured'[Parent(d)] # None
    <3>1. Parent(d) \in Ancestors(d) /\ Parent(d) \in Dirs
      BY <2>2, ParentIsDir
    <3> QED BY <1>2, <3>1
  <2> QED BY <2>1, <2>2
<1>11. \A c \in Dirs : captured'[c] # None => \A a \in Ancestors(c) : captured'[a] # None
  <2>1. ASSUME NEW c \in Dirs, captured'[c] # None, NEW a \in Ancestors(c)
        PROVE  captured'[a] # None
    <3>1. captured[a] # None
      BY <1>2, <2>1 DEF WalkOK
    <3>2. a \in Dirs
      BY <2>1, ParentIsDir, RootHasNone DEF Dirs
    <3> QED BY <1>2, <3>1, <3>2
  <2> QED BY <2>1
<1> QED BY <1>6, <1>7, <1>9, <1>10, <1>11 DEF WalkOK

\* And after a file was searched that is to come nowhere.
LEMMA SearchIsSound ==
    ASSUME TypeOK, WalkOK, NEW f \in Texts, NEW s, LeftOf(s),
           \A i \in DOMAIN s : f \notin s[i].todo, captured[Parent(f)] # None,
           stack' \in {s, <<>>}, captured' = captured,
           \A e \in Texts : e # f => content'[e] = content[e],
           \A k \in DOMAIN matches' : matches'[k] = f
                             \/ (k \in DOMAIN matches /\ matches'[k] = matches[k])
    PROVE  WalkOK'
<1>1. LeftOf(stack') /\ \A i \in DOMAIN stack' : f \notin stack'[i].todo
  BY StackIsLeft
<1>2. \A e \in Entries : e # f /\ Fresh(e) => Fresh(e)'
  BY DEF Fresh
<1>3. \A i \in DOMAIN stack' : \A e \in stack'[i].todo :
        /\ i \in DOMAIN stack /\ e \in stack[i].todo /\ e # f
        /\ stack'[i].dir = stack[i].dir /\ e \in Entries
  <2>1. \A i \in DOMAIN stack' : stack'[i] \in Frame
    BY <1>1, ElementOfSeq, LenProperties DEF LeftOf
  <2> QED BY <1>1, <2>1 DEF LeftOf, Frame
<1>4. \A i \in DOMAIN stack' : \A e \in stack'[i].todo :
        Parent(e) = stack'[i].dir /\ Fresh(e)'
  BY <1>2, <1>3 DEF WalkOK
<1>5. \A e \in Entries : Fresh(e)' \/ captured'[Parent(e)] # None
  BY <1>2 DEF WalkOK
<1>6. /\ \A i \in DOMAIN stack' : captured'[stack'[i].dir] # None
      /\ \A i, j \in DOMAIN stack' : stack'[i].dir = stack'[j].dir => i = j
  BY <1>1 DEF WalkOK, LeftOf
<1> QED BY <1>4, <1>5, <1>6 DEF WalkOK

\* What a file that is searched or read adds, and where it leaves the walk.
LEMMA SearchAdds ==
    ASSUME TypeOK, NEW f \in Texts, NEW s, Match(f, s) \/ ReadOut(f, s)
    PROVE  /\ stack' \in {s, <<>>}
           /\ UNCHANGED <<captured, listed>> /\ NoIssue /\ Counted("searched")
           /\ \A e \in Texts : e # f => content'[e] = content[e]
           /\ \A k \in DOMAIN matches' : matches'[k] = f
                                \/ (k \in DOMAIN matches /\ matches'[k] = matches[k])
<1>1. CASE Match(f, s)
  <2>1. PICK k \in 0 .. hits[f] :
          /\ matches' = matches \o [j \in 1 .. k |-> f]
          /\ GoOn(s) \/ \E code \in StopCodes(k, hits[f]) : Raise(code)
    BY <1>1 DEF Match
  <2>2. k \in Nat
    BY TreeAssumption DEF TypeOK
  <2>3. \A i \in DOMAIN matches' : matches'[i] = f
                          \/ (i \in DOMAIN matches /\ matches'[i] = matches[i])
    <3>1. /\ Len(matches) \in Nat /\ DOMAIN matches = 1 .. Len(matches)
          /\ DOMAIN matches' = 1 .. Len(matches) + k
          /\ \A i \in 1 .. Len(matches) + k :
               matches'[i] = IF i <= Len(matches) THEN matches[i] ELSE f
      BY <2>1, <2>2, MatchesAppended DEF TypeOK
    <3> QED BY <2>2, <3>1
  <2> QED BY <1>1, <2>1, <2>3 DEF Match, GoOn, Raise, TypeOK
<1>2. CASE ReadOut(f, s)
  <2>1. \A i \in DOMAIN matches' : matches'[i] = f
                          \/ (i \in DOMAIN matches /\ matches'[i] = matches[i])
    <3>1. CASE matches' = matches
      BY <3>1
    <3>2. CASE matches' = Append(matches, f)
      <4>1. matches' \in Seq(Texts) /\ matches \in Seq(Texts)
        BY <1>2, SearchType DEF TypeOK
      <4>2. /\ Len(matches) \in Nat
            /\ DOMAIN matches' = 1 .. Len(matches) + 1
            /\ DOMAIN matches = 1 .. Len(matches)
            /\ \A i \in 1 .. Len(matches) : matches'[i] = matches[i]
            /\ matches'[Len(matches) + 1] = f
        BY <3>2, <4>1, AppendProperties, LenProperties
      <4> QED BY <4>2
    <3> QED BY <1>2, <3>1, <3>2 DEF ReadOut
  <2> QED BY <1>2, <2>1 DEF ReadOut, GoOn, Raise, TypeOK
<1> QED BY <1>1, <1>2

\* The walk stays sound.
LEMMA WalkNext ==
    ASSUME TypeOK, PhaseOK, WalkOK, [Next]_vars
    PROVE  WalkOK'
<1>1. CASE EnterRoot
  <2>1. stack = <<>> /\ captured[Root] = None /\ UNCHANGED <<content, matches>>
    BY <1>1 DEF EnterRoot, result
  <2>2. CASE Open(Root, stack)
    <3>1. LeftOf(stack) /\ DOMAIN stack = {} /\ Root \in Dirs
      BY <2>1, StackIsLeft, EmptySeq DEF Dirs
    <3> QED BY <2>1, <2>2, <3>1, RootHasNone, OpenIsSound
  <2>3. CASE stack' = <<>> /\ captured' = captured
    BY <2>1, <2>3, StackIsLeft, LessIsSound
  <2> QED BY <1>1, <2>2, <2>3 DEF EnterRoot, Raise
<1>2. ASSUME NEW e \in Entries, Visit(e) PROVE WalkOK'
  <2>1. stack # <<>> /\ e \in Top.todo
    BY <1>2, VisitKinds DEF AtEntry
  <2>2. LeftOf(Taken(e)) /\ LeftOf(<<>>)
    BY <2>1, StackIsLeft
  <2>3. /\ Fresh(e) /\ \A i \in DOMAIN Taken(e) : e \notin Taken(e)[i].todo
        /\ \A a \in Ancestors(e) : captured[a] # None
    BY <2>1, TakenIsGone
  <2>4. CASE Stops(e)
    BY <2>2, <2>4, LessIsSound DEF Stops, Raise
  <2>5. CASE Passes(e)
    BY <2>2, <2>5, LessIsSound DEF Passes, Skip, GoOn
  <2>6. CASE Misses(e)
    BY <2>2, <2>6, LessIsSound DEF Misses, GoOn
  <2>7. CASE Enters(e)
    <3>1. e \in Dirs
      BY <2>7 DEF Enters, Dirs
    <3>2. captured[e] = None
      BY <2>3, <3>1 DEF Fresh
    <3> QED BY <2>2, <2>3, <2>7, <3>1, <3>2, OpenIsSound DEF Enters
  <2>8. CASE Reads(e) \/ Searches(e)
    <3>1. e \in Texts /\ (Match(e, Taken(e)) \/ ReadOut(e, Taken(e)))
      BY <2>8 DEF Reads, Searches, Texts
    <3>2. captured[Parent(e)] # None
      BY <2>3, ParentIsDir
    <3>3. /\ stack' \in {Taken(e), <<>>} /\ captured' = captured
          /\ \A g \in Texts : g # e => content'[g] = content[g]
          /\ \A k \in DOMAIN matches' : matches'[k] = e
                               \/ (k \in DOMAIN matches /\ matches'[k] = matches[k])
      BY <3>1, SearchAdds
    <3> QED BY <2>2, <2>3, <3>1, <3>2, <3>3, SearchIsSound
  <2> QED BY <1>2, <2>4, <2>5, <2>6, <2>7, <2>8, VisitKinds
<1>3. CASE ReaddirFails \/ Leave
  <2>1. /\ stack # <<>> /\ stack' \in {Pop, <<>>}
        /\ UNCHANGED <<captured, content, matches>>
    BY <1>3 DEF ReaddirFails, Leave, Raise, GoOn, result
  <2> QED BY <2>1, StackIsLeft, LessIsSound
<1>4. CASE \/ Ended \/ Respond \/ Expire \/ Others \/ UNCHANGED vars
           \/ \E d \in Dirs : Verify(d)
  <2>1. UNCHANGED <<stack, captured, content, matches>>
    BY <1>4 DEF Ended, Respond, Expire, Others, EditRules, EditFile, Remove, Change,
                Verify, vars, walking, result
  <2> QED BY <2>1 DEF WalkOK, Fresh
<1> QED BY <1>1, <1>2, <1>3, <1>4 DEF Next, Step, Returned

\* At first there is nothing to be found twice.
LEMMA WalkInit == Init => WalkOK
BY EmptySeq DEF Init, WalkOK, Fresh

-----------------------------------------------------------------------------
(* What the client checks of an answer, and what a read promises.          *)

\* The numbers and the reasons the client will check, at every step.
AnswerOK ==
    /\ Len(matches) <= request.maxMatches
    /\ counts.visited <= request.maxEntries
    /\ counts.searched <= counts.visited
    /\ \A j, k \in DOMAIN reasons : reasons[j] = reasons[k] => j = k
    /\ (coverage = "complete") <=> (reasons = <<>>)
    /\ coverage = "complete" => counts.failed = 0

\* A read finds its file once, below directories whose rules let it pass.
ReadOK ==
    Reading =>
        /\ matches = <<>> \/ matches = <<request.read>>
        /\ matches # <<>> => \A a \in Ancestors(request.read) :
             captured[a] # None /\ request.read \notin captured[a]
        /\ Succeeded => matches # <<>> /\ reasons = <<>>

\* The limits of the request are numbers.
LEMMA RequestNumbers ==
    ASSUME TypeOK
    PROVE  /\ request.maxMatches \in Nat \ {0} /\ request.maxEntries \in Nat \ {0}
           /\ Len(matches) \in Nat /\ Room \in Int
           /\ Reading => ~Searching
<1>1. request \in Requests /\ Len(matches) \in Nat
  BY LenProperties DEF TypeOK
<1>2. request.maxMatches \in Nat \ {0} /\ request.maxEntries \in Nat \ {0}
  BY <1>1, RequestsAssumption
<1>3. Reading => ~Searching
  BY RequestsAssumption DEF Reading, Searching
<1> QED BY <1>1, <1>2, <1>3 DEF Room

\* An entry is counted within the limit, and a failure only with an issue.
LEMMA CountedWithin ==
    ASSUME TypeOK, AnswerOK, BelowLimit, NEW more, Counted(more), request' = request
    PROVE  /\ counts'.visited <= request'.maxEntries
           /\ counts'.searched <= counts'.visited
           /\ more # "failed" => counts'.failed = counts.failed
<1>1. /\ counts'.visited = counts.visited + 1
      /\ counts'.searched \in {counts.searched, counts.searched + 1}
      /\ more # "failed" => counts'.failed = counts.failed
      /\ counts.visited \in Nat /\ counts.searched \in Nat
  BY CountedType DEF TypeOK
<1>2. request.maxEntries \in Nat
  BY RequestNumbers
<1> QED BY <1>1, <1>2 DEF AnswerOK, BelowLimit

\* The reasons stay distinct and say whether the result is complete.
LEMMA IssueAnswers ==
    ASSUME TypeOK, AnswerOK, NEW code \in Codes, Issue(code)
    PROVE  /\ \A j, k \in DOMAIN reasons' : reasons'[j] = reasons'[k] => j = k
           /\ coverage' # "complete" /\ reasons' # <<>>
BY IssueFacts DEF TypeOK, AnswerOK

\* One match is one match.
LEMMA OneMatch ==
    ASSUME NEW x
    PROVE  /\ Append(<<>>, x) = <<x>> /\ Len(<<x>>) = 1 /\ <<x>> # <<>>
           /\ Len(<<>>) = 0 /\ 1 \in DOMAIN <<x>> /\ <<x>>[1] = x
OBVIOUS

\* A file that is read is the first one found.
LEMMA ReadIsFirst ==
    ASSUME TypeOK, WalkOK, ReadOK, NEW e \in Entries, AtEntry(e), Reads(e)
    PROVE  /\ matches = <<>> /\ Reading /\ request.read = e
           /\ \A a \in Ancestors(e) : captured[a] # None /\ e \notin captured[a]
<1>1. Reading /\ request.read = e /\ e \in Texts /\ ~Ignored(e)
  BY DEF Reads, Texts
<1>2. Fresh(e) /\ \A a \in Ancestors(e) : captured[a] # None
  BY TakenIsGone DEF AtEntry
<1>3. matches # <<e>>
  <2>1. 1 \in DOMAIN <<e>> /\ <<e>>[1] = e
    OBVIOUS
  <2> QED BY <1>1, <1>2, <2>1 DEF Fresh
<1> QED BY <1>1, <1>2, <1>3 DEF ReadOK, Ignored

\* The rules a directory was walked into with stay.
LEMMA CapturedStays ==
    ASSUME TypeOK, WalkOK, [Next]_vars
    PROVE  \A d \in Dirs : captured[d] # None => captured'[d] = captured[d]
<1>1. CASE EnterRoot
  BY <1>1, OpenCaptures DEF EnterRoot, Dirs
<1>2. ASSUME NEW e \in Entries, Visit(e)
      PROVE  \A d \in Dirs : captured[d] # None => captured'[d] = captured[d]
  <2>1. CASE Enters(e)
    <3>1. e \in Dirs /\ Open(e, Taken(e))
      BY <2>1 DEF Enters, Dirs
    <3>2. captured[e] = None
      BY <1>2, <3>1, VisitKinds, TakenIsGone DEF AtEntry, Fresh
    <3> QED BY <3>1, <3>2, OpenCaptures
  <2>2. CASE Stops(e) \/ Passes(e) \/ Misses(e) \/ Reads(e) \/ Searches(e)
    BY <2>2 DEF Stops, Passes, Skip, Misses, Reads, ReadOut, Searches, Match
  <2> QED BY <1>2, <2>1, <2>2, VisitKinds
<1>3. CASE \/ ReaddirFails \/ Leave \/ Ended \/ Respond \/ Expire \/ Others
           \/ UNCHANGED vars \/ \E d \in Dirs : Verify(d)
  BY <1>3 DEF ReaddirFails, Leave, Ended, Respond, Expire, Others, EditRules, EditFile,
              Remove, Change, Verify, vars, walking
<1> QED BY <1>1, <1>2, <1>3 DEF Next, Step, Returned

\* Whatever the walk meets, its answer stays one the client accepts.
LEMMA AnswerNext ==
    ASSUME TypeOK, PhaseOK, WalkOK, AnswerOK, ReadOK, [Next]_vars
    PROVE  AnswerOK'
<1>n. /\ request.maxMatches \in Nat \ {0} /\ request.maxEntries \in Nat \ {0}
      /\ Len(matches) \in Nat
  BY RequestNumbers
<1>c. {"DEADLINE", "READ_FAILED", "POLICY_CHANGED", "SOURCE_MUTATED", "DEPTH_LIMIT"}
        \subseteq Codes
  BY DEF Codes
\* A step that counts one entry and adds no reason.
<1>q. ASSUME request' = request, BelowLimit, NEW more, Counted(more), more # "failed",
             NoIssue, Len(matches') <= request.maxMatches
      PROVE  AnswerOK'
  BY <1>q, CountedWithin DEF AnswerOK, NoIssue
<1>1. CASE EnterRoot
  BY <1>1 DEF EnterRoot, disk, result, AnswerOK
<1>2. ASSUME NEW e \in Entries, Visit(e) PROVE AnswerOK'
  <2>1. AtEntry(e) /\ request' = request
    BY <1>2, VisitKinds DEF AtEntry
  <2>2. CASE Stops(e)
    <3>1. NoIssue /\ matches' = matches
      BY <2>2 DEF Stops
    <3>2. CASE UNCHANGED counts
      BY <2>1, <3>1, <3>2 DEF AnswerOK, NoIssue
    <3>3. CASE BelowLimit /\ Counted("")
      BY <1>q, <2>1, <3>1, <3>3 DEF AnswerOK
    <3> QED BY <2>2, <3>2, <3>3 DEF Stops
  <2>3. CASE Passes(e)
    <3>1. PICK more \in {"", "excluded"} : Skip(more, Taken(e))
      BY <2>3 DEF Passes
    <3>2. Counted(more) /\ NoIssue /\ matches' = matches /\ BelowLimit /\ more # "failed"
      BY <2>3, <3>1 DEF Skip, Passes
    <3> QED BY <1>q, <2>1, <3>2 DEF AnswerOK
  <2>4. CASE Misses(e)
    <3>1. PICK more \in {"", "failed"} : Counted(more)
      BY <2>4 DEF Misses
    <3>2. /\ counts'.visited <= request'.maxEntries
          /\ counts'.searched <= counts'.visited
      BY <2>1, <2>4, <3>1, CountedWithin DEF Misses
    <3>3. PICK code \in Codes : Issue(code)
      BY <1>c, <2>4 DEF Misses
    <3>4. /\ \A j, k \in DOMAIN reasons' : reasons'[j] = reasons'[k] => j = k
          /\ coverage' # "complete" /\ reasons' # <<>>
      BY <3>3, IssueAnswers
    <3>5. matches' = matches
      BY <2>4 DEF Misses
    <3> QED BY <2>1, <3>2, <3>4, <3>5 DEF AnswerOK
  <2>5. CASE Enters(e)
    <3>1. BelowLimit /\ Counted("") /\ NoIssue /\ matches' = matches
      BY <2>5 DEF Enters
    <3> QED BY <1>q, <2>1, <3>1 DEF AnswerOK
  <2>6. CASE Reads(e)
    <3>1. matches = <<>>
      BY <2>1, <2>6, ReadIsFirst
    <3>2. matches' = <<>> \/ matches' = <<e>>
      BY <2>6, <3>1, OneMatch DEF Reads, ReadOut
    <3>3. Len(matches') \in {0, 1}
      BY <3>2, OneMatch
    <3>4. \A m \in Nat \ {0} : \A l \in {0, 1} : l <= m
      OBVIOUS
    <3>5. Len(matches') <= request.maxMatches
      BY <1>n, <3>3, <3>4
    <3>6. BelowLimit /\ Counted("searched") /\ NoIssue
      BY <2>6 DEF Reads, ReadOut
    <3> QED BY <1>q, <2>1, <3>5, <3>6
  <2>7. CASE Searches(e)
    <3>1. e \in Texts /\ Match(e, Taken(e)) /\ BelowLimit
      BY <2>7 DEF Searches, Texts
    <3>2. PICK k \in 0 .. hits[e] :
            k <= Room /\ matches' = matches \o [j \in 1 .. k |-> e]
      BY <3>1 DEF Match
    <3>3. k \in Nat
      BY <3>1, TreeAssumption DEF TypeOK
    <3>4. Len(matches') = Len(matches) + k
      BY <3>1, <3>2, <3>3, MatchesAppended DEF TypeOK
    <3>5. Len(matches') <= request.maxMatches
      BY <1>n, <3>2, <3>3, <3>4 DEF Room
    <3>6. Counted("searched") /\ NoIssue
      BY <3>1 DEF Match
    <3> QED BY <1>q, <2>1, <3>1, <3>5, <3>6
  <2> QED BY <1>2, <2>2, <2>3, <2>4, <2>5, <2>6, <2>7, VisitKinds
<1>3. CASE ReaddirFails
  <2>1. matches' = matches /\ request' = request
    BY <1>3 DEF ReaddirFails
  <2>2. CASE Len(stack) = 1
    BY <1>3, <2>1, <2>2 DEF ReaddirFails, NoIssue, AnswerOK
  <2>3. CASE Len(stack) # 1
    <3>1. Issue("READ_FAILED") /\ counts' = [counts EXCEPT !.failed = @ + 1]
      BY <1>3, <2>3 DEF ReaddirFails
    <3>2. counts'.visited = counts.visited /\ counts'.searched = counts.searched
      BY <3>1, FailedType DEF TypeOK
    <3> QED BY <1>c, <2>1, <3>1, <3>2, IssueAnswers DEF AnswerOK
  <2> QED BY <2>2, <2>3
<1>4. CASE Ended
  <2>1. matches' = matches /\ request' = request /\ err \in Codes
    BY <1>4 DEF Ended, PhaseOK
  <2>2. CASE UNCHANGED <<counts, reasons, coverage>>
    BY <2>1, <2>2 DEF AnswerOK
  <2>3. CASE /\ Issue(err)
             /\ counts' = [counts EXCEPT !.failed =
                  @ + (IF err \in {"READ_FAILED", "SOURCE_MUTATED"} THEN 1 ELSE 0)]
    <3>1. counts'.visited = counts.visited /\ counts'.searched = counts.searched
      BY <2>3, FailedType DEF TypeOK
    <3> QED BY <2>1, <2>3, <3>1, IssueAnswers DEF AnswerOK
  <2> QED BY <1>4, <2>2, <2>3 DEF Ended
<1>5. ASSUME NEW d \in Dirs, Verify(d) PROVE AnswerOK'
  <2>1. UNCHANGED <<matches, request, counts>>
    BY <1>5 DEF Verify
  <2>2. CASE NoIssue
    BY <2>1, <2>2 DEF NoIssue, AnswerOK
  <2>3. ASSUME NEW code \in Codes, Issue(code) PROVE AnswerOK'
    BY <2>1, <2>3, IssueAnswers DEF AnswerOK
  <2> QED BY <1>5, <1>c, <2>2, <2>3 DEF Verify
<1>6. CASE Leave \/ Respond \/ Expire \/ Others \/ UNCHANGED vars
  BY <1>6 DEF Leave, Respond, Expire, Others, EditRules, EditFile, Remove, Change, vars,
              result, AnswerOK
<1> QED BY <1>1, <1>2, <1>3, <1>4, <1>5, <1>6 DEF Next, Step, Returned

\* A step from which the search has succeeded is its answer, or comes after it.
LEMMA SuccessIsLast ==
    ASSUME TypeOK, PhaseOK, [Next]_vars, Succeeded'
    PROVE  \/ Respond /\ Response /\ outcome' = [status |-> "ok", code |-> None]
           \/ Succeeded /\ UNCHANGED vars
<1>1. CASE Respond
  <2>1. PICK status \in {"ok", "error"}, code \in Codes \cup {None} : Answer(status, code)
    <3>1. reasons # <<>> => Head(reasons) \in Codes
      BY HeadTailProperties DEF TypeOK
    <3> QED BY <1>1, <3>1 DEF Respond, Response, Codes
  <2>2. outcome'.status = status
    BY <2>1 DEF Answer
  <2> QED BY <1>1, <2>1, <2>2 DEF Respond, Response, Answer, Succeeded
<1>2. CASE Ended
  <2>1. outcome' = outcome \/ outcome'.status = "error"
    BY <1>2 DEF Ended, Answer
  <2>2. outcome = None
    BY <1>2 DEF Ended, PhaseOK
  <2> QED BY <2>1, <2>2 DEF Succeeded
<1>3. CASE \/ EnterRoot \/ Leave \/ ReaddirFails \/ Expire \/ Others
           \/ \E e \in Entries : Visit(e)
           \/ \E d \in Dirs : Verify(d)
  <2>1. outcome' = outcome /\ pc # "done"
    BY <1>3 DEF EnterRoot, Leave, ReaddirFails, Expire, Others, EditRules, EditFile,
                Remove, Change, Visit, Verify
  <2> QED BY <2>1 DEF PhaseOK, Succeeded
<1>4. CASE UNCHANGED vars
  BY <1>4 DEF vars, Succeeded
<1> QED BY <1>1, <1>2, <1>3, <1>4 DEF Next, Step, Returned
\* A read finds its file once, in scope, whatever else the walk meets.
LEMMA ReadNext ==
    ASSUME TypeOK, PhaseOK, WalkOK, ReadOK, [Next]_vars
    PROVE  ReadOK'
<1>s. Reading /\ Succeeded' => matches' # <<>> /\ reasons' = <<>>
  <2> SUFFICES ASSUME Reading, Succeeded' PROVE matches' # <<>> /\ reasons' = <<>>
    OBVIOUS
  <2>1. CASE Respond /\ Response /\ outcome' = [status |-> "ok", code |-> None]
    <3>1. ~Answer("error", Head(reasons)) /\ ~Answer("error", "OUT_OF_SCOPE")
      BY <2>1 DEF Answer
    <3> QED BY <2>1, <3>1 DEF Response, Respond, result
  <2>2. CASE Succeeded /\ UNCHANGED vars
    BY <2>2 DEF ReadOK, vars, result
  <2> QED BY <2>1, <2>2, SuccessIsLast
\* A step that finds nothing.
<1>q. ASSUME matches' = matches, request' = request PROVE ReadOK'
  <2>1. Reading' <=> Reading
    BY <1>q DEF Reading
  <2>2. Reading => \A a \in Ancestors(request.read) : a \in Dirs
    BY ParentIsDir DEF Reading
  <2>3. Reading /\ matches # <<>> =>
          \A a \in Ancestors(request.read) :
            captured'[a] # None /\ request.read \notin captured'[a]
    BY <2>2, CapturedStays DEF ReadOK
  <2> QED BY <1>s, <1>q, <2>1, <2>3 DEF ReadOK
<1>1. ASSUME NEW e \in Entries, Visit(e) PROVE ReadOK'
  <2>1. AtEntry(e) /\ request' = request
    BY <1>1, VisitKinds DEF AtEntry
  <2>2. CASE Stops(e) \/ Passes(e) \/ Misses(e) \/ Enters(e)
    BY <1>q, <2>1, <2>2 DEF Stops, Passes, Skip, Misses, Enters
  <2>3. CASE Reads(e)
    <3>1. /\ matches = <<>> /\ Reading /\ request.read = e
          /\ \A a \in Ancestors(e) : captured[a] # None /\ e \notin captured[a]
      BY <2>1, <2>3, ReadIsFirst
    <3>2. /\ matches' = <<>> \/ matches' = <<e>>
          /\ captured' = captured
      BY <2>3, <3>1, OneMatch DEF Reads, ReadOut
    <3> QED BY <1>s, <2>1, <3>1, <3>2 DEF ReadOK, Reading
  <2>4. CASE Searches(e)
    BY <2>1, <2>4 DEF Searches, ReadOK, Reading
  <2> QED BY <1>1, <2>2, <2>3, <2>4, VisitKinds
<1>2. CASE \/ EnterRoot \/ ReaddirFails \/ Leave \/ Ended \/ Respond \/ Expire \/ Others
           \/ UNCHANGED vars \/ \E d \in Dirs : Verify(d)
  <2>1. matches' = matches /\ request' = request
    BY <1>2 DEF EnterRoot, ReaddirFails, Leave, Ended, Respond, Expire, Others, EditRules,
                EditFile, Remove, Change, Verify, vars, result
  <2> QED BY <1>q, <2>1
<1> QED BY <1>1, <1>2 DEF Next, Step, Returned

\* At first nothing was counted, found or given as a reason.
LEMMA AnswerInit == Init => AnswerOK /\ ReadOK
<1> SUFFICES ASSUME Init PROVE AnswerOK /\ ReadOK
  OBVIOUS
<1>1. request.maxMatches \in Nat \ {0} /\ request.maxEntries \in Nat \ {0}
  BY TypeInit, RequestNumbers
<1>2. Len(<<>>) = 0 /\ DOMAIN <<>> = {}
  BY EmptySeq
<1> QED BY <1>1, <1>2 DEF Init, AnswerOK, ReadOK, Succeeded

\* An answer the worker gives passes the checks of the client.
LEMMA AnswerIsAccepted == AnswerOK => AcceptedByClient
BY DEF AnswerOK, AcceptedByClient

\* A read that succeeds has its one file, whole.
LEMMA ReadIsWhole == TypeOK /\ AnswerOK /\ ReadOK => ReadIsAllOrNothing
BY DEF AnswerOK, ReadOK, ReadIsAllOrNothing

\* No search ends as WORKER_PROTOCOL: every success passes the invariants with which
\* the client checks a response.
THEOREM AnswersAreAccepted == Spec => []AcceptedByClient
<1>1. Init => TypeOK /\ PhaseOK /\ WalkOK /\ AnswerOK /\ ReadOK
  BY TypeInit, WalkInit, AnswerInit
<1>2. TypeOK /\ PhaseOK /\ WalkOK /\ AnswerOK /\ ReadOK /\ [Next]_vars
        => TypeOK' /\ PhaseOK' /\ WalkOK' /\ AnswerOK' /\ ReadOK'
  BY TypeNext, WalkNext, AnswerNext, ReadNext
<1> QED BY <1>1, <1>2, AnswerIsAccepted, PTL DEF Spec

\* A read succeeds with the one file it names, in scope, or not at all.
THEOREM ReadsAreWhole == Spec => []ReadIsAllOrNothing
<1>1. Init => TypeOK /\ PhaseOK /\ WalkOK /\ AnswerOK /\ ReadOK
  BY TypeInit, WalkInit, AnswerInit
<1>2. TypeOK /\ PhaseOK /\ WalkOK /\ AnswerOK /\ ReadOK /\ [Next]_vars
        => TypeOK' /\ PhaseOK' /\ WalkOK' /\ AnswerOK' /\ ReadOK'
  BY TypeNext, WalkNext, AnswerNext, ReadNext
<1> QED BY <1>1, <1>2, ReadIsWhole, PTL DEF Spec

-----------------------------------------------------------------------------
(* The limit and the policy.                                               *)

\* There is a match the result had no room for.
MoreThanRoom ==
    /\ Len(matches) = request.maxMatches
    /\ \E f \in Texts : content[f] # None /\ content[f] > Found(f)

\* The error LIMIT_REACHED, and the reason it becomes, come from such a match.
LimitOK ==
    /\ Given("LIMIT_REACHED") => pc # "walk"
    /\ err = "LIMIT_REACHED" \/ Given("LIMIT_REACHED") => MoreThanRoom

\* Only the matcher ends a walk with LIMIT_REACHED.
LEMMA LimitNext ==
    ASSUME TypeOK, PhaseOK, WalkOK, LimitOK, [Next]_vars
    PROVE  LimitOK'
\* A step of the walk, or after it, that ends nothing with LIMIT_REACHED.
<1>q. ASSUME err' = err \/ err' # "LIMIT_REACHED",
             Given("LIMIT_REACHED")' => Given("LIMIT_REACHED"),
             pc' = "walk" => pc = "walk",
             pc # "walk" => UNCHANGED <<matches, content, request>>
      PROVE  LimitOK'
  <2>1. CASE pc = "walk"
    <3>1. ~Given("LIMIT_REACHED")' /\ err' # "LIMIT_REACHED"
      BY <1>q, <2>1, NoneAssumption DEF LimitOK, PhaseOK, Codes
    <3> QED BY <3>1 DEF LimitOK
  <2>2. CASE pc # "walk"
    <3>1. MoreThanRoom => MoreThanRoom'
      BY <1>q, <2>2 DEF MoreThanRoom, Found
    <3> QED BY <1>q, <2>2, <3>1 DEF LimitOK
  <2> QED BY <2>1, <2>2
\* Another reason is not this one.
<1>i. ASSUME NEW code \in Codes \ {"LIMIT_REACHED"}, NoIssue \/ Issue(code)
      PROVE  Given("LIMIT_REACHED")' => Given("LIMIT_REACHED")
  <2>1. CASE NoIssue
    BY <2>1 DEF NoIssue, Given
  <2>2. CASE Issue(code)
    BY <2>2, IssueFacts DEF TypeOK
  <2> QED BY <1>i, <2>1, <2>2
<1>c. {"READ_FAILED", "SOURCE_MUTATED", "DEPTH_LIMIT", "DEADLINE", "POLICY_CHANGED"}
        \subseteq Codes \ {"LIMIT_REACHED"}
  BY DEF Codes
<1>1. ASSUME NEW e \in Entries, Visit(e) PROVE LimitOK'
  <2>1. AtEntry(e) /\ request' = request /\ pc = "walk"
    BY <1>1, VisitKinds DEF AtEntry
  <2>2. CASE Stops(e)
    BY <1>c, <1>i, <1>q, <2>1, <2>2 DEF Stops, Raise, EnterErrors
  <2>3. CASE Passes(e)
    BY <1>c, <1>i, <1>q, <2>1, <2>3 DEF Passes, Skip, GoOn
  <2>4. CASE Misses(e)
    BY <1>c, <1>i, <1>q, <2>1, <2>4 DEF Misses, GoOn
  <2>5. CASE Enters(e)
    BY <1>c, <1>i, <1>q, <2>1, <2>5 DEF Enters, Open, GoOn
  <2>6. CASE Reads(e)
    BY <1>c, <1>i, <1>q, <2>1, <2>6 DEF Reads, ReadOut, Raise, GoOn
  <2>7. CASE Searches(e)
    <3>1. e \in Texts /\ Match(e, Taken(e))
      BY <2>7 DEF Searches, Texts
    <3>2. PICK k \in 0 .. hits[e] :
            /\ k <= Room /\ matches' = matches \o [j \in 1 .. k |-> e]
            /\ \/ GoOn(Taken(e))
               \/ \E code \in StopCodes(k, hits[e]) : Raise(code)
      BY <3>1 DEF Match
    <3>3. NoIssue /\ content' = [content EXCEPT ![e] = hits[e]]
      BY <3>1 DEF Match
    <3>4. CASE GoOn(Taken(e))
      BY <1>c, <1>i, <1>q, <2>1, <3>3, <3>4 DEF GoOn
    <3>5. ASSUME NEW code \in StopCodes(k, hits[e]), Raise(code), code # "LIMIT_REACHED"
          PROVE  LimitOK'
      BY <1>c, <1>i, <1>q, <2>1, <3>3, <3>5 DEF Raise
    <3>6. ASSUME "LIMIT_REACHED" \in StopCodes(k, hits[e]), Raise("LIMIT_REACHED")
          PROVE  LimitOK'
      <4>1. Room = k /\ k # hits[e]
        BY <3>6 DEF StopCodes
      <4>2. k \in Nat /\ hits[e] \in Nat /\ hits[e] > k
        <5>1. hits[e] \in Nat
          BY <3>1, TreeAssumption DEF TypeOK
        <5> QED BY <4>1, <5>1
      <4>3. Len(matches') = Len(matches) + k
        BY <3>1, <3>2, <4>2, MatchesAppended DEF TypeOK
      <4>4. Len(matches') = request'.maxMatches
        <5>1. request.maxMatches \in Nat /\ Len(matches) \in Nat
          BY RequestNumbers
        <5> QED BY <2>1, <4>1, <4>3, <5>1 DEF Room
      <4>5. \A i \in DOMAIN matches : matches[i] # e
        BY <2>1, <3>1, TakenIsGone DEF AtEntry, Fresh
      <4>6. Found(e)' = k
        BY <3>1, <3>2, <4>2, <4>5, FoundAppended DEF TypeOK
      <4>7. content'[e] = hits[e] /\ hits[e] # None
        BY <3>1, <3>3, <4>2, NoneAssumption DEF TypeOK
      <4>8. MoreThanRoom'
        BY <3>1, <4>2, <4>4, <4>6, <4>7 DEF MoreThanRoom
      <4>9. pc' # "walk"
        BY <3>6 DEF Raise
      <4> QED BY <4>8, <4>9 DEF LimitOK
    <3> QED BY <3>2, <3>4, <3>5, <3>6
  <2> QED BY <1>1, <2>2, <2>3, <2>4, <2>5, <2>6, <2>7, VisitKinds
<1>2. CASE EnterRoot
  <2>1. NoIssue /\ pc = "walk"
    BY <1>2 DEF EnterRoot, result, NoIssue
  <2>2. err' = err \/ err' # "LIMIT_REACHED"
    BY <1>2 DEF EnterRoot, Open, GoOn, Raise, EnterErrors
  <2> QED BY <1>c, <1>i, <1>q, <2>1, <2>2
<1>3. CASE ReaddirFails
  BY <1>3, <1>c, <1>i, <1>q DEF ReaddirFails, Raise, GoOn
<1>4. CASE Leave
  <2>1. NoIssue /\ err' = err /\ pc = "walk"
    BY <1>4 DEF Leave, result, NoIssue
  <2> QED BY <1>c, <1>i, <1>q, <2>1
<1>5. CASE Ended
  <2>1. UNCHANGED <<err, matches, content, request>> /\ pc' # "walk" /\ err \in Codes
    BY <1>5 DEF Ended, Answer, PhaseOK
  <2>2. Given("LIMIT_REACHED")' => Given("LIMIT_REACHED") \/ err = "LIMIT_REACHED"
    <3>1. CASE UNCHANGED reasons
      BY <3>1 DEF Given
    <3>2. CASE Issue(err)
      BY <2>1, <3>2, IssueFacts DEF TypeOK
    <3> QED BY <1>5, <3>1, <3>2 DEF Ended
  <2>3. MoreThanRoom => MoreThanRoom'
    BY <2>1 DEF MoreThanRoom, Found
  <2> QED BY <2>1, <2>2, <2>3 DEF LimitOK
<1>6. ASSUME NEW d \in Dirs, Verify(d) PROVE LimitOK'
  BY <1>6, <1>c, <1>i, <1>q DEF Verify
<1>7. CASE Respond \/ Expire \/ Others \/ UNCHANGED vars
  <2>1. /\ UNCHANGED <<err, matches, content, request, reasons>>
        /\ pc' = "walk" => pc = "walk"
    BY <1>7 DEF Respond, Response, Answer, Expire, Others, EditRules, EditFile, Remove,
                Change, vars, result
  <2> QED BY <1>q, <2>1 DEF Given
<1> QED BY <1>1, <1>2, <1>3, <1>4, <1>5, <1>6, <1>7 DEF Next, Step, Returned

\* At first no limit is known to be reached.
LEMMA LimitInit == Init => LimitOK
BY NoneAssumption, EmptySeq DEF Init, LimitOK, Given, Codes

\* LIMIT_REACHED is given only when there was a match beyond the ones returned.
THEOREM LimitsAreProven == Spec => []LimitIsProven
<1>1. Init => TypeOK /\ PhaseOK /\ WalkOK /\ LimitOK
  BY TypeInit, WalkInit, LimitInit
<1>2. TypeOK /\ PhaseOK /\ WalkOK /\ LimitOK /\ [Next]_vars
        => TypeOK' /\ PhaseOK' /\ WalkOK' /\ LimitOK'
  BY TypeNext, WalkNext, LimitNext
<1>3. LimitOK => LimitIsProven
  BY DEF LimitOK, MoreThanRoom, LimitIsProven
<1> QED BY <1>1, <1>2, <1>3, PTL DEF Spec

\* During verification, each captured ignore file is still to be compared, or was
\* found unchanged, or was changed since.
PolicyOK ==
    pc \in {"verify", "done"} /\ (pc = "done" => Succeeded)
      /\ request.respectIgnore /\ coverage = "complete" =>
        \A d \in Dirs : captured[d] # None =>
            (pc = "verify" /\ d \in unverified) \/ rules[d] = captured[d] \/ d \in recent

\* Verification compares every ignore file, or makes the result partial.
LEMMA PolicyNext ==
    ASSUME TypeOK, PhaseOK, PolicyOK, [Next]_vars
    PROVE  PolicyOK'
<1>1. CASE pc' \in {"walk", "ended"}
  BY <1>1 DEF PolicyOK
<1>2. CASE Leave
  <2>1. CASE Len(stack) = 1
    <3>1. UNCHANGED <<request, captured>> /\ unverified' = Observations /\ pc' = "verify"
      BY <1>2, <2>1 DEF Leave
    <3> QED BY <3>1 DEF PolicyOK, Observations
  <2>2. CASE Len(stack) # 1
    BY <1>1, <1>2, <2>2 DEF Leave
  <2> QED BY <2>1, <2>2
<1>3. CASE Ended
  <2>1. CASE Answer("error", err)
    BY <2>1 DEF Answer, PolicyOK, Succeeded
  <2>2. CASE Issue(err)
    BY <2>2 DEF Issue, PolicyOK
  <2> QED BY <1>3, <2>1, <2>2 DEF Ended
<1>4. ASSUME NEW d \in Dirs, Verify(d) PROVE PolicyOK'
  <2>1. UNCHANGED <<rules, request, captured, recent, pc>> /\ pc = "verify"
    BY <1>4 DEF Verify, disk, walking
  <2>2. CASE SameRules(d) /\ NoIssue /\ unverified' = unverified \ {d}
    BY <2>1, <2>2 DEF SameRules, NoIssue, PolicyOK
  <2>3. CASE \E code \in Codes : Issue(code)
    BY <2>3 DEF Issue, PolicyOK
  <2> QED BY <1>4, <2>2, <2>3 DEF Verify, Codes
<1>5. CASE Respond
  <2>1. UNCHANGED <<rules, request, captured, recent, coverage>>
    BY <1>5 DEF Respond, disk, walking, result, ending
  <2>2. pc = "verify" /\ unverified = {}
    BY <1>5 DEF Respond
  <2> QED BY <2>1, <2>2 DEF PolicyOK
<1>6. CASE Expire \/ UNCHANGED vars
  BY <1>6 DEF Expire, vars, disk, walking, result, ending, PolicyOK, Succeeded
<1>7. CASE Others
  <2>1. /\ UNCHANGED <<request, captured, coverage, unverified, pc>> /\ pc # "done"
        /\ pc = "verify" => \A d \in Dirs : rules'[d] = rules[d] \/ d \in recent'
        /\ recent \subseteq recent'
    <3> DEFINE Marked ==
          /\ UNCHANGED <<request, captured, coverage, unverified, pc>> /\ pc # "done"
          /\ pc = "verify" => \A d \in Dirs : rules'[d] = rules[d] \/ d \in recent'
          /\ recent \subseteq recent'
    <3>1. ASSUME NEW d \in Dirs, NEW R \in Rulesets, EditRules(d, R) PROVE Marked
      BY <3>1 DEF EditRules, Change, walking, result, TypeOK
    <3>2. ASSUME NEW f \in Texts, NEW n \in Contents, EditFile(f, n) PROVE Marked
      BY <3>2 DEF EditFile, Change, walking, result
    <3>3. ASSUME NEW e \in Entries, Remove(e) PROVE Marked
      BY <3>3 DEF Remove, Change, walking, result, TypeOK
    <3> QED BY <1>7, <3>1, <3>2, <3>3 DEF Others
  <2> QED BY <2>1 DEF PolicyOK
<1>8. CASE EnterRoot \/ ReaddirFails \/ \E e \in Entries : Visit(e)
  <2>1. pc = "walk" /\ pc' \in {"walk", "ended"}
    <3>1. CASE EnterRoot \/ ReaddirFails
      BY <3>1 DEF EnterRoot, ReaddirFails, Open, GoOn, Raise
    <3>2. ASSUME NEW e \in Entries, Visit(e)
          PROVE  pc = "walk" /\ pc' \in {"walk", "ended"}
      BY <3>2, VisitKinds
      DEF AtEntry, Stops, Passes, Skip, Misses, Enters, Open, Reads, ReadOut, Searches,
          Match, GoOn, Raise
    <3> QED BY <1>8, <3>1, <3>2
  <2> QED BY <1>1, <2>1
<1> QED BY <1>2, <1>3, <1>4, <1>5, <1>6, <1>7, <1>8 DEF Next, Step, Returned

\* A request that walks nothing verifies nothing.
LEMMA PolicyInit == Init => PolicyOK
BY DEF Init, PolicyOK

\* A complete result stands under the ignore rules in force when it was verified.
THEOREM PoliciesAreCurrent == Spec => []PolicyIsCurrent
<1>1. Init => TypeOK /\ PhaseOK /\ PolicyOK
  BY TypeInit, PolicyInit
<1>2. TypeOK /\ PhaseOK /\ PolicyOK /\ [Next]_vars => TypeOK' /\ PhaseOK' /\ PolicyOK'
  BY TypeNext, PolicyNext
<1>3. TypeOK /\ PhaseOK /\ PolicyOK => PolicyIsCurrent
  BY DEF PhaseOK, PolicyOK, PolicyIsCurrent, Succeeded
<1> QED BY <1>1, <1>2, <1>3, PTL DEF Spec

-----------------------------------------------------------------------------
(* Complete coverage is complete.                                          *)

\* An entry that gave all there was to give, and one that is still to come.
Complete(e) ==
    IF Type[e] = "dir" THEN captured[e] # None
    ELSE content[e] # None /\ Found(e) = content[e]
ToCome(e) == \E i \in DOMAIN stack : e \in stack[i].todo

\* As long as no error and no issue is known, an eligible entry gave all it had
\* or is still to come.
NothingMissed ==
    Searching /\ coverage = "complete" /\ (pc \in {"walk", "verify"} \/ Succeeded) =>
        \A e \in listed : Eligible(e) => Complete(e) \/ ToCome(e)

\* An ignored entry stays ignored.
LEMMA EligibleShrinks ==
    ASSUME TypeOK, WalkOK, [Next]_vars, NEW e \in Entries, Eligible(e)'
    PROVE  Eligible(e)
<1>1. \A a \in Ancestors(e) : captured[a] # None => captured'[a] = captured[a]
  BY CapturedStays, ParentIsDir
<1> QED BY <1>1 DEF Eligible, Ignored

\* An entry that gave all it had keeps it while its own data stays.
LEMMA CompleteStays ==
    ASSUME TypeOK, WalkOK, [Next]_vars, NEW e \in Entries, Eligible(e), Complete(e),
           e \in Texts => content'[e] = content[e] /\ Found(e)' = Found(e)
    PROVE  Complete(e)'
<1>1. CASE Type[e] = "dir"
  <2>1. e \in Dirs
    BY <1>1 DEF Dirs
  <2> QED BY <1>1, <2>1, CapturedStays DEF Complete
<1>2. CASE Type[e] # "dir"
  <2>1. e \in Texts
    BY <1>2 DEF Eligible, Texts
  <2> QED BY <1>2, <2>1 DEF Complete
<1> QED BY <1>1, <1>2

\* All but the entry that is taken are still to come.
LEMMA TakenToCome ==
    ASSUME TypeOK, stack # <<>>, NEW e, NEW x, x # e, ToCome(x)
    PROVE  \E i \in DOMAIN Taken(e) : x \in Taken(e)[i].todo
<1>1. PICK i \in DOMAIN stack : x \in stack[i].todo
  BY DEF ToCome
<1>2. stack \in Seq(Frame)
  BY DEF TypeOK, Frame
<1>3. /\ DOMAIN Taken(e) = DOMAIN stack
      /\ Taken(e)[i].todo = IF i = Len(stack) THEN stack[i].todo \ {e} ELSE stack[i].todo
  BY <1>1, <1>2, TakenFrames
<1> QED BY <1>1, <1>3

\* What a directory that is opened lists, is to come, with what was already.
LEMMA OpenToCome ==
    ASSUME TypeOK, NEW d \in Dirs, NEW s \in Seq(Frame), Open(d, s)
    PROVE  /\ \A e \in listed' : e \in listed \/ ToCome(e)'
           /\ \A e : (\E i \in DOMAIN s : e \in s[i].todo) => ToCome(e)'
<1> DEFINE new == {e \in present : Parent(e) = d}
           top == [dir |-> d, todo |-> new]
<1>1. stack' = Append(s, top) /\ listed' = listed \cup new
  BY DEF Open, GoOn
<1>2. top \in Frame /\ top.todo = new
  BY DEF Frame, TypeOK
<1> HIDE DEF top
<1>3. /\ DOMAIN s = 1 .. Len(s) /\ Len(s) \in Nat
      /\ DOMAIN stack' = 1 .. Len(s) + 1
      /\ \A i \in 1 .. Len(s) : stack'[i] = s[i]
      /\ stack'[Len(s) + 1] = top
  <2>1. stack' \in Seq(Frame) /\ Len(stack') = Len(s) + 1
    BY <1>1, <1>2, AppendProperties
  <2> QED BY <1>1, <1>2, <2>1, AppendProperties, LenProperties
<1>4. Len(s) + 1 \in DOMAIN stack' /\ \A i \in DOMAIN s : i \in DOMAIN stack'
  BY <1>3
<1>5. \A e \in new : ToCome(e)'
  BY <1>2, <1>3, <1>4 DEF ToCome
<1>6. \A e : (\E i \in DOMAIN s : e \in s[i].todo) => ToCome(e)'
  BY <1>3, <1>4 DEF ToCome
<1> QED BY <1>1, <1>5, <1>6

\* The matches a file gives are what it held, unless the walk ends there.
LEMMA MatchIsWhole ==
    ASSUME TypeOK, NEW f \in Texts, NEW s, Match(f, s), pc' = "walk",
           \A k \in DOMAIN matches : matches[k] # f
    PROVE  /\ content'[f] # None /\ Found(f)' = content'[f] /\ stack' = s
           /\ \A e \in Texts \ {f} : content'[e] = content[e] /\ Found(e)' = Found(e)
<1>1. PICK k \in 0 .. hits[f] :
        /\ matches' = matches \o [j \in 1 .. k |-> f]
        /\ \/ k = hits[f] /\ GoOn(s)
           \/ \E code \in StopCodes(k, hits[f]) : Raise(code)
  BY DEF Match
<1>2. k = hits[f] /\ stack' = s
  BY <1>1 DEF Raise, GoOn
<1>3. hits[f] \in Nat /\ matches \in Seq(Texts)
  BY TreeAssumption DEF TypeOK
<1>4. Found(f)' = hits[f] /\ \A e \in Texts \ {f} : Found(e)' = Found(e)
  BY <1>1, <1>2, <1>3, FoundAppended
<1>5. content' = [content EXCEPT ![f] = hits[f]] /\ hits[f] # None
  BY <1>3, NoneAssumption DEF Match
<1> QED BY <1>2, <1>4, <1>5 DEF TypeOK

\* No eligible entry is lost: it is passed over only with an error or an issue.
LEMMA NothingMissedNext ==
    ASSUME TypeOK, TypeOK', PhaseOK, WalkOK, NothingMissed, [Next]_vars
    PROVE  NothingMissed'
<1> SUFFICES ASSUME Searching', coverage' = "complete",
                    pc' \in {"walk", "verify"} \/ Succeeded',
                    NEW x \in listed', Eligible(x)'
             PROVE  Complete(x)' \/ ToCome(x)'
  BY DEF NothingMissed
<1>x. x \in Entries /\ Eligible(x)
  BY EligibleShrinks DEF TypeOK
<1>i. \A code : ~Issue(code)
  BY DEF Issue
\* Before the step nothing was missed, if it was a search of that kind.
<1>b. ASSUME request' = request, NoIssue, pc \in {"walk", "verify"} \/ Succeeded,
             x \in listed
      PROVE  Complete(x) \/ ToCome(x)
  BY <1>b, <1>x DEF NothingMissed, NoIssue, Searching
\* A step that takes nothing from the stack and finds nothing.
<1>q. ASSUME UNCHANGED <<request, content, matches, listed>>, NoIssue,
             pc \in {"walk", "verify"} \/ Succeeded, ToCome(x) => ToCome(x)'
      PROVE  Complete(x)' \/ ToCome(x)'
  <2>1. Complete(x) \/ ToCome(x)
    BY <1>b, <1>q
  <2>2. Found(x)' = Found(x)
    BY <1>q DEF Found
  <2> QED BY <1>x, <1>q, <2>1, <2>2, CompleteStays
<1>1. CASE EnterRoot
  <2>1. /\ pc = "walk" /\ stack = <<>> /\ NoIssue
        /\ UNCHANGED <<request, content, matches>>
        /\ (pc' = "ended" /\ outcome' = outcome) \/ Open(Root, stack)
    BY <1>1 DEF EnterRoot, result, NoIssue, Raise
  <2>2. ~(pc' = "ended" /\ outcome' = outcome)
    BY <2>1 DEF PhaseOK, Succeeded
  <2>3. Open(Root, stack) /\ Root \in Dirs /\ stack \in Seq(Frame) /\ ~ToCome(x)
    BY <2>1, <2>2, EmptySeq DEF Dirs, ToCome
  <2>4. x \in listed \/ ToCome(x)'
    BY <2>3, OpenToCome
  <2>5. Found(x)' = Found(x)
    BY <2>1 DEF Found
  <2> QED BY <1>b, <1>x, <2>1, <2>3, <2>4, <2>5, CompleteStays
<1>2. ASSUME NEW e \in Entries, Visit(e) PROVE Complete(x)' \/ ToCome(x)'
  <2>1. /\ AtEntry(e) /\ pc = "walk" /\ stack # <<>>
        /\ request' = request /\ outcome' = outcome
    BY <1>2, VisitKinds DEF AtEntry
  <2>2. pc' # "ended"
    BY <2>1 DEF PhaseOK, Succeeded
  <2>3. Fresh(e)
    BY <2>1, TakenIsGone DEF AtEntry
  <2>4. CASE Stops(e)
    BY <2>2, <2>4 DEF Stops, Raise
  <2>5. CASE Passes(e)
    <3>1. /\ stack' = Taken(e) /\ UNCHANGED <<content, matches, listed>> /\ NoIssue
      BY <2>5 DEF Passes, Skip, GoOn
    <3>2. Reading => ~Searching
      BY RequestNumbers
    <3>3. x # e
      BY <1>x, <2>1, <2>5, <3>2 DEF Passes, Searching
    <3>4. ToCome(x) => ToCome(x)'
      BY <2>1, <3>1, <3>3, TakenToCome DEF ToCome
    <3> QED BY <1>q, <2>1, <3>1, <3>4
  <2>6. CASE Misses(e)
    BY <1>i, <2>6 DEF Misses
  <2>7. CASE Enters(e)
    <3>1. /\ e \in Dirs /\ Type[e] = "dir" /\ Open(e, Taken(e)) /\ NoIssue
          /\ UNCHANGED <<content, matches>>
      BY <2>7 DEF Enters, Dirs
    <3>2. Taken(e) \in Seq(Frame)
      BY <2>1, TakenFrames DEF TypeOK, Frame
    <3>3. Complete(e)'
      BY <3>1, OpenCaptures DEF Complete
    <3>4. x \in listed \/ ToCome(x)'
      BY <3>1, <3>2, OpenToCome
    <3>5. x # e /\ ToCome(x) => ToCome(x)'
      BY <2>1, <3>1, <3>2, TakenToCome, OpenToCome
    <3>6. Found(x)' = Found(x)
      BY <3>1 DEF Found
    <3>7. x \in listed => Complete(x) \/ ToCome(x)
      BY <1>b, <2>1, <3>1
    <3>8. Complete(x) => Complete(x)'
      BY <1>x, <3>1, <3>6, CompleteStays
    <3> QED BY <3>3, <3>4, <3>5, <3>7, <3>8
  <2>8. CASE Reads(e)
    <3>1. ~Searching /\ Searching
      BY <2>1, <2>8, RequestNumbers DEF Reads, Searching
    <3> QED BY <3>1
  <2>9. CASE Searches(e)
    <3>1. e \in Texts /\ Type[e] = "text" /\ Match(e, Taken(e))
      BY <2>9 DEF Searches, Texts
    <3>2. pc' = "walk"
      BY <2>1, <2>2, <3>1 DEF Match, GoOn, Raise
    <3>3. /\ content'[e] # None /\ Found(e)' = content'[e] /\ stack' = Taken(e)
          /\ \A g \in Texts \ {e} : content'[g] = content[g] /\ Found(g)' = Found(g)
      BY <2>3, <3>1, <3>2, MatchIsWhole DEF Fresh
    <3>4. Complete(e)'
      BY <3>1, <3>3 DEF Complete
    <3>5. NoIssue /\ listed' = listed
      BY <3>1 DEF Match
    <3>6. Complete(x) \/ ToCome(x)
      BY <1>b, <2>1, <3>5
    <3>7. x # e /\ ToCome(x) => ToCome(x)'
      BY <2>1, <3>3, TakenToCome DEF ToCome
    <3>8. x # e /\ Complete(x) => Complete(x)'
      BY <1>x, <3>3, CompleteStays
    <3> QED BY <3>4, <3>6, <3>7, <3>8
  <2> QED BY <1>2, <2>4, <2>5, <2>6, <2>7, <2>8, <2>9, VisitKinds
<1>3. CASE ReaddirFails
  <2>1. Raise("READ_FAILED") /\ outcome' = outcome /\ pc = "walk"
    BY <1>3, <1>i DEF ReaddirFails, ending
  <2> QED BY <2>1 DEF Raise, PhaseOK, Succeeded
<1>4. CASE Leave
  <2>1. /\ pc = "walk" /\ stack # <<>> /\ Top.todo = {} /\ stack' = Pop
        /\ UNCHANGED <<request, content, matches, listed>> /\ NoIssue
    BY <1>4 DEF Leave, result, NoIssue
  <2>2. ToCome(x) => ToCome(x)'
    <3>1. /\ DOMAIN stack = 1 .. Len(stack) /\ DOMAIN stack' = 1 .. Len(stack) - 1
          /\ Len(stack) \in Nat \ {0}
          /\ \A i \in DOMAIN stack' : stack'[i] = stack[i]
      BY <2>1, PopFrames DEF TypeOK, Frame
    <3>2. \A i \in DOMAIN stack : i \in DOMAIN stack' \/ i = Len(stack)
      BY <3>1
    <3>3. x \notin stack[Len(stack)].todo
      BY <2>1 DEF Top
    <3> QED BY <3>1, <3>2, <3>3 DEF ToCome
  <2> QED BY <1>q, <2>1, <2>2
<1>5. CASE Ended
  <2>1. Answer("error", err)
    BY <1>5, <1>i DEF Ended
  <2> QED BY <2>1 DEF Answer, Succeeded
<1>6. ASSUME NEW d \in Dirs, Verify(d) PROVE Complete(x)' \/ ToCome(x)'
  <2>1. /\ pc = "verify" /\ NoIssue
        /\ UNCHANGED <<request, content, matches, listed, stack>>
    BY <1>6, <1>i DEF Verify, walking
  <2> QED BY <1>q, <2>1 DEF ToCome
<1>7. CASE Respond
  <2>1. pc = "verify" /\ NoIssue /\ UNCHANGED <<request, content, matches, listed, stack>>
    BY <1>7 DEF Respond, walking, result, NoIssue
  <2> QED BY <1>q, <2>1 DEF ToCome
<1>8. CASE Expire \/ Others \/ UNCHANGED vars
  <2>1. /\ NoIssue /\ UNCHANGED <<request, content, matches, listed, stack, pc, outcome>>
    BY <1>8 DEF Expire, Others, EditRules, EditFile, Remove, Change, vars, walking,
                result, NoIssue
  <2>2. pc \in {"walk", "verify"} \/ Succeeded
    BY <2>1 DEF Succeeded
  <2> QED BY <1>q, <2>1, <2>2 DEF ToCome
<1> QED BY <1>1, <1>2, <1>3, <1>4, <1>5, <1>6, <1>7, <1>8 DEF Next, Step, Returned

\* At first nothing is listed.
LEMMA NothingMissedInit == Init => NothingMissed
BY DEF Init, NothingMissed

\* Complete coverage is complete: whatever others change meanwhile, each eligible entry
\* of what the directories listed was walked into, or gave all its matches.
THEOREM CompleteMeansComplete == Spec => []CompleteIsComplete
<1>1. Init => TypeOK /\ PhaseOK /\ WalkOK /\ NothingMissed
  BY TypeInit, WalkInit, NothingMissedInit
<1>2. TypeOK /\ PhaseOK /\ WalkOK /\ NothingMissed /\ [Next]_vars
        => TypeOK' /\ PhaseOK' /\ WalkOK' /\ NothingMissed'
  BY TypeNext, WalkNext, NothingMissedNext
<1>3. TypeOK /\ PhaseOK /\ NothingMissed => CompleteIsComplete
  <2> SUFFICES ASSUME TypeOK, PhaseOK, NothingMissed,
                      Succeeded, Searching, coverage = "complete",
                      NEW e \in listed, Eligible(e)
               PROVE  Complete(e)
    BY DEF CompleteIsComplete, Complete
  <2>1. pc = "done" /\ stack = <<>>
    BY DEF PhaseOK, Succeeded
  <2>2. ~ToCome(e)
    BY <2>1, EmptySeq DEF ToCome
  <2> QED BY <2>2 DEF NothingMissed
<1> QED BY <1>1, <1>2, <1>3, PTL DEF Spec
=============================================================================
