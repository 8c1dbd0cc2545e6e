-------------------------- MODULE ScopePolicyProofs --------------------------
(***************************************************************************)
(* Proofs about ScopePolicy, for every tree, every set of patterns and     *)
(* what they match, every ignore file and every bound on the lists.        *)
(***************************************************************************)
EXTENDS ScopePolicy, TLAPS, FiniteSetTheorems, SequenceTheorems, WellFoundedInduction

\* What an answer is made from.
FromPolicy ==
    /\ ignore \in IgnoreFiles
    /\ answer # None => policy # None
    /\ Answered =>
         /\ answer.narrow.include \in Lists
         /\ answer.files = Selected(NarrowPolicy(policy, answer.narrow))
         /\ answer.told = EffectiveScope(policy, NarrowPolicy(policy, answer.narrow))

\* One more group of includes and more excludes leave fewer files.
LEMMA Narrowing ==
    ASSUME NEW p, NEW narrow
    PROVE  Selected(NarrowPolicy(p, narrow))
             \subseteq Selected(NarrowPolicy(p, Unnarrowed))
<1> DEFINE s == NarrowPolicy(p, narrow)
           t == NarrowPolicy(p, Unnarrowed)
<1>1. /\ s.hidden = t.hidden /\ s.respectIgnore = t.respectIgnore
      /\ t.includeGroups[1] = s.includeGroups[1] /\ t.includeGroups[2] = {}
      /\ t.exclude \subseteq s.exclude
  BY DEF NarrowPolicy, Unnarrowed, Elements
<1>2. ASSUME NEW e, ~ExcludedPath(s, e), Allows(s, e)
      PROVE  ~ExcludedPath(t, e) /\ Allows(t, e)
  <2>1. ~ExcludedPath(t, e)
    BY <1>1, <1>2 DEF ExcludedPath
  <2>2. ~AnyMatches(t.exclude, e)
    BY <1>1, <1>2 DEF Allows, AnyMatches
  <2>3. e \in Files => \A g \in 1 .. 2 : \/ t.includeGroups[g] = {}
                                        \/ AnyMatches(t.includeGroups[g], e)
    BY <1>1, <1>2 DEF Allows
  <2> QED BY <1>1, <1>2, <2>1, <2>2, <2>3 DEF Allows
<1> QED BY <1>2 DEF Selected

\* The tree stays as it is, and with it what a scope selects.
LEMMA SelectedStays ==
    ASSUME UNCHANGED ignore, NEW s
    PROVE  Selected(s)' = Selected(s)
<1>1. ASSUME NEW e PROVE Verdict(e)' = Verdict(e)
  BY DEF Verdict, Nearest, Matched
<1>2. ASSUME NEW e PROVE Allows(s, e)' = Allows(s, e)
  BY <1>1 DEF Allows, AnyMatches
<1> QED BY <1>2 DEF Selected, ExcludedPath

\* Every answer is made from the registered policy and the narrowing it was asked with.
LEMMA AnswersFromPolicy == Spec => []FromPolicy
<1>1. Init => FromPolicy
  BY DEF Init, FromPolicy, Answered
<1>2. FromPolicy /\ [Next]_vars => FromPolicy'
  <2> SUFFICES ASSUME FromPolicy, [Next]_vars PROVE FromPolicy'
    OBVIOUS
  <2>1. CASE UNCHANGED vars
    <3>1. UNCHANGED <<ignore, policy, answer>>
      BY <2>1 DEF vars
    <3> QED BY <3>1, SelectedStays DEF FromPolicy, Answered
  <2>2. ASSUME NEW i \in Lists, NEW x \in Lists, NEW h \in BOOLEAN, NEW r \in BOOLEAN,
               Register(i, x, h, r)
        PROVE  FromPolicy'
    <3>1. answer' = None /\ ignore' = ignore
      BY <2>2 DEF Register, FromPolicy
    <3> QED BY <3>1 DEF FromPolicy, Answered
  <2>3. ASSUME NEW i \in Lists, NEW x \in Lists, NEW ask \in Asks,
               Search([include |-> i, exclude |-> x], ask)
        PROVE  FromPolicy'
    <3> DEFINE n == [include |-> i, exclude |-> x]
    <3>1. policy' # None /\ policy' = policy /\ ignore' = ignore
      BY <2>3 DEF Search
    <3>2. CASE \E by \in {"schema", "client", "child", "worker", "service", "contract"} :
                 Refuse(n, ask, by)
      BY <3>1, <3>2, TreeAssumption DEF Refuse, FromPolicy, Answered
    <3>3. CASE answer' = [narrow |-> n, ask |-> ask, refusedBy |-> None,
                          files |-> Selected(NarrowPolicy(policy, n)),
                          told |-> EffectiveScope(policy, NarrowPolicy(policy, n))]
      <4>1. /\ answer'.narrow = n /\ answer'.files = Selected(NarrowPolicy(policy, n))
            /\ answer'.told = EffectiveScope(policy, NarrowPolicy(policy, n))
            /\ answer'.narrow.include \in Lists
        BY <3>3
      <4>2. Selected(NarrowPolicy(policy, n))' = Selected(NarrowPolicy(policy, n))
        BY <3>1, SelectedStays DEF NarrowPolicy
      <4> QED BY <3>1, <4>1, <4>2 DEF FromPolicy, Answered, NarrowPolicy, EffectiveScope
    <3> QED BY <2>3, <3>2, <3>3 DEF Search
  <2> QED BY <2>1, <2>2, <2>3 DEF Next
<1> QED BY <1>1, <1>2, PTL DEF Spec

\* A search with any narrowing of the caller's sees no file that the policy alone hides,
\* whatever the patterns match.
THEOREM NeverWidens == Spec => []NarrowNeverWidens
<1>1. FromPolicy => NarrowNeverWidens
  BY Narrowing DEF FromPolicy, NarrowNeverWidens
<1> QED BY <1>1, AnswersFromPolicy, PTL

-----------------------------------------------------------------------------
(* The bounds of the layers.                                               *)

\* A list has no more elements than places.
LEMMA ElementsBound ==
    ASSUME NEW list \in Seq(Patterns)
    PROVE  IsFiniteSet(Elements(list)) /\ Cardinality(Elements(list)) <= Len(list)
<1> DEFINE f == [k \in 1 .. Len(list) |-> list[k]]
<1>1. IsFiniteSet(1 .. Len(list)) /\ Cardinality(1 .. Len(list)) = Len(list)
  <2>1. PICK n \in Nat : n = Len(list)
    BY LenProperties
  <2>2. IsFiniteSet(1 .. n) /\ Cardinality(1 .. n) = IF n < 1 THEN 0 ELSE n - 1 + 1
    BY FS_Interval
  <2> QED BY <2>1, <2>2
<1>2. f \in Surjection(1 .. Len(list), Elements(list))
  BY DEF Elements, Surjection
<1> QED BY <1>1, <1>2, FS_Surjection

\* What the schemas take fits every later layer, however it adds up.
LEMMA UnionFits ==
    ASSUME NEW S, NEW T, IsFiniteSet(S), IsFiniteSet(T),
           Cardinality(S) <= MaxPatterns, Cardinality(T) <= MaxPatterns
    PROVE  Cardinality(S \cup T) <= 2 * MaxPatterns
<1>1. /\ Cardinality(S \cup T) = Cardinality(S) + Cardinality(T) - Cardinality(S \cap T)
      /\ Cardinality(S \cap T) \in Nat
  BY FS_Union, FS_Intersection, FS_CardinalityType
<1>2. Cardinality(S) \in Nat /\ Cardinality(T) \in Nat /\ MaxPatterns \in Nat
  BY FS_CardinalityType, TreeAssumption
<1> QED BY <1>1, <1>2

\* What createPolicy() and register() let through.
Admissible(S) == /\ S \in SUBSET Patterns
                 /\ IsFiniteSet(S) /\ Cardinality(S) <= MaxPatterns
                 /\ S \cap Malformed = {}
PolicyAdmitted ==
    policy # None => /\ Admissible(policy.include) /\ Admissible(policy.exclude)
                     /\ policy.include \in Buildable /\ policy.exclude \in Buildable

\* A list that its schema takes is one of them.
LEMMA AcceptedIsAdmissible ==
    ASSUME NEW list \in Lists, Accepted(list)
    PROVE  Admissible(Elements(list))
<1>1. list \in Seq(Patterns) /\ Len(list) \in Nat
  BY TreeAssumption
<1>2. Cardinality(Elements(list)) \in Nat
  BY <1>1, ElementsBound, FS_CardinalityType
<1>3. Elements(list) \in SUBSET Patterns
  BY <1>1 DEF Elements
<1> QED BY <1>1, <1>2, <1>3, ElementsBound, TreeAssumption DEF Accepted, Admissible

\* There is room for plain lists, and without a narrowing for any.
LEMMA BytesFit ==
    ASSUME NEW I, NEW X, NEW J, NEW Y, NEW ask \in Asks,
           Admissible(I), Admissible(X), Admissible(J), Admissible(Y)
    PROVE  LET frame == ask.rest + ListBytes[I] + ListBytes[J] + ListBytes[X \cup Y]
               plain == I \cup X \cup J \cup Y \subseteq Plain
           IN /\ plain => frame <= FrameCap
              /\ J = {} /\ Y = {} => frame <= FrameCap
              /\ plain => ask.told + ListBytes[IF J = {} THEN I ELSE J] + ListBytes[I]
                            + ListBytes[J] + ListBytes[X \cup Y] <= MaxResponse
<1>1. /\ ListBytes[I] \in Nat /\ ListBytes[X] \in Nat /\ ListBytes[J] \in Nat
      /\ ListBytes[Y] \in Nat /\ ListBytes[X \cup Y] \in Nat /\ ListBytes[{}] \in Nat
      /\ ListBytes[X \cup Y] <= ListBytes[X] + ListBytes[Y]
  BY BytesAssumption DEF Admissible
<1>2. /\ ask.rest \in Nat /\ ask.told \in Nat /\ PlainList \in Nat /\ AnyList \in Nat
      /\ FrameCap \in Nat /\ MaxResponse \in Nat
      /\ 2 * AnyList + ListBytes[{}] + ask.rest <= FrameCap
      /\ 4 * PlainList + ask.rest <= FrameCap
      /\ 5 * PlainList + ask.told <= MaxResponse
  BY AsksAssumption
<1>3. ListBytes[I] <= AnyList /\ ListBytes[X] <= AnyList
  BY BytesAssumption DEF Admissible
<1>4. ASSUME I \cup X \cup J \cup Y \subseteq Plain
      PROVE  /\ ListBytes[I] <= PlainList /\ ListBytes[X] <= PlainList
             /\ ListBytes[J] <= PlainList /\ ListBytes[Y] <= PlainList
  BY <1>4, BytesAssumption DEF Admissible
<1>5. J = {} /\ Y = {} => /\ ListBytes[J] = ListBytes[{}]
                          /\ ListBytes[X \cup Y] = ListBytes[X]
  <2>1. Y = {} => X \cup Y = X
    OBVIOUS
  <2> QED BY <2>1
<1>6. ASSUME NEW a \in Nat, NEW b \in Nat, NEW c \in Nat, NEW d \in Nat, NEW u \in Nat,
             NEW e \in Nat, u <= b + d,
             a <= PlainList, b <= PlainList, c <= PlainList, d <= PlainList,
             e <= PlainList
      PROVE  /\ ask.rest + a + c + u <= FrameCap
             /\ ask.told + e + a + c + u <= MaxResponse
  BY <1>2, <1>6
<1>7. ASSUME I \cup X \cup J \cup Y \subseteq Plain
      PROVE  /\ ask.rest + ListBytes[I] + ListBytes[J] + ListBytes[X \cup Y] <= FrameCap
             /\ ask.told + ListBytes[IF J = {} THEN I ELSE J] + ListBytes[I]
                  + ListBytes[J] + ListBytes[X \cup Y] <= MaxResponse
  <2>1. /\ ListBytes[IF J = {} THEN I ELSE J] \in Nat
        /\ ListBytes[IF J = {} THEN I ELSE J] <= PlainList
    BY <1>1, <1>4, <1>7
  <2> QED BY <1>1, <1>4, <1>6, <1>7, <2>1
<1>8. ASSUME J = {}, Y = {}
      PROVE  ask.rest + ListBytes[I] + ListBytes[J] + ListBytes[X \cup Y] <= FrameCap
  BY <1>1, <1>2, <1>3, <1>5, <1>8
<1> QED BY <1>7, <1>8

\* For every bound on lists and bytes: a search whose narrowing its schema took is
\* refused only for sets that cannot be built, and for bytes only where there is no room
\* for them.
THEOREM LateRefusals == Spec => []RefusedForItsLists
<1> DEFINE IInv == PolicyAdmitted /\ RefusedForItsLists
<1>1. Init => IInv
  BY DEF Init, PolicyAdmitted, RefusedForItsLists
<1>2. FromPolicy /\ IInv /\ [Next]_vars => IInv'
  <2> SUFFICES ASSUME FromPolicy, IInv, [Next]_vars PROVE IInv'
    OBVIOUS
  <2>1. CASE UNCHANGED vars
    <3>1. policy' = policy /\ answer' = answer
      BY <2>1 DEF vars
    <3>2. PolicyAdmitted'
      BY <3>1 DEF PolicyAdmitted, Admissible
    <3>3. RefusedForItsLists'
      BY <3>1 DEF RefusedForItsLists, Elements
    <3> QED BY <3>2, <3>3
  <2>2. ASSUME NEW i \in Lists, NEW x \in Lists, NEW h \in BOOLEAN, NEW r \in BOOLEAN,
               Register(i, x, h, r)
        PROVE  IInv'
    <3>1. answer' = None
      BY <2>2 DEF Register, FromPolicy
    <3>2. Admissible(Elements(i)) /\ Admissible(Elements(x))
      BY <2>2, AcceptedIsAdmissible DEF Register
    <3>3. policy'.include = Elements(i) /\ policy'.exclude = Elements(x)
      BY <2>2 DEF Register, CreatePolicy
    <3>4. Elements(i) \in Buildable /\ Elements(x) \in Buildable
      <4> DEFINE p == CreatePolicy(i, x, h, r)
      <4>1. WorkerTakes(NarrowPolicy(p, Unnarrowed))
        BY <2>2 DEF Register
      <4>2. /\ NarrowPolicy(p, Unnarrowed).includeGroups[1] = Elements(i)
            /\ NarrowPolicy(p, Unnarrowed).exclude = Elements(x)
        BY DEF NarrowPolicy, CreatePolicy, Unnarrowed, Elements
      <4> QED BY <4>1, <4>2 DEF WorkerTakes
    <3>5. PolicyAdmitted'
      BY <3>2, <3>3, <3>4 DEF PolicyAdmitted, Admissible
    <3>6. RefusedForItsLists'
      BY <3>1 DEF RefusedForItsLists
    <3> QED BY <3>5, <3>6
  <2>3. ASSUME NEW i \in Lists, NEW x \in Lists, NEW ask \in Asks,
               Search([include |-> i, exclude |-> x], ask)
        PROVE  IInv'
    <3> DEFINE n == [include |-> i, exclude |-> x]
               scope == NarrowPolicy(policy, n)
               told == EffectiveScope(policy, scope)
    <3>1. policy # None /\ policy' = policy /\ PolicyAdmitted'
      BY <2>3 DEF Search, PolicyAdmitted, Admissible
    <3>2. CASE Refuse(n, ask, "schema")
      BY <3>1, <3>2 DEF Refuse, RefusedForItsLists
    <3>3. CASE /\ Accepted(i) /\ Accepted(x)
      <4> DEFINE I == policy.include
                 X == policy.exclude
                 J == Elements(i)
                 Y == Elements(x)
      <4>1. /\ Admissible(J) /\ Admissible(Y) /\ Admissible(I) /\ Admissible(X)
            /\ I \in Buildable /\ X \in Buildable /\ {} \in Buildable
        BY <3>1, <3>3, AcceptedIsAdmissible, BytesAssumption DEF PolicyAdmitted
      <4>2. /\ scope.includeGroups[1] = I /\ scope.includeGroups[2] = J
            /\ scope.exclude = X \cup Y
        BY DEF NarrowPolicy
      <4>3. /\ told.include = IF J = {} THEN I ELSE J
            /\ told.includeGroups[1] = I /\ told.includeGroups[2] = J
            /\ told.exclude = X \cup Y
        BY <4>2 DEF EffectiveScope
      <4>4. ClientTakes(scope) /\ ContractTakes(told)
        <5>1. Cardinality(X \cup Y) <= 2 * MaxPatterns
          BY <4>1, UnionFits DEF Admissible
        <5>2. Cardinality(I) <= MaxPatterns /\ Cardinality(J) <= MaxPatterns
          BY <4>1 DEF Admissible
        <5> HIDE DEF scope, told, I, J, X, Y
        <5> QED BY <4>2, <4>3, <5>1, <5>2 DEF ClientTakes, ContractTakes
      <4>5. ~WorkerTakes(scope) =>
              \/ J \notin Buildable
              \/ X \cup Y \notin Buildable /\ ~(Y \subseteq X)
        <5>1. Y \subseteq X => X \cup Y = X
          OBVIOUS
        <5>2. /\ I \cap Malformed = {} /\ J \cap Malformed = {}
              /\ (X \cup Y) \cap Malformed = {}
          BY <4>1 DEF Admissible
        <5> HIDE DEF scope, I, J, X, Y
        <5> QED BY <4>1, <4>2, <4>4, <5>1, <5>2 DEF WorkerTakes
      <4>6. ~FrameFits(scope, ask) => /\ ~(I \cup X \cup J \cup Y \subseteq Plain)
                                      /\ J \cup Y # {}
        <5> HIDE DEF scope, I, J, X, Y
        <5>1. ask.rest + ListBytes[I] + ListBytes[J] + ListBytes[X \cup Y] <= FrameCap
                <=> FrameFits(scope, ask)
          BY <4>2 DEF FrameFits
        <5>2. J \cup Y = {} => J = {} /\ Y = {}
          OBVIOUS
        <5> QED BY <4>1, <5>1, <5>2, BytesFit
      <4>7. ~ServiceTakes(told, ask) => \/ ~(I \cup X \cup J \cup Y \subseteq Plain)
                                        \/ ask.budget < MaxResponse
        <5>1. ask.budget \in 0 .. MaxResponse /\ MaxResponse \in Nat
          BY AsksAssumption
        <5>2. I \cup X \cup J \cup Y \subseteq Plain =>
                ask.told + ListBytes[IF J = {} THEN I ELSE J] + ListBytes[I]
                  + ListBytes[J] + ListBytes[X \cup Y] <= MaxResponse
          <6> HIDE DEF I, J, X, Y
          <6> QED BY <4>1, BytesFit
        <5> HIDE DEF told, I, J, X, Y
        <5>3. ASSUME ~(ask.budget < MaxResponse) PROVE ask.budget = MaxResponse
          BY <5>1, <5>3
        <5> QED BY <4>3, <5>2, <5>3 DEF ServiceTakes
      <4>8. ASSUME NEW by, Refuse(n, ask, by), Owed(by, policy, ask, J, Y)
            PROVE  RefusedForItsLists'
        <5>1. answer' = [narrow |-> n, ask |-> ask, refusedBy |-> by]
          BY <4>8 DEF Refuse
        <5>2. /\ answer'.narrow.include = i /\ answer'.narrow.exclude = x
              /\ answer'.ask = ask /\ answer'.refusedBy = by
          BY <5>1
        <5>3. Elements(answer'.narrow.include) = J /\ Elements(answer'.narrow.exclude) = Y
          BY <5>2
        <5>4. Owed(answer'.refusedBy, policy', answer'.ask,
                   Elements(answer'.narrow.include), Elements(answer'.narrow.exclude))
          BY <3>1, <4>8, <5>2, <5>3
        <5> HIDE DEF I, X, J, Y, scope, told
        <5> QED BY <5>4 DEF RefusedForItsLists, Owed, Elements
      <4>9. CASE answer'.refusedBy = None
        BY <3>1, <4>9 DEF RefusedForItsLists
      <4>10. \/ Refuse(n, ask, "child") /\ ~FrameFits(scope, ask)
             \/ Refuse(n, ask, "worker") /\ ~WorkerTakes(scope)
             \/ Refuse(n, ask, "service") /\ ~ServiceTakes(told, ask)
             \/ answer'.refusedBy = None
        <5>1. \/ Refuse(n, ask, "child") /\ ~FrameFits(scope, ask)
              \/ Refuse(n, ask, "worker") /\ ~WorkerTakes(scope)
              \/ Refuse(n, ask, "service") /\ ~ServiceTakes(told, ask)
              \/ answer' = [narrow |-> n, ask |-> ask, refusedBy |-> None,
                            files |-> Selected(scope), told |-> told]
          BY <2>3, <3>3, <4>4 DEF Search
        <5> QED BY <5>1
      <4>11. /\ ~FrameFits(scope, ask) => Owed("child", policy, ask, J, Y)
             /\ ~WorkerTakes(scope) => Owed("worker", policy, ask, J, Y)
             /\ ~ServiceTakes(told, ask) => Owed("service", policy, ask, J, Y)
        <5> HIDE DEF J, Y, scope, told
        <5> QED BY <4>5, <4>6, <4>7 DEF Owed
      <4> QED BY <3>1, <4>8, <4>9, <4>10, <4>11
    <3> QED BY <2>3, <3>2, <3>3 DEF Search
  <2> QED BY <2>1, <2>2, <2>3 DEF Next
<1> QED BY <1>1, <1>2, AnswersFromPolicy, PTL DEF Spec
-----------------------------------------------------------------------------
(* What the ignore files say of an entry.  The recursion of Nearest is     *)
(* taken apart with the least counterexample.                              *)

\* A set of naturals that is not empty has a least element.
LEMMA LeastOf ==
    ASSUME NEW T, T \subseteq Nat, T # {}
    PROVE  \E n \in T : \A m \in T : n <= m
<1> DEFINE R == OpToRel(<, Nat)
<1>1. \A m, n \in Nat : m < n => <<m, n>> \in R
  BY DEF OpToRel
<1>2. IsWellFoundedOn(R, Nat)
  BY NatLessThanWellFounded
<1> HIDE DEF R
<1>3. PICK n \in T : \A m \in T : ~(<<m, n>> \in R)
  BY <1>2, WFMin, Zenon
<1>4. \A m \in T : n \in Nat /\ m \in Nat /\ ~(m < n)
  BY <1>1, <1>3
<1> QED BY <1>4

\* One that is bounded has a greatest.
LEMMA GreatestOf ==
    ASSUME NEW n \in Nat, NEW T, T \subseteq 0 .. n, T # {}
    PROVE  \E k \in T : \A j \in T : j <= k
<1> DEFINE U == {n - k : k \in T}
<1>1. U \subseteq Nat /\ U # {}
  <2>1. \A k \in T : n - k \in Nat
    OBVIOUS
  <2> QED BY <2>1
<1>2. PICK u \in U : \A v \in U : u <= v
  BY <1>1, LeastOf, Zenon
<1>3. PICK k \in T : u = n - k
  BY <1>2
<1>4. ASSUME NEW j \in T PROVE j <= k
  <2>1. n - j \in U
    OBVIOUS
  <2>2. n - k <= n - j /\ j \in 0 .. n /\ k \in 0 .. n
    BY <1>2, <1>3, <2>1
  <2> QED BY <2>2
<1> QED BY <1>4

Line == [covers : SUBSET Entries, verdict : {"ignore", "whitelist"}]

\* The last line that matches decides.
LEMMA LastLineDecides ==
    ASSUME NEW e, NEW lines \in Seq(Line)
    PROVE  \/ /\ Matched(lines, e) = None
              /\ \A k \in DOMAIN lines : e \notin lines[k].covers
           \/ \E k \in DOMAIN lines :
                /\ e \in lines[k].covers /\ Matched(lines, e) = lines[k].verdict
                /\ \A j \in DOMAIN lines : e \in lines[j].covers => j <= k
<1> DEFINE those == {k \in DOMAIN lines : e \in lines[k].covers}
<1>1. CASE those = {}
  BY <1>1 DEF Matched
<1>2. CASE those # {}
  <2>1. Len(lines) \in Nat /\ those \subseteq 0 .. Len(lines)
    BY LenProperties
  <2>2. \E k \in those : \A j \in those : j <= k
    BY <1>2, <2>1, GreatestOf, Zenon
  <2> DEFINE last == CHOOSE k \in those : \A j \in those : j <= k
  <2>3. last \in those /\ \A j \in those : j <= last
    BY <2>2, Zenon
  <2>4. Matched(lines, e) = lines[last].verdict
    BY <1>2, Zenon DEF Matched
  <2> HIDE DEF last
  <2> QED BY <2>3, <2>4
<1> QED BY <1>1, <1>2

\* v is what the last of m[0] ... m[k] says that says something.
LastOf(m, k, v) ==
    \/ v = None /\ \A j \in 0 .. k : m[j] = None
    \/ \E j \in 0 .. k : /\ m[j] # None /\ v = m[j]
                         /\ \A i \in j + 1 .. k : m[i] = None

\* There is exactly one such answer.
LEMMA LastExists ==
    ASSUME NEW m, NEW k \in Nat
    PROVE  /\ \E v : LastOf(m, k, v)
           /\ \A v, w : LastOf(m, k, v) /\ LastOf(m, k, w) => v = w
<1> DEFINE T == {j \in 0 .. k : m[j] # None}
<1>1. CASE T = {}
  BY <1>1 DEF LastOf
<1>2. CASE T # {}
  <2>1. PICK j \in T : \A i \in T : i <= j
    BY <1>2, GreatestOf, Zenon
  <2>2. LastOf(m, k, m[j])
    BY <2>1 DEF LastOf
  <2>3. ASSUME NEW v, LastOf(m, k, v) PROVE v = m[j]
    BY <2>1, <2>3 DEF LastOf
  <2> QED BY <2>2, <2>3
<1> QED BY <1>1, <1>2

\* It is found by going down from k.
LEMMA LastStep ==
    ASSUME NEW m, NEW k \in Nat, NEW v
    PROVE  /\ m[k] # None => (LastOf(m, k, v) <=> v = m[k])
           /\ LastOf(m, 0, v) <=> v = m[0]
           /\ k # 0 /\ m[k] = None => (LastOf(m, k, v) <=> LastOf(m, k - 1, v))
<1>1. m[k] # None => (LastOf(m, k, v) <=> v = m[k])
  BY DEF LastOf
<1>2. LastOf(m, 0, v) <=> v = m[0]
  BY DEF LastOf
<1>3. ASSUME k # 0, m[k] = None PROVE LastOf(m, k, v) <=> LastOf(m, k - 1, v)
  <2>1. 0 .. k = (0 .. k - 1) \cup {k}
    BY <1>3
  <2>2. \A j \in 0 .. k - 1 : j + 1 .. k = (j + 1 .. k - 1) \cup {k}
    BY <1>3
  <2> QED BY <1>3, <2>1, <2>2 DEF LastOf
<1> QED BY <1>1, <1>2, <1>3

Climbs(m, n, c) ==
    c = [k \in 0 .. n |-> IF m[k] # None \/ k = 0 THEN m[k] ELSE c[k - 1]]

\* The recursion that climbs from n to 0 has a solution, and each ends with the answer.
LEMMA ClimbingFinds ==
    ASSUME NEW m, NEW n \in Nat
    PROVE  /\ \E c : Climbs(m, n, c)
           /\ \A c : Climbs(m, n, c) => LastOf(m, n, c[n])
<1>1. \E c : Climbs(m, n, c)
  <2> DEFINE c == [k \in 0 .. n |-> CHOOSE v : LastOf(m, k, v)]
             rest == [k \in 0 .. n |-> IF m[k] # None \/ k = 0 THEN m[k] ELSE c[k - 1]]
  <2>1. ASSUME NEW k \in 0 .. n PROVE LastOf(m, k, c[k])
    <3>1. \E v : LastOf(m, k, v)
      BY LastExists
    <3> QED BY <3>1, Zenon
  <2> HIDE DEF c
  <2>2. ASSUME NEW k \in 0 .. n PROVE c[k] = rest[k]
    <3>1. CASE m[k] # None
      BY <2>1, <3>1, LastStep
    <3>2. CASE m[k] = None /\ k = 0
      BY <2>1, <3>2, LastStep
    <3>3. CASE m[k] = None /\ k # 0
      <4>1. k - 1 \in 0 .. n /\ LastOf(m, k - 1, c[k - 1]) /\ LastOf(m, k, c[k])
        BY <2>1, <3>3
      <4>2. LastOf(m, k - 1, c[k])
        BY <3>3, <4>1, LastStep
      <4>3. c[k] = c[k - 1]
        BY <4>1, <4>2, LastExists
      <4> QED BY <3>3, <4>3
    <3> QED BY <3>1, <3>2, <3>3
  <2>3. c = [k \in 0 .. n |-> c[k]]
    BY DEF c
  <2> QED BY <2>2, <2>3 DEF Climbs
<1>2. ASSUME NEW c, Climbs(m, n, c) PROVE LastOf(m, n, c[n])
  <2> DEFINE Wrong == {k \in 0 .. n : ~LastOf(m, k, c[k])}
  <2>1. \A k \in 0 .. n : c[k] = IF m[k] # None \/ k = 0 THEN m[k] ELSE c[k - 1]
    BY <1>2 DEF Climbs
  <2>2. Wrong = {}
    <3> SUFFICES ASSUME Wrong # {} PROVE FALSE
      OBVIOUS
    <3>1. PICK k \in Wrong : \A j \in Wrong : k <= j
      <4>1. Wrong \subseteq Nat
        OBVIOUS
      <4> HIDE DEF Wrong
      <4> QED BY <4>1, LeastOf
    <3>2. k # 0 /\ m[k] = None
      BY <2>1, LastStep
    <3>3. k - 1 \in 0 .. n /\ k - 1 \notin Wrong
      BY <3>1, <3>2
    <3>4. LastOf(m, k - 1, c[k - 1]) /\ c[k] = c[k - 1]
      BY <2>1, <3>2, <3>3
    <3>5. LastOf(m, k, c[k])
      BY <3>2, <3>4, LastStep
    <3> QED BY <3>5
  <2> QED BY <2>2
<1> QED BY <1>1, <1>2
\* The ignore file of a kind in the directory at depth k above e, and what it says of e.
FileAt(kind, e, k) == ignore[kind][SubSeq(e, 1, k)]
Said(kind, e, k) == Matched(FileAt(kind, e, k), e)

\* The nearest file that says something decides.
LEMMA NearestDecides ==
    ASSUME NEW kind, NEW e \in Entries
    PROVE  LET n == Len(e) - 1 IN
           \/ Nearest(kind, e) = None /\ \A k \in 0 .. n : Said(kind, e, k) = None
           \/ \E k \in 0 .. n : /\ Nearest(kind, e) = Said(kind, e, k)
                                /\ Said(kind, e, k) # None
                                /\ \A j \in k + 1 .. n : Said(kind, e, j) = None
<1> DEFINE n == Len(e) - 1
           m == [k \in 0 .. n |-> Said(kind, e, k)]
           Body(c) == [k \in 0 .. n |-> IF Said(kind, e, k) # None \/ k = 0
                                        THEN Said(kind, e, k) ELSE c[k - 1]]
           climb == CHOOSE c : c = Body(c)
<1>1. n \in Nat
  BY TreeAssumption, EmptySeq, LenProperties
<1>2. Nearest(kind, e) = climb[n]
  BY DEF Nearest, Said, FileAt
<1>3. ASSUME NEW c PROVE Climbs(m, n, c) <=> c = Body(c)
  <2>1. \A k \in 0 .. n : m[k] = Said(kind, e, k)
    OBVIOUS
  <2>2. Body(c) = [k \in 0 .. n |-> IF m[k] # None \/ k = 0 THEN m[k] ELSE c[k - 1]]
    BY <2>1
  <2> QED BY <2>2, Zenon DEF Climbs
<1>4. climb = Body(climb)
  <2>1. \E c : c = Body(c)
    BY <1>1, <1>3, ClimbingFinds
  <2> QED BY <2>1, Zenon
<1> HIDE DEF climb
<1>5. LastOf(m, n, climb[n])
  BY <1>1, <1>3, <1>4, ClimbingFinds
<1>6. \A k \in 0 .. n : m[k] = Said(kind, e, k)
  OBVIOUS
<1> HIDE DEF m
<1> QED BY <1>1, <1>2, <1>5, <1>6 DEF LastOf

\* Directories above an entry are told apart by their depth.
LEMMA DepthOf ==
    ASSUME NEW e \in Entries, NEW k \in 0 .. Len(e) - 1
    PROVE  Len(SubSeq(e, 1, k)) = k
<1>1. e \in Seq(STRING) /\ Len(e) \in Nat
  BY TreeAssumption, LenProperties
<1>2. \A i \in 1 .. k : e[i] \in STRING
  BY <1>1, ElementOfSeq
<1> QED BY <1>1, <1>2, SubSeqProperties

LineAt(kind, e, k, n) == [kind |-> kind, dir |-> SubSeq(e, 1, k), at |-> n]
Says(l) == ignore[l.kind][l.dir][l.at].verdict

\* The lines that match an entry are those of the ignore files above it.
LEMMA LinesAbove ==
    ASSUME ignore \in IgnoreFiles, NEW e \in Entries
    PROVE  /\ \A kind \in Kinds, k \in 0 .. Len(e) - 1 :
                /\ FileAt(kind, e, k) \in Seq(Line)
                /\ \A n \in DOMAIN FileAt(kind, e, k) :
                     e \in FileAt(kind, e, k)[n].covers =>
                       LineAt(kind, e, k, n) \in Lines(e)
           /\ \A l \in Lines(e) : \E kind \in Kinds, k \in 0 .. Len(e) - 1 :
                \E n \in DOMAIN FileAt(kind, e, k) :
                  /\ l = LineAt(kind, e, k, n) /\ n \in Nat
                  /\ e \in FileAt(kind, e, k)[n].covers
<1>1. ASSUME NEW kind \in Kinds, NEW k \in 0 .. Len(e) - 1
      PROVE  /\ FileAt(kind, e, k) \in Seq(Line)
             /\ DOMAIN FileAt(kind, e, k) \subseteq 1 .. MaxLines
  <2>1. FileAt(kind, e, k) \in Seq(Line) /\ Len(FileAt(kind, e, k)) <= MaxLines
    BY IgnoreAssumption DEF FileAt, Line
  <2>2. /\ Len(FileAt(kind, e, k)) \in Nat /\ MaxLines \in Nat
        /\ DOMAIN FileAt(kind, e, k) = 1 .. Len(FileAt(kind, e, k))
    BY <2>1, LenProperties, IgnoreAssumption
  <2> QED BY <2>1, <2>2
<1>2. ASSUME NEW kind \in Kinds, NEW k \in 0 .. Len(e) - 1,
             NEW n \in DOMAIN FileAt(kind, e, k), e \in FileAt(kind, e, k)[n].covers
      PROVE  LineAt(kind, e, k, n) \in Lines(e)
  <2> DEFINE l == LineAt(kind, e, k, n)
             all == {[kind |-> t, dir |-> SubSeq(e, 1, j), at |-> i] :
                       t \in Kinds, j \in 0 .. Len(e) - 1, i \in 1 .. MaxLines}
  <2>1. l.kind = kind /\ l.dir = SubSeq(e, 1, k) /\ l.at = n
    BY DEF LineAt
  <2>2. n \in 1 .. MaxLines
    BY <1>1, <1>2
  <2>3. l \in all
    BY <2>2 DEF LineAt
  <2>4. l.at \in DOMAIN ignore[l.kind][l.dir] /\ e \in ignore[l.kind][l.dir][l.at].covers
    BY <1>2, <2>1, Zenon DEF FileAt
  <2> HIDE DEF l
  <2>5. l \in Lines(e)
    BY <2>3, <2>4 DEF Lines
  <2> QED BY <2>5 DEF l
<1>3. ASSUME NEW l \in Lines(e)
      PROVE  \E kind \in Kinds, k \in 0 .. Len(e) - 1 :
               \E n \in DOMAIN FileAt(kind, e, k) :
                 /\ l = LineAt(kind, e, k, n) /\ n \in Nat
                 /\ e \in FileAt(kind, e, k)[n].covers
  <2>1. PICK kind \in Kinds, k \in 0 .. Len(e) - 1, n \in 1 .. MaxLines :
          l = [kind |-> kind, dir |-> SubSeq(e, 1, k), at |-> n]
    BY DEF Lines
  <2>2. l.kind = kind /\ l.dir = SubSeq(e, 1, k) /\ l.at = n
    BY <2>1
  <2>4. l.at \in DOMAIN ignore[l.kind][l.dir] /\ e \in ignore[l.kind][l.dir][l.at].covers
    BY DEF Lines
  <2>5. n \in DOMAIN FileAt(kind, e, k) /\ e \in FileAt(kind, e, k)[n].covers
    BY <2>2, <2>4, Zenon DEF FileAt
  <2>3. n \in Nat
    BY IgnoreAssumption
  <2> QED BY <2>1, <2>3, <2>5 DEF LineAt
<1> QED BY <1>1, <1>2, <1>3

\* No two lines outrank each other.
LEMMA RanksDiffer ==
    ASSUME NEW e \in Entries, NEW l \in Lines(e), NEW m \in Lines(e), Outranks(l, m)
    PROVE  ~Outranks(m, l)
<1>1. ASSUME NEW x \in Lines(e)
      PROVE  x.kind \in Kinds /\ Len(x.dir) \in Int /\ x.at \in Int
  <2>1. PICK kind \in Kinds, k \in 0 .. Len(e) - 1, n \in 1 .. MaxLines :
          x = [kind |-> kind, dir |-> SubSeq(e, 1, k), at |-> n]
    BY DEF Lines
  <2>2. k \in Int /\ n \in Int
    BY IgnoreAssumption
  <2>3. x.kind = kind /\ Len(x.dir) = k /\ x.at = n
    BY <2>1, DepthOf
  <2> QED BY <2>2, <2>3
<1>2. /\ l.kind \in Kinds /\ Len(l.dir) \in Int /\ l.at \in Int
      /\ m.kind \in Kinds /\ Len(m.dir) \in Int /\ m.at \in Int
  BY <1>1
<1>3. CASE l.kind # m.kind
  BY <1>2, <1>3 DEF Outranks, Kinds
<1>4. CASE l.kind = m.kind /\ l.dir # m.dir
  BY <1>2, <1>4 DEF Outranks
<1>5. CASE l.kind = m.kind /\ l.dir = m.dir
  BY <1>2, <1>5 DEF Outranks
<1> QED BY <1>3, <1>4, <1>5

\* A line that outranks all others decides.
LEMMA HighestDecides ==
    ASSUME ignore \in IgnoreFiles, NEW e \in Entries, NEW l \in Lines(e),
           \A m \in Lines(e) \ {l} : Outranks(l, m)
    PROVE  IgnoredBy(e) <=> Says(l) = "ignore"
<1>1. ASSUME NEW h \in Lines(e), \A m \in Lines(e) \ {h} : Outranks(h, m)
      PROVE  h = l
  BY <1>1, RanksDiffer
<1> QED BY <1>1 DEF IgnoredBy, Says

\* Of the lines of one kind, Nearest finds the highest.
LEMMA NearestIsHighest ==
    ASSUME ignore \in IgnoreFiles, NEW e \in Entries, NEW kind \in Kinds
    PROVE  \/ Nearest(kind, e) = None /\ \A l \in Lines(e) : l.kind # kind
           \/ \E l \in Lines(e) :
                /\ l.kind = kind /\ Nearest(kind, e) = Says(l) /\ Says(l) # None
                /\ \A m \in Lines(e) \ {l} : m.kind = kind => Outranks(l, m)
<1>1. ASSUME NEW k \in 0 .. Len(e) - 1
      PROVE  \/ /\ Said(kind, e, k) = None
                /\ \A n \in DOMAIN FileAt(kind, e, k) :
                     e \notin FileAt(kind, e, k)[n].covers
             \/ \E n \in DOMAIN FileAt(kind, e, k) :
                  /\ e \in FileAt(kind, e, k)[n].covers
                  /\ Said(kind, e, k) = FileAt(kind, e, k)[n].verdict
                  /\ Said(kind, e, k) # None
                  /\ \A i \in DOMAIN FileAt(kind, e, k) :
                       e \in FileAt(kind, e, k)[i].covers => i <= n
  <2>1. FileAt(kind, e, k) \in Seq(Line)
    BY LinesAbove
  <2>2. \A n \in DOMAIN FileAt(kind, e, k) : FileAt(kind, e, k)[n].verdict # None
    <3>1. \A n \in DOMAIN FileAt(kind, e, k) : FileAt(kind, e, k)[n] \in Line
      BY <2>1
    <3> QED BY <3>1, IgnoreAssumption DEF Line
  <2> QED BY <2>1, <2>2, LastLineDecides DEF Said
<1>2. CASE Nearest(kind, e) = None /\ \A k \in 0 .. Len(e) - 1 : Said(kind, e, k) = None
  <2>1. ASSUME NEW l \in Lines(e), l.kind = kind PROVE FALSE
    <3>1. PICK own \in Kinds, k \in 0 .. Len(e) - 1 :
             \E n \in DOMAIN FileAt(own, e, k) :
               /\ l = LineAt(own, e, k, n) /\ n \in Nat
               /\ e \in FileAt(own, e, k)[n].covers
      BY LinesAbove
    <3>2. own = kind
      BY <2>1, <3>1 DEF LineAt
    <3> QED BY <1>1, <1>2, <3>1, <3>2
  <2> QED BY <1>2, <2>1
<1>3. ASSUME NEW k \in 0 .. Len(e) - 1, Nearest(kind, e) = Said(kind, e, k),
             Said(kind, e, k) # None,
             \A j \in k + 1 .. Len(e) - 1 : Said(kind, e, j) = None
      PROVE  \E l \in Lines(e) :
                /\ l.kind = kind /\ Nearest(kind, e) = Says(l) /\ Says(l) # None
                /\ \A m \in Lines(e) \ {l} : m.kind = kind => Outranks(l, m)
  <2>1. PICK n \in DOMAIN FileAt(kind, e, k) :
          /\ e \in FileAt(kind, e, k)[n].covers
          /\ Said(kind, e, k) = FileAt(kind, e, k)[n].verdict
          /\ \A i \in DOMAIN FileAt(kind, e, k) :
               e \in FileAt(kind, e, k)[i].covers => i <= n
    BY <1>1, <1>3
  <2> DEFINE l == LineAt(kind, e, k, n)
  <2>2. l \in Lines(e) /\ l.kind = kind /\ l.dir = SubSeq(e, 1, k) /\ l.at = n
    BY <2>1, LinesAbove DEF LineAt
  <2>3. Says(l) = Said(kind, e, k)
    BY <2>1, <2>2 DEF Says, FileAt
  <2>n. n \in Nat
    <3>1. FileAt(kind, e, k) \in Seq(Line)
      BY LinesAbove
    <3> QED BY <3>1, LenProperties
  <2> HIDE DEF l
  <2>4. ASSUME NEW m \in Lines(e) \ {l}, m.kind = kind PROVE Outranks(l, m)
    <3>1. PICK j \in 0 .. Len(e) - 1 : \E i \in DOMAIN FileAt(kind, e, j) :
            /\ m = LineAt(kind, e, j, i) /\ i \in Nat
            /\ e \in FileAt(kind, e, j)[i].covers
      <4>1. PICK own \in Kinds, j \in 0 .. Len(e) - 1 :
               \E i \in DOMAIN FileAt(own, e, j) :
                 /\ m = LineAt(own, e, j, i) /\ i \in Nat
                 /\ e \in FileAt(own, e, j)[i].covers
        BY LinesAbove
      <4>2. own = kind
        BY <2>4, <4>1 DEF LineAt
      <4> QED BY <4>1, <4>2
    <3>2. PICK i \in DOMAIN FileAt(kind, e, j) :
            /\ m = LineAt(kind, e, j, i) /\ i \in Nat
            /\ e \in FileAt(kind, e, j)[i].covers
      BY <3>1
    <3>3. m.kind = kind /\ m.dir = SubSeq(e, 1, j) /\ m.at = i
      BY <3>2 DEF LineAt
    <3>4. Said(kind, e, j) # None
      BY <1>1, <3>2
    <3>5. ~(j > k)
      BY <1>3, <3>4
    <3>6. CASE j = k
      <4>1. i <= n /\ l.dir = m.dir
        BY <2>1, <2>2, <3>2, <3>3, <3>6
      <4>2. i # n
        BY <2>4, <3>2, <3>6 DEF l
      <4> QED BY <2>2, <2>n, <3>2, <3>3, <4>1, <4>2 DEF Outranks
    <3>7. CASE j < k
      <4>1. Len(l.dir) = k /\ Len(m.dir) = j
        BY <2>2, <3>3, DepthOf
      <4> QED BY <2>2, <3>3, <3>7, <4>1 DEF Outranks
    <3> QED BY <3>5, <3>6, <3>7
  <2> QED BY <1>3, <2>2, <2>3, <2>4
<1> QED BY <1>2, <1>3, NearestDecides

\* allows() ignores an entry exactly when its highest-ranking line says so.
LEMMA VerdictIsHighest ==
    ASSUME ignore \in IgnoreFiles, NEW e \in Entries
    PROVE  Verdict(e) = "ignore" <=> IgnoredBy(e)
<1>k. ".ignore" \in Kinds /\ ".gitignore" \in Kinds /\ None # "ignore"
  BY IgnoreAssumption DEF Kinds
<1>l. \A l \in Lines(e) : l.kind \in Kinds
  BY LinesAbove DEF LineAt
<1>1. ASSUME NEW l \in Lines(e), l.kind = ".ignore", Nearest(".ignore", e) = Says(l),
             Says(l) # None,
             \A m \in Lines(e) \ {l} : m.kind = ".ignore" => Outranks(l, m)
      PROVE  Verdict(e) = "ignore" <=> IgnoredBy(e)
  <2>1. \A m \in Lines(e) \ {l} : Outranks(l, m)
    BY <1>1 DEF Outranks
  <2> QED BY <1>1, <2>1, HighestDecides DEF Verdict
<1>2. CASE Nearest(".ignore", e) = None /\ \A l \in Lines(e) : l.kind # ".ignore"
  <2>1. \A l \in Lines(e) : l.kind = ".gitignore"
    BY <1>2, <1>l DEF Kinds
  <2>2. Verdict(e) = Nearest(".gitignore", e)
    BY <1>2 DEF Verdict
  <2>3. CASE Nearest(".gitignore", e) = None /\ \A l \in Lines(e) : l.kind # ".gitignore"
    BY <1>k, <2>1, <2>2, <2>3 DEF IgnoredBy
  <2>4. ASSUME NEW l \in Lines(e), Nearest(".gitignore", e) = Says(l),
               \A m \in Lines(e) \ {l} : m.kind = ".gitignore" => Outranks(l, m)
        PROVE  Verdict(e) = "ignore" <=> IgnoredBy(e)
    BY <2>1, <2>2, <2>4, HighestDecides
  <2> QED BY <1>k, <2>3, <2>4, NearestIsHighest
<1> QED BY <1>k, <1>1, <1>2, NearestIsHighest
\* The directories above an entry, and those above them.
LEMMA UptoOf ==
    ASSUME NEW e \in Entries
    PROVE  /\ e \in Upto(e) /\ Upto(e) \subseteq Entries
           /\ \A a \in Upto(e) : /\ Upto(a) \subseteq Upto(e) /\ a \in Upto(a)
                                 /\ a \in Files => a = e
<1>1. e \in Seq(STRING) /\ Len(e) \in Nat \ {0} /\ \A i \in 1 .. Len(e) : e[i] \in STRING
  BY TreeAssumption, EmptySeq, LenProperties, ElementOfSeq
<1>2. ASSUME NEW k \in 1 .. Len(e)
      PROVE  /\ SubSeq(e, 1, k) \in Seq(STRING) /\ Len(SubSeq(e, 1, k)) = k
             /\ \A i \in 1 .. k : SubSeq(e, 1, k)[i] = e[i]
  BY <1>1, SubSeqProperties
<1>3. ASSUME NEW k \in 1 .. Len(e), NEW j \in 1 .. k
      PROVE  SubSeq(SubSeq(e, 1, k), 1, j) = SubSeq(e, 1, j)
  <2> DEFINE d == SubSeq(e, 1, k)
  <2>1. /\ d \in Seq(STRING) /\ Len(d) = k
        /\ \A i \in 1 .. j : d[i] = e[i] /\ e[i] \in STRING
    BY <1>1, <1>2
  <2> HIDE DEF d
  <2>2. /\ SubSeq(d, 1, j) \in Seq(STRING) /\ SubSeq(e, 1, j) \in Seq(STRING)
        /\ Len(SubSeq(d, 1, j)) = j /\ Len(SubSeq(e, 1, j)) = j
        /\ \A i \in 1 .. j : SubSeq(d, 1, j)[i] = d[i] /\ SubSeq(e, 1, j)[i] = e[i]
    BY <1>1, <2>1, SubSeqProperties
  <2>3. SubSeq(d, 1, j) = SubSeq(e, 1, j)
    BY <2>1, <2>2, SeqEqual
  <2> QED BY <2>3 DEF d
<1>4. SubSeq(e, 1, Len(e)) = e
  <2> DEFINE d == SubSeq(e, 1, Len(e))
  <2>1. d \in Seq(STRING) /\ Len(d) = Len(e) /\ \A i \in 1 .. Len(e) : d[i] = e[i]
    BY <1>1, <1>2
  <2> HIDE DEF d
  <2>2. d = e
    BY <1>1, <2>1, SeqEqual
  <2> QED BY <2>2 DEF d
<1>5. e \in Upto(e)
  <2>1. Len(e) \in 1 .. Len(e)
    BY <1>1
  <2> QED BY <1>4, <2>1, Zenon DEF Upto
<1>6. ASSUME NEW a \in Upto(e) PROVE Upto(a) \subseteq Upto(e) /\ a \in Upto(a)
  <2>1. PICK k \in 1 .. Len(e) : a = SubSeq(e, 1, k)
    BY DEF Upto
  <2>2. Len(a) = k
    BY <1>2, <2>1
  <2>3. \A j \in 1 .. k : SubSeq(a, 1, j) = SubSeq(e, 1, j)
    BY <1>3, <2>1
  <2>4. \A j \in 1 .. k : j \in 1 .. Len(e) /\ k \in 1 .. k
    BY <1>1
  <2> QED BY <2>1, <2>2, <2>3, <2>4 DEF Upto
<1> QED BY <1>5, <1>6, TreeAssumption

\* The files that excluded_path() and allows() leave are those of the rules.
LEMMA SelectedByRules ==
    ASSUME ignore \in IgnoreFiles, NEW p, NEW narrow, narrow.include \in Seq(Patterns)
    PROVE  Selected(NarrowPolicy(p, narrow)) =
             {f \in Files :
                /\ p.include = {} \/ AnyMatches(p.include, f)
                /\ narrow.include = <<>> \/ AnyMatches(Elements(narrow.include), f)
                /\ \A a \in Upto(f) :
                     /\ ~AnyMatches(p.exclude \cup Elements(narrow.exclude), a)
                     /\ a \notin Reserved /\ (a \in Dotted => p.hidden)
                     /\ p.respectIgnore => ~IgnoredBy(a)}
<1> DEFINE s == NarrowPolicy(p, narrow)
           Included(f) == /\ p.include = {} \/ AnyMatches(p.include, f)
                          /\ narrow.include = <<>>
                               \/ AnyMatches(Elements(narrow.include), f)
           Kept(a) == /\ ~AnyMatches(p.exclude \cup Elements(narrow.exclude), a)
                      /\ a \notin Reserved /\ (a \in Dotted => p.hidden)
                      /\ p.respectIgnore => ~IgnoredBy(a)
<1>1. /\ s.includeGroups[1] = p.include /\ s.includeGroups[2] = Elements(narrow.include)
      /\ s.exclude = p.exclude \cup Elements(narrow.exclude)
      /\ s.hidden = p.hidden /\ s.respectIgnore = p.respectIgnore
  BY DEF NarrowPolicy
<1>2. Elements(narrow.include) = {} <=> narrow.include = <<>>
  <2> DEFINE list == narrow.include
  <2>1. /\ DOMAIN list = 1 .. Len(list) /\ Len(list) \in Nat
        /\ list = <<>> <=> Len(list) = 0
    BY EmptySeq, LenProperties
  <2> HIDE DEF list
  <2>2. Elements(list) = {} <=> ~ \E k : k \in DOMAIN list
    BY DEF Elements
  <2>3. (\E k : k \in DOMAIN list) <=> Len(list) # 0
    <3>1. Len(list) # 0 => 1 \in 1 .. Len(list)
      BY <2>1
    <3>2. Len(list) = 0 => \A k : k \notin 1 .. Len(list)
      BY <2>1
    <3> QED BY <2>1, <3>1, <3>2
  <2>4. Elements(list) = {} <=> list = <<>>
    BY <2>1, <2>2, <2>3
  <2> QED BY <2>4 DEF list
<1> HIDE DEF s
<1>3. ASSUME NEW f \in Files
      PROVE  (\A a \in Upto(f) : ~ExcludedPath(s, a) /\ Allows(s, a))
               <=> Included(f) /\ \A a \in Upto(f) : Kept(a)
  <2>1. /\ f \in Upto(f) /\ Upto(f) \subseteq Entries
        /\ \A a \in Upto(f) : /\ Upto(a) \subseteq Upto(f) /\ a \in Upto(a)
                              /\ a \in Files => a = f
    BY UptoOf, TreeAssumption
  <2>2. (\A a \in Upto(f) : ~ExcludedPath(s, a))
          <=> \A a \in Upto(f) : a \notin Reserved /\ (a \in Dotted => p.hidden)
    BY <1>1, <2>1 DEF ExcludedPath
  <2>3. ASSUME NEW a \in Upto(f)
        PROVE  Allows(s, a) <=> /\ ~AnyMatches(s.exclude, a)
                                /\ a = f => Included(f)
                                /\ p.respectIgnore => ~IgnoredBy(a)
    <3>1. Verdict(a) = "ignore" <=> IgnoredBy(a)
      BY <2>1, VerdictIsHighest
    <3>2. (\A g \in 1 .. 2 : LET group == s.includeGroups[g]
                             IN group = {} \/ AnyMatches(group, f)) <=> Included(f)
      <4>1. (\A g \in 1 .. 2 : \/ s.includeGroups[g] = {}
                               \/ AnyMatches(s.includeGroups[g], f))
              <=> /\ s.includeGroups[1] = {} \/ AnyMatches(s.includeGroups[1], f)
                  /\ s.includeGroups[2] = {} \/ AnyMatches(s.includeGroups[2], f)
        <5>1. 1 .. 2 = {1, 2}
          OBVIOUS
        <5> QED BY <5>1, Zenon
      <4> QED BY <1>1, <1>2, <4>1
    <3>3. a \in Files <=> a = f
      BY <2>1
    <3>4. Allows(s, a) <=>
            /\ ~AnyMatches(s.exclude, a)
            /\ a \in Files => \A g \in 1 .. 2 : LET group == s.includeGroups[g]
                                                IN group = {} \/ AnyMatches(group, a)
            /\ s.respectIgnore => Verdict(a) # "ignore"
      BY DEF Allows
    <3> QED BY <1>1, <3>1, <3>2, <3>3, <3>4
  <2> HIDE DEF Included
  <2> QED BY <1>1, <2>1, <2>2, <2>3
<1>4. Selected(s) = {f \in Files : Included(f) /\ \A a \in Upto(f) : Kept(a)}
  <2> HIDE DEF Included, Kept
  <2> QED BY <1>3 DEF Selected
<1> QED BY <1>4 DEF s

\* For every tree, whatever the patterns match and the ignore files say: a search sees
\* the files that the rules leave, and the scope it reports selects the same.
THEOREM SelectionFollowsRules == Spec => []SelectionIsReference
<1>1. FromPolicy => SelectionIsReference
  <2> SUFFICES ASSUME FromPolicy, Answered PROVE SelectionIsReference
    BY DEF SelectionIsReference
  <2> DEFINE s == NarrowPolicy(policy, answer.narrow)
  <2>1. answer.narrow.include \in Seq(Patterns)
    BY TreeAssumption DEF FromPolicy
  <2>2. Selected(EffectiveScope(policy, s)) = Selected(s)
    <3>1. /\ EffectiveScope(policy, s).includeGroups = s.includeGroups
          /\ EffectiveScope(policy, s).exclude = s.exclude
          /\ EffectiveScope(policy, s).hidden = s.hidden
          /\ EffectiveScope(policy, s).respectIgnore = s.respectIgnore
      BY DEF EffectiveScope, NarrowPolicy
    <3> HIDE DEF s
    <3> QED BY <3>1 DEF Selected, ExcludedPath, Allows
  <2>3. answer.files = Selected(s) /\ answer.told = EffectiveScope(policy, s)
    BY DEF FromPolicy
  <2>4. Selected(s) =
          {f \in Files :
             /\ policy.include = {} \/ AnyMatches(policy.include, f)
             /\ answer.narrow.include = <<>>
                  \/ AnyMatches(Elements(answer.narrow.include), f)
             /\ \A a \in Upto(f) :
                  /\ ~AnyMatches(policy.exclude \cup Elements(answer.narrow.exclude), a)
                  /\ a \notin Reserved /\ (a \in Dotted => policy.hidden)
                  /\ policy.respectIgnore => ~IgnoredBy(a)}
    BY <2>1, SelectedByRules DEF FromPolicy
  <2> HIDE DEF s
  <2> QED BY <2>2, <2>3, <2>4 DEF SelectionIsReference
<1> QED BY <1>1, AnswersFromPolicy, PTL
=============================================================================
